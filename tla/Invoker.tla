------------------------------ MODULE Invoker ------------------------------
(***************************************************************************)
(* SimpleInvoker: send(), usend() and call(), each on a socket, a client   *)
(* and a router of its own, and close(), which drains the requests and     *)
(* then closes the resolver that send() asks over the public router.       *)
(*                                                                         *)
(* One action is what runs between two awaits that matter here.  The       *)
(* request is BaseRequest's and the resolver Resolver's, by what they      *)
(* promise: a request holds its plugs until it is closed, and the          *)
(* resolver's close() waits for the queries it has begun.  A send begins   *)
(* a query of its own, when the cache does not answer.                     *)
(***************************************************************************)
EXTENDS Naturals, FiniteSets

CONSTANT Sends   \* calls of send, usend and call

Public  == "public"
Routers == Sends \cup {Public}

ASSUME SendsAssumption ==
    IsFiniteSet(Sends) /\ Sends \cap {Public, "notify", "request"} = {}

VARIABLES invoker,  \* lifeCycle
          closing,  \* where close() is: "drain" is waitAllDone()
          refs,     \* of request_async_manager
          leaked,   \* history: references whose request was never made
          send,     \* what each call is and where
          query,    \* what it asks the registry: "closing" is answered or failed
          plugged   \* who has handlers plugged into each router

invokerVars == <<invoker, closing, refs, leaked, send, query, plugged>>

Kinds  == {"send", "usend", "call"}
Phases == {"none", "opening", "failed", "pre", "preloading", "running", "post",
           "resolver", "router", "asserted", "socket", "over"}
\* "notify": the resolver's DomainClientHandler.  A send holds its query's plugs.
InvokerHolders == {"notify", "request"} \cup Sends

InvokerTypeOK ==
    /\ invoker \in {"starting", "ready", "closed"}
    /\ closing \in {"none", "drain", "resolver", "done"}
    /\ refs \in Nat
    /\ leaked \in Nat
    /\ send \in [Sends -> [kind : Kinds, phase : Phases]]
    /\ query \in [Sends -> {"none", "running", "closing"}]

InvokerInit ==
    /\ invoker = "starting"
    /\ closing = "none"
    /\ refs = 0
    /\ leaked = 0
    /\ send = [s \in Sends |-> [kind |-> "send", phase |-> "none"]]
    /\ query = [s \in Sends |-> "none"]
    /\ plugged = [r \in Routers |-> {}]

-----------------------------------------------------------------------------
At(s, phase) == send[s].phase = phase
GoTo(s, phase) == send' = [send EXCEPT ![s].phase = phase]

Plug(r, holder)   == plugged' = [plugged EXCEPT ![r] = @ \cup {holder}]
Unplug(r, holder) == plugged' = [plugged EXCEPT ![r] = @ \ {holder}]

\* The router its resolver was made with
AsksOver(s) == IF send[s].kind = "usend" THEN s ELSE Public

\* Where a call goes on after sendRequest: to the post wares, which call() has not,
\* and where its finally begins.
AfterRequest(s) == IF send[s].kind = "call" THEN "router" ELSE "post"
AfterAll(s)     == IF send[s].kind = "usend" THEN "resolver" ELSE "router"

Waiting == closing # "none"

\* start(): the resolver is on the public router.
Start ==
    /\ invoker = "starting"
    /\ invoker' = "ready"
    /\ UNCHANGED <<closing, refs, leaked, send, query>>

-----------------------------------------------------------------------------
(* send, usend, call *)

\* call() looks at the life cycle before it opens its socket.
Begin(s, kind) ==
    /\ At(s, "none")
    /\ send' = [send EXCEPT ![s] =
                  [kind |-> kind,
                   phase |-> IF kind = "call" /\ invoker # "ready" THEN "over" ELSE "opening"]]
    /\ UNCHANGED <<invoker, closing, refs, leaked, query, plugged>>

\* The socket is bound.  send() and usend() look at the life cycle when they
\* build their route with the resolver.
Opened(s) ==
    /\ At(s, "opening")
    /\ GoTo(s, IF send[s].kind # "call" /\ invoker # "ready" THEN AfterAll(s) ELSE "pre")
    /\ IF send[s].kind = "usend" THEN Plug(s, "notify") ELSE UNCHANGED plugged
    /\ UNCHANGED <<invoker, closing, refs, leaked, query>>

\* It is not: the error is emitted, and nothing settles when("ready").
OpenFails(s) ==
    /\ At(s, "opening")
    /\ GoTo(s, "failed")
    /\ UNCHANGED <<invoker, closing, refs, leaked, query, plugged>>

\* A pre ware throws: no request, and no post ware.
PreThrows(s) ==
    /\ At(s, "pre")
    /\ send[s].kind # "call"
    /\ GoTo(s, AfterAll(s))
    /\ UNCHANGED <<invoker, closing, refs, leaked, query, plugged>>

\* Fault: setRef(+1) counts before it looks at `waiting`.
Refused_CountsFirst(s) ==
    /\ At(s, "pre")
    /\ refs' = IF Waiting THEN refs + 1 ELSE refs
    /\ GoTo(s, AfterRequest(s))
    /\ UNCHANGED <<invoker, closing, leaked, query, plugged>>

\* The path or the data is not valid, or setRef(+1) throws.
Refused(s) ==
    /\ At(s, "pre")
    /\ GoTo(s, AfterRequest(s))
    /\ UNCHANGED <<invoker, closing, refs, leaked, query, plugged>>

\* The constructor throws as the packet cannot be encoded: the reference has
\* been taken, and nobody listens to the request's end.
Leaks(s) ==
    /\ At(s, "pre")
    /\ ~Waiting
    /\ refs' = refs + 1
    /\ leaked' = leaked + 1
    /\ GoTo(s, AfterRequest(s))
    /\ UNCHANGED <<invoker, closing, query, plugged>>

\* sendRequest, with an address at hand: call()'s, or the cache's.
RunAtOnce(s) ==
    /\ At(s, "pre")
    /\ ~Waiting
    /\ refs' = refs + 1
    /\ GoTo(s, "running")
    /\ Plug(s, "request")
    /\ UNCHANGED <<invoker, closing, leaked, query>>

\* sendRequest, with a name to be resolved first
Preload(s) ==
    /\ At(s, "pre")
    /\ ~Waiting
    /\ send[s].kind # "call"
    /\ refs' = refs + 1
    /\ query' = [query EXCEPT ![s] = "running"]
    /\ GoTo(s, "preloading")
    /\ Plug(AsksOver(s), s)
    /\ UNCHANGED <<invoker, closing, leaked>>

\* The name is resolved and the request runs; the query's request closes later.
Preloaded(s) ==
    /\ At(s, "preloading")
    /\ query[s] = "running"
    /\ query' = [query EXCEPT ![s] = "closing"]
    /\ GoTo(s, "running")
    /\ Plug(s, "request")
    /\ UNCHANGED <<invoker, closing, refs, leaked>>

\* The request dies in "starting": its name is not resolved, or its timer comes
\* first, and then the query goes on without it.
DiesStarting(s) ==
    /\ At(s, "preloading")
    /\ \/ query' = [query EXCEPT ![s] = "closing"]
       \/ UNCHANGED query
    /\ refs' = refs - 1
    /\ GoTo(s, AfterRequest(s))
    /\ UNCHANGED <<invoker, closing, leaked, plugged>>

\* A running request resolves its route for every slice it sends, and asks again
\* when the cache has lost the name.
AsksAgain(s) ==
    /\ At(s, "running")
    /\ send[s].kind # "call"
    /\ query[s] = "none"
    /\ query' = [query EXCEPT ![s] = "running"]
    /\ Plug(AsksOver(s), s)
    /\ UNCHANGED <<invoker, closing, refs, leaked, send>>

\* A query that no preload waits for is answered or fails.
Answered(s) ==
    /\ query[s] = "running"
    /\ ~At(s, "preloading")
    /\ query' = [query EXCEPT ![s] = "closing"]
    /\ UNCHANGED <<invoker, closing, refs, leaked, send, plugged>>

\* Its request unplugs, and the resolver's reference is given back.
QueryCloses(s) ==
    /\ query[s] = "closing"
    /\ query' = [query EXCEPT ![s] = "none"]
    /\ Unplug(AsksOver(s), s)
    /\ UNCHANGED <<invoker, closing, refs, leaked, send>>

\* Answered, failed or timed out, the request ends when its resending loop is
\* not in a send that waits for the resolver: it unplugs and is "closed".
RequestEnds(s) ==
    /\ At(s, "running")
    /\ query[s] # "running"
    /\ refs' = refs - 1
    /\ GoTo(s, AfterRequest(s))
    /\ Unplug(s, "request")
    /\ UNCHANGED <<invoker, closing, leaked, query>>

\* The post wares are through, or one throws.
PostEnds(s) ==
    /\ At(s, "post")
    /\ GoTo(s, AfterAll(s))
    /\ UNCHANGED <<invoker, closing, refs, leaked, query, plugged>>

\* Fault: close() relies on a reference still to be given back.
ResolverCloses_NoCheck(s) ==
    /\ At(s, "resolver")
    /\ query[s] = "closing"
    /\ query' = [query EXCEPT ![s] = "none"]
    /\ GoTo(s, "router")
    /\ plugged' = [plugged EXCEPT ![s] = @ \ {"notify", s}]
    /\ UNCHANGED <<invoker, closing, refs, leaked>>

\* usend(): its resolver is closed when its queries are over.
ResolverCloses(s) ==
    /\ At(s, "resolver")
    /\ query[s] = "none"
    /\ GoTo(s, "router")
    /\ Unplug(s, "notify")
    /\ UNCHANGED <<invoker, closing, refs, leaked, query>>

\* router.close(), which asserts that plug_ref is 0, and client.close()
RouterCloses(s) ==
    /\ At(s, "router")
    /\ GoTo(s, IF plugged[s] = {} THEN "socket" ELSE "asserted")
    /\ UNCHANGED <<invoker, closing, refs, leaked, query, plugged>>

SocketCloses(s) ==
    /\ At(s, "socket")
    /\ GoTo(s, "over")
    /\ UNCHANGED <<invoker, closing, refs, leaked, query, plugged>>

-----------------------------------------------------------------------------
(* close() *)

Drain ==
    /\ closing = "none"
    /\ closing' = "drain"
    /\ UNCHANGED <<invoker, refs, leaked, send, query, plugged>>

\* Fault: waitAllDone() is not awaited.
CloseResolver_Undrained ==
    /\ closing = "drain"
    /\ closing' = "resolver"
    /\ Unplug(Public, "notify")
    /\ UNCHANGED <<invoker, refs, leaked, send, query>>

\* The last reference is given back: resolver.close().
CloseResolver ==
    /\ closing = "drain"
    /\ refs = 0
    /\ closing' = "resolver"
    /\ Unplug(Public, "notify")
    /\ UNCHANGED <<invoker, refs, leaked, send, query>>

\* Fault: the resolver does not wait for its queries.
InvokerCloses_QueriesLeft ==
    /\ closing = "resolver"
    /\ closing' = "done"
    /\ invoker' = "closed"
    /\ UNCHANGED <<refs, leaked, send, query, plugged>>

InvokerCloses ==
    /\ closing = "resolver"
    /\ \A s \in Sends : AsksOver(s) = Public => query[s] = "none"
    /\ closing' = "done"
    /\ invoker' = "closed"
    /\ UNCHANGED <<refs, leaked, send, query, plugged>>

-----------------------------------------------------------------------------
Requests(s) == Refused(s) \/ Leaks(s) \/ RunAtOnce(s) \/ Preload(s)

SendNext(s) ==
    \/ \E kind \in Kinds : Begin(s, kind)
    \/ Opened(s) \/ OpenFails(s)
    \/ PreThrows(s) \/ Requests(s)
    \/ Preloaded(s) \/ DiesStarting(s) \/ AsksAgain(s) \/ Answered(s) \/ QueryCloses(s)
    \/ RequestEnds(s) \/ PostEnds(s)
    \/ ResolverCloses(s) \/ RouterCloses(s) \/ SocketCloses(s)

(* Fairness.  Sockets are bound or fail; wares end, which is up to the user;  *)
(* queries and requests end by their timers at the latest, and a request that *)
(* is to end begins no new round of sends.                                    *)
SendFairness(s) ==
    /\ WF_invokerVars(Opened(s) \/ OpenFails(s))
    /\ WF_invokerVars(PreThrows(s) \/ Requests(s))
    /\ WF_invokerVars(Preloaded(s) \/ DiesStarting(s))
    /\ WF_invokerVars(Answered(s)) /\ WF_invokerVars(QueryCloses(s))
    /\ SF_invokerVars(RequestEnds(s))
    /\ WF_invokerVars(PostEnds(s)) /\ WF_invokerVars(ResolverCloses(s))
    /\ WF_invokerVars(RouterCloses(s)) /\ WF_invokerVars(SocketCloses(s))

InvokerFairness ==
    /\ \A s \in Sends : SendFairness(s)
    /\ WF_invokerVars(CloseResolver) /\ WF_invokerVars(InvokerCloses)

-----------------------------------------------------------------------------
(* Properties *)

\* The invoker's resolver is open, and its notifications heard, as long as a
\* request may ask it, though sends go on while close() is called: a send that
\* comes too late is refused before it makes a request.
ResolverOpen ==
    \A s \in Sends :
      send[s].phase \in {"preloading", "running"} /\ send[s].kind = "send" =>
        /\ closing \in {"none", "drain"}
        /\ "notify" \in plugged[Public]

\* Every send comes back and has closed its socket, whatever close() does
\* meanwhile, unless the socket could not be bound.
SendsEnd == \A s \in Sends : ~At(s, "none") ~> send[s].phase \in {"over", "failed"}
=============================================================================
