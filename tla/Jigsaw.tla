------------------------------- MODULE Jigsaw -------------------------------
(***************************************************************************)
(* SimpleJigsaw: one invoker and one provider on a public socket, client   *)
(* and router, and close(), which takes them down in order while sends are *)
(* under way and requests are being served.  The updater and the invoke    *)
(* handler are here by what RegistryUpdater and InvokeHandler promise.     *)
(***************************************************************************)
EXTENDS Invoker

CONSTANT Served   \* requests that arrive to be served

ASSUME ServedAssumption ==
    /\ Served \cap InvokerHolders = {}
    /\ (Served \cup Sends) \cap {"invoke", "purge"} = {}

VARIABLES life,   \* lifeCycle
          step,   \* what close() is awaiting
          named,  \* the jigsaw has a name to be purged from the registry
          served  \* their handlers; a "stuck" one never ends

vars == <<invokerVars, life, step, named, served>>

Holders == InvokerHolders \cup {"invoke", "purge"} \cup Served

TypeOK ==
    /\ InvokerTypeOK
    /\ plugged \in [Routers -> SUBSET Holders]
    /\ life \in {"starting", "ready", "closing", "closed"}
    /\ step \in {"none", "invoker", "updater", "handler", "asserted", "socket", "done"}
    /\ named \in BOOLEAN
    /\ served \in [Served -> {"none", "running", "stuck", "replying", "ended"}]

Init ==
    /\ InvokerInit
    /\ life = "starting"
    /\ step = "none"
    /\ named \in BOOLEAN
    /\ served = [h \in Served |-> "none"]

-----------------------------------------------------------------------------
\* init(), the public socket being bound: start() of both.  When it is not
\* bound the jigsaw is "starting" for good.
Starts ==
    /\ Start
    /\ plugged' = [plugged EXCEPT ![Public] = {"notify", "invoke"}]
    /\ UNCHANGED <<life, step, named, served>>

Ready ==
    /\ life = "starting" /\ invoker = "ready"
    /\ life' = "ready"
    /\ UNCHANGED <<invokerVars, step, named, served>>

\* close() on a "ready" jigsaw; any other call throws or returns at once.
Close ==
    /\ life = "ready"
    /\ life' = "closing"
    /\ step' = "invoker"
    /\ Drain
    /\ UNCHANGED named

CloseCalled == Close /\ UNCHANGED served

-----------------------------------------------------------------------------
(* Requests being served *)

Serve(h) ==
    /\ served[h] = "none"
    /\ "invoke" \in plugged[Public]
    /\ served' = [served EXCEPT ![h] = "running"]
    /\ UNCHANGED <<invokerVars, life, step, named>>

\* A handler that calls close() first and awaits it, which awaits the handler
AwaitsClose(h) ==
    /\ served[h] = "running"
    /\ served' = [served EXCEPT ![h] = "stuck"]
    /\ Close

\* or throws what cannot be encoded: the invoke handler goes on counting it.
CannotReply(h) ==
    /\ served[h] = "running"
    /\ served' = [served EXCEPT ![h] = "stuck"]
    /\ UNCHANGED <<invokerVars, life, step, named>>

\* Its reply waits for acknowledgements, unless the invoke handler is closed.
HandlerEnds(h) ==
    /\ served[h] = "running"
    /\ IF "invoke" \in plugged[Public]
       THEN served' = [served EXCEPT ![h] = "replying"] /\ Plug(Public, h)
       ELSE served' = [served EXCEPT ![h] = "ended"] /\ UNCHANGED plugged
    /\ UNCHANGED <<invoker, closing, refs, leaked, send, query, life, step, named>>

\* All are acknowledged, or the timer ends it.
Acknowledged(h) ==
    /\ served[h] = "replying"
    /\ served' = [served EXCEPT ![h] = "ended"]
    /\ Unplug(Public, h)
    /\ UNCHANGED <<invoker, closing, refs, leaked, send, query, life, step, named>>

-----------------------------------------------------------------------------
(* close(), after the invoker's *)

Replying == {h \in Served : served[h] = "replying"}

\* updater.close(): one that has a name is purged, over the public router.
UpdaterCloses ==
    /\ step = "invoker" /\ closing = "done"
    /\ step' = "updater"
    /\ IF named THEN Plug(Public, "purge") ELSE UNCHANGED plugged
    /\ UNCHANGED <<invoker, closing, refs, leaked, send, query, life, named, served>>

\* The purge's request is answered, or times out.
PurgeEnds ==
    /\ "purge" \in plugged[Public]
    /\ Unplug(Public, "purge")
    /\ UNCHANGED <<invoker, closing, refs, leaked, send, query, life, step, named, served>>

\* invoke_handler.close()
HandlerCloses ==
    /\ step = "updater" /\ "purge" \notin plugged[Public]
    /\ step' = "handler"
    /\ served' = [h \in Served |-> IF h \in Replying THEN "ended" ELSE served[h]]
    /\ plugged' = [plugged EXCEPT ![Public] = @ \ ({"invoke"} \cup Replying)]
    /\ UNCHANGED <<invoker, closing, refs, leaked, send, query, life, named>>

\* It waits for the handlers; then router.close(), with its assertion.
PublicRouterCloses ==
    /\ step = "handler"
    /\ \A h \in Served : served[h] \notin {"running", "stuck"}
    /\ step' = IF plugged[Public] = {} THEN "socket" ELSE "asserted"
    /\ UNCHANGED <<invokerVars, life, named, served>>

Closed ==
    /\ step = "socket"
    /\ step' = "done"
    /\ life' = "closed"
    /\ UNCHANGED <<invokerVars, named, served>>

-----------------------------------------------------------------------------
Invokes(action) == action /\ UNCHANGED <<life, step, named, served>>

Next ==
    \/ Starts \/ Ready \/ CloseCalled
    \/ \E s \in Sends : Invokes(SendNext(s))
    \/ \E h \in Served : \/ Serve(h) \/ AwaitsClose(h) \/ CannotReply(h)
                          \/ HandlerEnds(h) \/ Acknowledged(h)
    \/ Invokes(CloseResolver) \/ Invokes(InvokerCloses)
    \/ UpdaterCloses \/ PurgeEnds \/ HandlerCloses \/ PublicRouterCloses \/ Closed

Spec == Init /\ [][Next]_vars

(* Fairness.  As Invoker's; handlers end; the purge ends by its timer at the  *)
(* latest.  The public socket need not be bound, nor acknowledgements come.   *)
Fairness ==
    /\ InvokerFairness
    /\ \A h \in Served : WF_vars(HandlerEnds(h))
    /\ WF_vars(UpdaterCloses) /\ WF_vars(PurgeEnds) /\ WF_vars(HandlerCloses)
    /\ WF_vars(PublicRouterCloses) /\ WF_vars(Closed)

FairSpec == Spec /\ Fairness

-----------------------------------------------------------------------------
(* Properties *)

\* No router.close() meets a handler that is still plugged: not a send's, of its
\* request or resolver, and not the public one's, of a query that outlives its
\* request, of the purge or of a reply.  The assertion would leave the client's
\* timer and the socket behind, and the jigsaw closing for good.
RoutersQuiet == step # "asserted" /\ \A s \in Sends : ~At(s, "asserted")

\* A request is served to its end and a send to its answer: when the jigsaw is
\* closed no handler is running and none of its requests is under way.
ClosedIsQuiet ==
    life = "closed" =>
      /\ \A h \in Served : served[h] \in {"none", "ended"}
      /\ \A s \in Sends : send[s].phase \notin {"preloading", "running"}

\* close() returns, whatever is under way, unless a request's constructor has
\* thrown before, or a handler awaits close() or its reply cannot be encoded.
CloseReturns ==
    life = "closing" ~> \/ life = "closed"
                        \/ leaked > 0
                        \/ \E h \in Served : served[h] = "stuck"
=============================================================================
