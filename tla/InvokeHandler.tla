--------------------------- MODULE InvokeHandler ---------------------------
(***************************************************************************)
(* InvokeHandler of a provider and its Invokers: from the request's packet *)
(* to the reply's last acknowledgement, and close(), which waits for       *)
(* handlers and reply loops but not for clients.                           *)
(*                                                                         *)
(* One action is what runs between two awaits.  What becomes of the slices *)
(* is in Transfer; here a reply slicer is done by its acknowledgements, by *)
(* its 12 s timer or by close(), and a reply loop is somewhere in its      *)
(* sends.                                                                  *)
(***************************************************************************)
EXTENDS Integers, FiniteSets

CONSTANTS Requests,   \* ids of the requests that arrive, resent ones too
          MaxJobs,    \* bound on the invokers made
          MaxLoops,   \* bound on the reply loops of one invoker at a time
          Capacity    \* size of the map of invokers: 500

ASSUME RequestsAssumption == Requests # {}
ASSUME JobsAssumption     == MaxJobs \in Nat /\ MaxLoops \in Nat
ASSUME CapacityAssumption == Capacity \in Nat \ {0}

Jobs == 1 .. MaxJobs

VARIABLES life,      \* lifeCycle
          plugged,   \* handlePacket is plugged for "InvokePacket"
          refs,
          invokers,  \* the map's Invokers; the oldest is the one made first
          job,       \* every Invoker made: its state and its request
          acks,      \* those whose acknowledgements are plugged
          fresh,     \* those whose handlePacket is to send the first round
          loops,     \* the sendInvokeResult calls at a send, of each
          stuck      \* those whose reply could not be encoded

vars == <<life, plugged, refs, invokers, job, acks, fresh, loops, stuck>>

TypeOK ==
    /\ life \in {"starting", "ready", "closing", "closed"}
    /\ plugged \in BOOLEAN
    /\ refs \in [reply : Nat, invokers : Nat]
    /\ invokers \subseteq Jobs /\ Cardinality(invokers) <= Capacity
    /\ job \in [Jobs -> [state : {"none", "invoking", "invoked", "closing", "done"},
                         request : Requests]]
    /\ {acks, fresh, stuck} \subseteq SUBSET Jobs
    /\ loops \in [Jobs -> 0 .. MaxLoops]

Init ==
    /\ life = "starting"
    /\ plugged = TRUE
    /\ refs = [reply |-> 0, invokers |-> 0]
    /\ invokers = {}
    /\ job = [k \in Jobs |-> [state |-> "none", request |-> CHOOSE r \in Requests : TRUE]]
    /\ acks = {} /\ fresh = {} /\ stuck = {}
    /\ loops = [k \in Jobs |-> 0]

-----------------------------------------------------------------------------
(* References and Invoker.close() *)

\* Fault: the reply loops are not looked at.
NoneLeft_Invokers(r) == r.invokers = 0

NoneLeft(r) == r.invokers = 0 /\ r.reply = 0

\* setRef: while closing, no reference left is closed.
SetRefs(r) ==
    /\ refs' = r
    /\ life' = IF life = "closing" /\ NoneLeft(r) THEN "closed" ELSE life

Ref(key, offset) == SetRefs([refs EXCEPT ![key] = @ + offset])

\* Fault: the reference is given back for invokers still invoking, too.
Ended_Invoking(ks) == {k \in ks : job[k].state \in {"invoking", "invoked"}}

\* Of the invokers that are closed, those whose slicer is done by it.
Ended(ks) == {k \in ks : job[k].state = "invoked"}

\* Invoker.close()
Closed(state) ==
    CASE state = "invoking" -> "closing"
      [] state = "invoked"  -> "done"
      [] OTHER              -> state

\* Some invokers are closed: one that is invoking goes on to its handler's end;
\* the slicer of one that is invoked is done, and its listener gives back the
\* reference (see below) and the plug.
Closing(ks) == [k \in Jobs |-> IF k \in ks THEN [job[k] EXCEPT !.state = Closed(@)] ELSE job[k]]
CloseInvokers(ks) ==
    /\ job' = Closing(ks)
    /\ acks' = acks \ Ended(ks)

-----------------------------------------------------------------------------
(* Packets *)

Ready ==
    /\ life = "starting"
    /\ life' = "ready"
    /\ UNCHANGED <<plugged, refs, invokers, job, acks, fresh, loops, stuck>>

Has(r) == \E k \in invokers : job[k].request = r

Oldest(ks) == {k \in ks : \A o \in ks : k <= o}

\* addNewInvoker up to the handler.  set() takes out some that have expired and
\* the oldest of a full map; what is "deleted" is closed.
NewInvoker(r, k) ==
    /\ life = "ready" /\ plugged
    /\ ~Has(r)
    /\ job[k].state = "none" /\ \A o \in 1 .. k - 1 : job[o].state # "none"
    /\ \E swept \in SUBSET invokers :
         LET kept == invokers \ swept
             full == Cardinality(kept) >= Capacity
             gone == IF full THEN swept \cup Oldest(kept) ELSE swept
         IN  /\ invokers' = (invokers \ gone) \cup {k}
             /\ job' = [Closing(gone) EXCEPT ![k] = [state |-> "invoking", request |-> r]]
             /\ acks' = acks \ Ended(gone)
             /\ refs' = [refs EXCEPT !.invokers = @ + 1 - Cardinality(Ended(gone))]
    /\ UNCHANGED <<life, plugged, fresh, loops, stuck>>

\* sendInvokeResult up to its first send
StartReply(k) ==
    IF job[k].state = "invoked" /\ life # "closing"
    THEN loops' = [loops EXCEPT ![k] = @ + 1] /\ Ref("reply", 1)
    ELSE UNCHANGED <<loops, refs, life>>

\* A resent request finds its invoker.
Resent(k) ==
    /\ life = "ready" /\ plugged
    /\ k \in invokers
    /\ job[k].state = "invoked"
    /\ loops[k] < MaxLoops
    /\ StartReply(k)
    /\ UNCHANGED <<plugged, invokers, job, acks, fresh, stuck>>

\* Fault: setState("invoked") forgets that the invoker was closed.
Invoked_Plain(state) == "invoked"

\* Invoker.setState("invoked")
Invoked(state) == IF state = "closing" THEN "done" ELSE "invoked"

\* The handler has returned or thrown: its reply gets a slicer, and if the
\* invoker was closed meanwhile the slicer is done at once.
HandlerEnds(k) ==
    /\ job[k].state \in {"invoking", "closing"}
    /\ k \notin stuck
    /\ LET state == Invoked(job[k].state)
       IN  /\ job' = [job EXCEPT ![k].state = state]
           /\ acks' = IF state = "invoked" THEN acks \cup {k} ELSE acks
           /\ Ref("invokers", IF state = "invoked" THEN 0 ELSE -1)
    /\ fresh' = fresh \cup {k}
    /\ UNCHANGED <<plugged, invokers, loops, stuck>>

\* It has thrown what no ErrorPacket can encode, undefined for one:
\* addNewInvoker rejects before there is a slicer.
CannotReply(k) ==
    /\ job[k].state \in {"invoking", "closing"} /\ k \notin stuck
    /\ stuck' = stuck \cup {k}
    /\ UNCHANGED <<life, plugged, refs, invokers, job, acks, fresh, loops>>

\* handlePacket goes on after its await.
FirstReply(k) ==
    /\ k \in fresh
    /\ loops[k] < MaxLoops
    /\ fresh' = fresh \ {k}
    /\ StartReply(k)
    /\ UNCHANGED <<plugged, invokers, job, acks, stuck>>

\* A reply loop has sent its round, or stops as the handler is not ready.
ReplyEnds(k) ==
    /\ loops[k] > 0
    /\ loops' = [loops EXCEPT ![k] = @ - 1]
    /\ Ref("reply", -1)
    /\ UNCHANGED <<plugged, invokers, job, acks, fresh, stuck>>

\* The last acknowledgement, or the slicer's timer.
AllDone(k) ==
    /\ job[k].state = "invoked"
    /\ CloseInvokers({k})
    /\ Ref("invokers", -1)
    /\ UNCHANGED <<plugged, invokers, fresh, loops, stuck>>

-----------------------------------------------------------------------------

\* Fault: close() relies on a reference still to be given back.
AfterClose_NoCheck(r) == "closing"

AfterClose(r) == IF NoneLeft(r) THEN "closed" ELSE "closing"

\* close() up to its await: the invokers of the map first, still being ready,
\* then no more packets, then the check for references.
Close ==
    /\ life = "ready"
    /\ CloseInvokers(invokers)
    /\ plugged' = FALSE
    /\ refs' = [refs EXCEPT !.invokers = @ - Cardinality(Ended(invokers))]
    /\ life' = AfterClose(refs')
    /\ UNCHANGED <<invokers, fresh, loops, stuck>>

Next ==
    \/ Ready \/ Close
    \/ \E r \in Requests, k \in Jobs : NewInvoker(r, k)
    \/ \E k \in Jobs : \/ Resent(k) \/ HandlerEnds(k) \/ CannotReply(k)
                       \/ FirstReply(k) \/ ReplyEnds(k) \/ AllDone(k)

Spec == Init /\ [][Next]_vars

(* Fairness.  Handlers return, which is up to the user; promise continuations *)
(* run and sends end.  The slicer's timer is not needed and not assumed.      *)
Fairness ==
    \A k \in Jobs : WF_vars(HandlerEnds(k)) /\ WF_vars(FirstReply(k)) /\ WF_vars(ReplyEnds(k))

FairSpec == Spec /\ Fairness

-----------------------------------------------------------------------------
(* Properties *)

\* close() waits for no client: while closing, no reply is left that only
\* acknowledgements or the slicer's 12 s timer would end, whether its handler
\* returned before close() or after, and whether its invoker was in the map.
WaitsForNoClient == life \in {"closing", "closed"} => \A k \in Jobs : job[k].state # "invoked"

\* When close() has returned, router.close() finds nothing of the handler
\* plugged, no handler is running and no reply loop will send again.
QuietWhenClosed ==
    life = "closed" =>
      /\ ~plugged /\ acks = {}
      /\ \A k \in Jobs : job[k].state \in {"none", "done"} /\ loops[k] = 0

\* close() returns, unless a handler has thrown what cannot be encoded: its
\* reference is never given back.
CloseReturns == life = "closing" ~> (life = "closed" \/ stuck # {})
=============================================================================
