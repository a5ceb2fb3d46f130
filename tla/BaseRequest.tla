---------------------------- MODULE BaseRequest ----------------------------
(***************************************************************************)
(* The life of requests: src/network/request/BaseRequest.ts with its       *)
(* subclasses InvokeRequest (preloads its route first) and                 *)
(* QueryDomainRequest (ready at once), the callers that await them         *)
(* (SimpleInvoker.sendRequest, RegistryResolver.doResolveRequest), the     *)
(* plugs they hold on a shared router, and the AsyncManager that counts    *)
(* the invokes so that close() can wait for the last one.  (A resolver     *)
(* counts its queries itself; they take no part in that count here.)       *)
(*                                                                         *)
(* One action is what runs between two awaits.  Promise continuations are  *)
(* actions of their own and interleave freely with packets and with other  *)
(* requests; the one order relied on is the event loop's: a timer callback *)
(* does not run before a continuation that is already queued.  Slices,     *)
(* payloads and addresses are Transfer's subject: here a send succeeds or  *)
(* fails, a reply or an error packet arrives any number of times.          *)
(***************************************************************************)
EXTENDS Naturals, FiniteSets

CONSTANTS Req,       \* the requests that may be made
          Invokes,   \* those that are InvokeRequests; the others are queries
          Routers,
          RouterOf   \* the router each request is made on

ASSUME InvokesAssumption == Invokes \subseteq Req
ASSUME RouterAssumption  == RouterOf \in [Req -> Routers]
ASSUME FiniteAssumption  == IsFiniteSet(Req)

VARIABLES life,      \* lifeCycle of each request; "none" before it is made
          timer,     \* the timeout timer: off, armed, fired, cleared
          preload,   \* preloadDomain of an InvokeRequest: off, running, done
          caller,    \* where the async function that made the request stands
          pending,   \* pending_defer: none, pending, or what settled it
          hasResult,
          loop,      \* resender_loop
          resender,  \* start_waiting: off, sending, sleeping, done
          asked,     \* history: a packet of the request has gone out
          plugged,   \* requests whose handlePacket is plugged on the router
          errPlugged,\* requests whose onErrorPacket is plugged on the router
          refs,      \* AsyncManager.async_ref_count
          waiting,   \* AsyncManager.waiting
          drained    \* no_async_defer is resolved

reqVars   == <<life, timer, preload, caller, pending, hasResult>>
sendVars  == <<loop, resender, asked>>
plugVars  == <<plugged, errPlugged>>
asyncVars == <<refs, waiting, drained>>
vars == <<reqVars, sendVars, plugVars, asyncVars>>

Failures == {"timeout", "remote", "send"}

TypeOK ==
    /\ life \in [Req -> {"none", "starting", "ready", "closing", "closed", "dead"}]
    /\ timer \in [Req -> {"off", "armed", "fired", "cleared"}]
    /\ preload \in [Req -> {"off", "running", "done"}]
    /\ caller \in [Req -> {"none", "whenReady", "resuming", "awaiting",
                           "whenClosed", "returned", "threw", "refused", "unmade"}]
    /\ pending \in [Req -> {"none", "pending", "result"} \cup Failures]
    /\ hasResult \in [Req -> BOOLEAN]
    /\ loop \in [Req -> BOOLEAN]
    /\ resender \in [Req -> {"off", "sending", "sleeping", "done"}]
    /\ asked \in SUBSET Req
    /\ plugged \in SUBSET Req
    /\ errPlugged \in SUBSET Req
    /\ refs \in Nat
    /\ waiting \in BOOLEAN
    /\ drained \in BOOLEAN

Init ==
    /\ life = [r \in Req |-> "none"]
    /\ timer = [r \in Req |-> "off"]
    /\ preload = [r \in Req |-> "off"]
    /\ caller = [r \in Req |-> "none"]
    /\ pending = [r \in Req |-> "none"]
    /\ hasResult = [r \in Req |-> FALSE]
    /\ loop = [r \in Req |-> FALSE]
    /\ resender = [r \in Req |-> "off"]
    /\ asked = {}
    /\ plugged = {}
    /\ errPlugged = {}
    /\ refs = 0
    /\ waiting = FALSE
    /\ drained = FALSE

-----------------------------------------------------------------------------
(* LifeCycle and AsyncManager *)

\* The "closed" event of a request: its timer is cleared and an invoke's
\* reference released, which resolves a waitAllDone() down to its last one.
ClosedEvent(r) ==
    /\ timer' = [timer EXCEPT ![r] = "cleared"]
    /\ IF r \in Invokes
       THEN /\ refs' = refs - 1
            /\ drained' = (drained \/ (waiting /\ refs = 1))
            /\ UNCHANGED waiting
       ELSE UNCHANGED asyncVars

\* setDead(err): nothing on a dead life cycle, else closed and then dead.
SetDead(r) ==
    /\ life' = [life EXCEPT ![r] = "dead"]
    /\ ClosedEvent(r)

\* resolve() or reject() of pending_defer: only the first one counts.
Settle(r, how) ==
    pending' = IF pending[r] = "pending" THEN [pending EXCEPT ![r] = how] ELSE pending

-----------------------------------------------------------------------------
Makes(r) ==
    /\ r \in Invokes
    /\ caller[r] = "none"
    /\ refs' = refs + 1
    /\ timer' = [timer EXCEPT ![r] = "armed"]
    /\ life' = [life EXCEPT ![r] = "starting"]
    /\ preload' = [preload EXCEPT ![r] = "running"]
    /\ caller' = [caller EXCEPT ![r] = "whenReady"]
    /\ UNCHANGED <<pending, hasResult, waiting, drained, sendVars, plugVars>>

\* sendRequest up to `await when("ready")`: setRef(+1) and the constructor,
\* which arms the timer and starts the preload.
MakeInvoke(r) == ~waiting /\ Makes(r)

\* The constructor behind setRef(+1) builds and encodes the packet, and throws
\* when it cannot: the reference is taken, and nothing listens for a "closed"
\* that would give it back.  (The object left behind has armed its timer; it
\* dies of it unseen, with no plug and no caller.)
MakeThrows(r) ==
    /\ r \in Invokes
    /\ caller[r] = "none"
    /\ ~waiting
    /\ refs' = refs + 1
    /\ caller' = [caller EXCEPT ![r] = "unmade"]
    /\ UNCHANGED <<life, timer, preload, pending, hasResult, waiting, drained>>
    /\ UNCHANGED <<sendVars, plugVars>>

\* doResolveRequest up to `await when("ready")`: the constructor of a query
\* sets "ready" itself, and when() returns at once.
MakeQuery(r) ==
    /\ r \notin Invokes
    /\ caller[r] = "none"
    /\ timer' = [timer EXCEPT ![r] = "armed"]
    /\ life' = [life EXCEPT ![r] = "ready"]
    /\ caller' = [caller EXCEPT ![r] = "resuming"]
    /\ UNCHANGED <<preload, pending, hasResult>>
    /\ UNCHANGED <<sendVars, plugVars, asyncVars>>

Refuses(r, count) ==
    /\ r \in Invokes
    /\ caller[r] = "none"
    /\ waiting
    /\ caller' = [caller EXCEPT ![r] = "refused"]
    /\ refs' = count
    /\ UNCHANGED <<life, timer, preload, pending, hasResult, waiting, drained>>
    /\ UNCHANGED <<sendVars, plugVars>>

\* Fault: setRef(+1) counts before it looks at `waiting`.
Refuse_CountsFirst(r) == Refuses(r, refs + 1)

\* setRef(+1) throws while close() is waiting: no request is made.
Refuse(r) == Refuses(r, refs)

\* preloadDomain, the route resolved: "ready".  After a timeout the life cycle
\* is dead, setState throws, and setDead in the catch does nothing.
PreloadDone(r) ==
    /\ preload[r] = "running"
    /\ preload' = [preload EXCEPT ![r] = "done"]
    /\ IF life[r] = "starting"
       THEN /\ life' = [life EXCEPT ![r] = "ready"]
            /\ caller' = [caller EXCEPT ![r] = "resuming"]
       ELSE UNCHANGED <<life, caller>>
    /\ UNCHANGED <<timer, pending, hasResult>>
    /\ UNCHANGED <<sendVars, plugVars, asyncVars>>

\* preloadDomain, the route not resolved: setDead(err), and the caller's
\* when("ready") rejects.
PreloadFails(r) ==
    /\ preload[r] = "running"
    /\ preload' = [preload EXCEPT ![r] = "done"]
    /\ IF life[r] = "starting"
       THEN /\ SetDead(r)
            /\ caller' = [caller EXCEPT ![r] = "threw"]
       ELSE UNCHANGED <<life, timer, caller, asyncVars>>
    /\ UNCHANGED <<pending, hasResult>>
    /\ UNCHANGED <<sendVars, plugVars>>

TimesOut(r) ==
    /\ timer' = [timer EXCEPT ![r] = "fired"]
    /\ Settle(r, "timeout")
    /\ UNCHANGED <<life, caller, asyncVars>>

\* Fault: the timer settles pending_defer in every state.
TimerFires_IgnoresState(r) ==
    /\ timer[r] = "armed"
    /\ caller[r] # "resuming"
    /\ TimesOut(r)
    /\ UNCHANGED <<preload, hasResult, sendVars, plugVars>>

\* The timer of the constructor: a request that never got to run dies of it, a
\* running one has its pending_defer rejected.
TimerFires(r) ==
    /\ timer[r] = "armed"
    /\ caller[r] # "resuming"
    /\ IF life[r] \in {"starting", "ready"}
       THEN /\ SetDead(r)
            /\ caller' = [caller EXCEPT ![r] = "threw"]
            /\ UNCHANGED pending
       ELSE TimesOut(r)
    /\ UNCHANGED <<preload, hasResult, sendVars, plugVars>>

\* run() up to its first await: plug twice, before_waiting, and start_waiting
\* into the first dosend().
Run(r) ==
    /\ caller[r] = "resuming"
    /\ life[r] = "ready"
    /\ plugged' = plugged \cup {r}
    /\ errPlugged' = errPlugged \cup {r}
    /\ pending' = [pending EXCEPT ![r] = "pending"]
    /\ life' = [life EXCEPT ![r] = "closing"]
    /\ loop' = [loop EXCEPT ![r] = TRUE]
    /\ resender' = [resender EXCEPT ![r] = "sending"]
    /\ caller' = [caller EXCEPT ![r] = "awaiting"]
    /\ UNCHANGED <<timer, preload, hasResult, asked, asyncVars>>

-----------------------------------------------------------------------------
(* The resend loop *)

SendDone(r) ==
    /\ resender[r] = "sending"
    /\ resender' = [resender EXCEPT ![r] = "sleeping"]
    /\ asked' = asked \cup {r}
    /\ UNCHANGED <<loop, reqVars, plugVars, asyncVars>>

SendFails(r) ==
    /\ resender[r] = "sending"
    /\ resender' = [resender EXCEPT ![r] = "sleeping"]
    /\ Settle(r, "send")
    /\ UNCHANGED <<life, timer, preload, caller, hasResult, loop, asked>>
    /\ UNCHANGED <<plugVars, asyncVars>>

\* The loop's sleep(1)s have added up to the 40 to 70 of the next round.
Resend(r) ==
    /\ resender[r] = "sleeping"
    /\ loop[r]
    /\ resender' = [resender EXCEPT ![r] = "sending"]
    /\ UNCHANGED <<loop, asked, reqVars, plugVars, asyncVars>>

LoopEnds(r) ==
    /\ resender[r] = "sleeping"
    /\ ~loop[r]
    /\ resender' = [resender EXCEPT ![r] = "done"]
    /\ UNCHANGED <<loop, asked, reqVars, plugVars, asyncVars>>

-----------------------------------------------------------------------------
(* Packets *)

\* A reply to r reaches handlePacket and setResult; both look at "closing".
ReplyArrives(r) ==
    /\ r \in asked /\ r \in plugged
    /\ life[r] = "closing"
    /\ ~hasResult[r]
    /\ hasResult' = [hasResult EXCEPT ![r] = TRUE]
    /\ Settle(r, "result")
    /\ UNCHANGED <<life, timer, preload, caller>>
    /\ UNCHANGED <<sendVars, plugVars, asyncVars>>

\* An ErrorPacket answering r: PacketTypeRouter hands it to every onErrorPacket
\* plugged on that router, whatever request_id it carries.
ErrorArrives(r) ==
    /\ r \in asked
    /\ LET hit == {x \in errPlugged : RouterOf[x] = RouterOf[r] /\ pending[x] = "pending"}
       IN  /\ hit # {}
           /\ pending' = [x \in Req |-> IF x \in hit THEN "remote" ELSE pending[x]]
    /\ UNCHANGED <<life, timer, preload, caller, hasResult>>
    /\ UNCHANGED <<sendVars, plugVars, asyncVars>>

-----------------------------------------------------------------------------
(* The end of a request *)

Outcome(r) == IF pending[r] = "result" THEN "returned" ELSE "threw"

GoesOn(r, to) ==
    /\ caller[r] = "awaiting"
    /\ pending[r] # "pending"
    /\ loop' = [loop EXCEPT ![r] = FALSE]
    /\ caller' = [caller EXCEPT ![r] = to]
    /\ UNCHANGED <<life, timer, preload, pending, hasResult, resender, asked>>
    /\ UNCHANGED <<plugVars, asyncVars>>

\* Fault: sendRequest does not wait for "closed".
Continue_NoWhenClosed(r) == GoesOn(r, Outcome(r))

\* run() behind `await pending_defer`: after_waiting stops the loop and waits
\* for it on its own; sendRequest goes on to `await when("closed")`, while
\* doResolveRequest returns at once.
Continue(r) == GoesOn(r, IF r \in Invokes THEN "whenClosed" ELSE Outcome(r))

Ends(r, errorPlugs) ==
    /\ life[r] = "closing"
    /\ caller[r] # "awaiting"
    /\ plugged' = plugged \ {r}
    /\ errPlugged' = errorPlugs
    /\ life' = [life EXCEPT ![r] = IF pending[r] = "result" THEN "closed" ELSE "dead"]
    /\ ClosedEvent(r)
    /\ caller' = [caller EXCEPT ![r] = IF @ = "whenClosed" THEN Outcome(r) ELSE @]
    /\ UNCHANGED <<preload, pending, hasResult, sendVars>>

\* Fault: after_waiting does not wait for the resend loop.
AfterWaiting_NoAwait(r) == Ends(r, errPlugged \ {r})

\* after_waiting behind `await resender_defer`: unplug twice, then "closed", or
\* setDead(err) when the request failed.  A caller in when("closed") wakes.
AfterWaiting(r) == resender[r] = "done" /\ Ends(r, errPlugged \ {r})

Waits(done) ==
    /\ ~waiting
    /\ waiting' = TRUE
    /\ drained' = done
    /\ UNCHANGED <<refs, reqVars, sendVars, plugVars>>

\* Fault: waitAllDone lacks its setRef(0).
WaitAllDone_MissesZero == Waits(FALSE)

\* close(): waitAllDone().
WaitAllDone == Waits(refs = 0)

-----------------------------------------------------------------------------
Step(r) ==
    \/ MakeInvoke(r) \/ MakeThrows(r) \/ MakeQuery(r) \/ Refuse(r)
    \/ PreloadDone(r) \/ PreloadFails(r)
    \/ TimerFires(r)
    \/ Run(r)
    \/ SendDone(r) \/ SendFails(r) \/ Resend(r) \/ LoopEnds(r)
    \/ ReplyArrives(r) \/ ErrorArrives(r)
    \/ Continue(r) \/ AfterWaiting(r)

Next == (\E r \in Req : Step(r)) \/ WaitAllDone

Spec == Init /\ [][Next]_vars

\* Timers fire, queued continuations run, a send ends one way or the other and
\* the sleeping loop wakes.  Nobody owes a preload, a reply or a call.
Fairness ==
    \A r \in Req :
        /\ WF_vars(TimerFires(r))
        /\ WF_vars(Run(r))
        /\ WF_vars(SendDone(r) \/ SendFails(r))
        /\ WF_vars(LoopEnds(r))
        /\ WF_vars(Continue(r))
        /\ WF_vars(AfterWaiting(r))

FairSpec == Spec /\ Fairness

-----------------------------------------------------------------------------
(* Properties *)

Alive(r)    == life[r] \in {"starting", "ready", "closing"}
Finished(r) == life[r] \in {"closed", "dead"}
Unmade      == {r \in Invokes : caller[r] = "unmade"}
Living      == {r \in Invokes : Alive(r)}

\* The reference count is the number of living invokes and of those whose
\* constructor threw, which keep theirs for good: every other one, however it
\* ends (reply, timeout in any state, failed preload, send error, another
\* request's error), emits "closed" exactly once.
RefsCountLiving == refs = Cardinality(Living \cup Unmade)

\* A request holds its two plugs exactly while it runs, so the router.close()
\* that follows a finished request finds plug_ref at 0 and does not assert.
PlugsWhileRunning ==
    \A r \in Req : /\ r \in plugged <=> life[r] = "closing"
                   /\ r \in errPlugged <=> life[r] = "closing"

\* Once a request is closed or dead its resend loop has ended: nothing calls
\* send() on the slicer that the "closed" event closed.
NoSendAfterClosed ==
    \A r \in Req : Finished(r) => resender[r] \in {"off", "done"} /\ ~loop[r]

\* What the caller sees and how the request ended agree: a caller that goes on
\* with a result has one, and a closed (not dead) request is one that has a
\* result; run() is only entered in "ready".
OutcomeAgrees ==
    \A r \in Req :
        /\ caller[r] = "returned" => hasResult[r] /\ life[r] # "dead"
        /\ caller[r] = "threw" => life[r] # "closed"
        /\ life[r] = "closed" => hasResult[r] /\ caller[r] = "returned"
        /\ caller[r] = "resuming" => life[r] = "ready"
        /\ r \in Invokes /\ caller[r] \in {"returned", "threw"} => Finished(r)

\* When waitAllDone() resolves, no invoke lives, none can be made any more, and
\* no handler or resend loop of one is left; after a constructor that threw it
\* never resolves.
DrainedIsQuiet ==
    drained => /\ waiting
               /\ Unmade = {}
               /\ \A r \in Invokes : /\ ~Alive(r)
                                     /\ r \notin plugged \cup errPlugged
                                     /\ resender[r] \in {"off", "done"}

\* Every request that is made ends, and its caller gets to know: no request
\* hangs, whether its packets, its preload or its replies come or not.
EveryRequestEnds ==
    \A r \in Req : Alive(r) ~> (Finished(r) /\ caller[r] \in {"returned", "threw"})

\* close() does not hang: waitAllDone() resolves, but for the constructor that
\* threw behind its setRef(+1).
CloseReturns == waiting ~> (drained \/ Unmade # {})
=============================================================================
