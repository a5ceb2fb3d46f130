-------------------------- MODULE BaseRequestProof --------------------------
(***************************************************************************)
(* Proofs about BaseRequest, for any number of requests, invokes and       *)
(* queries, on any assignment of routers: the safety invariants the runs   *)
(* check.  RequestInv below relates the life cycle of a request to its     *)
(* caller, its pending_defer and its resend loop; with it the properties   *)
(* are inductive.                                                          *)
(***************************************************************************)
EXTENDS BaseRequest, FiniteSetTheorems, TLAPS

RequestInv(r) ==
    /\ life[r] = "none" <=> caller[r] \in {"none", "refused", "unmade"}
    /\ life[r] = "starting" <=> caller[r] = "whenReady"
    /\ life[r] = "ready" <=> caller[r] = "resuming"
    /\ life[r] = "starting" => r \in Invokes
    /\ life[r] \in {"none", "starting", "ready"} =>
         pending[r] = "none" /\ ~hasResult[r] /\ resender[r] = "off" /\ ~loop[r]
    /\ life[r] = "closing" =>
         /\ caller[r] \in {"awaiting", "whenClosed", "returned", "threw"}
         /\ pending[r] # "none"
         /\ IF caller[r] = "awaiting"
            THEN loop[r] /\ resender[r] \in {"sending", "sleeping"}
            ELSE ~loop[r] /\ resender[r] # "off" /\ pending[r] # "pending"
         /\ caller[r] = "returned" => pending[r] = "result"
         /\ caller[r] = "threw" => pending[r] # "result"
         /\ r \in Invokes => caller[r] \in {"awaiting", "whenClosed"}
         /\ r \notin Invokes => caller[r] # "whenClosed"
    /\ life[r] = "closed" =>
         pending[r] = "result" /\ caller[r] = "returned" /\ resender[r] = "done" /\ ~loop[r]
    /\ life[r] = "dead" =>
         caller[r] = "threw" /\ resender[r] \in {"off", "done"} /\ ~loop[r]
    /\ pending[r] = "result" => hasResult[r]

DrainedInv == drained => waiting /\ refs = 0

\* The invokes a reference is held for.
Held == Living \cup Unmade

IInv ==
    /\ TypeOK
    /\ \A r \in Req : RequestInv(r)
    /\ PlugsWhileRunning
    /\ RefsCountLiving
    /\ DrainedInv

-----------------------------------------------------------------------------
(* refs *)

LEMMA HeldFinite == IsFiniteSet(Held)
<1>1. Held \subseteq Req
  BY InvokesAssumption DEF Held, Living, Unmade
<1> QED
  BY <1>1, FiniteAssumption, FS_Subset

\* The "closed" event of a living request takes it out of the count.
LEMMA ClosedEventRefs ==
    ASSUME IInv, NEW r \in Req, Alive(r), ClosedEvent(r),
           NEW end \in {"closed", "dead"}, life' = [life EXCEPT ![r] = end], Unmade' = Unmade
    PROVE  /\ RefsCountLiving' /\ DrainedInv'
           /\ refs' \in Nat /\ waiting' \in BOOLEAN /\ drained' \in BOOLEAN
           /\ timer' = [timer EXCEPT ![r] = "cleared"]
<1>1. /\ life \in [Req -> {"none", "starting", "ready", "closing", "closed", "dead"}]
      /\ refs = Cardinality(Held) /\ refs \in Nat /\ waiting \in BOOLEAN /\ drained \in BOOLEAN
  BY DEF IInv, TypeOK, RefsCountLiving, Held
<1>2. CASE r \in Invokes
  <2>0. r \notin Unmade
    BY DEF IInv, RequestInv, Unmade, Alive
  <2>1. r \in Held /\ Held' = Held \ {r}
    BY <1>1, <1>2, <2>0, InvokesAssumption DEF Held, Living, Alive
  <2>2. /\ Cardinality(Held \ {r}) = Cardinality(Held) - 1
        /\ Cardinality(Held \ {r}) \in Nat
    BY <2>1, HeldFinite, FS_RemoveElement, FS_CardinalityType
  <2>3. refs' = Cardinality(Held')
    BY <1>1, <1>2, <2>1, <2>2 DEF ClosedEvent
  <2>4. RefsCountLiving'
    BY <2>3 DEF RefsCountLiving, Held
  <2> QED
    BY <1>1, <1>2, <2>1, <2>2, <2>3, <2>4 DEF ClosedEvent, DrainedInv, IInv
<1>3. CASE r \notin Invokes
  <2>1. Held' = Held
    BY <1>1, <1>3, InvokesAssumption DEF Held, Living, Alive
  <2> QED
    BY <1>1, <1>3, <2>1 DEF ClosedEvent, RefsCountLiving, Held, DrainedInv, IInv, asyncVars
<1> QED
  BY <1>2, <1>3

\* A step that leaves the invokes counted and the counters alone.
LEMMA RefsUntouched ==
    ASSUME IInv, Held' = Held, UNCHANGED asyncVars
    PROVE  RefsCountLiving' /\ DrainedInv'
  BY DEF IInv, RefsCountLiving, Held, DrainedInv, asyncVars

-----------------------------------------------------------------------------
LEMMA InitIInv == Init => IInv
<1> SUFFICES ASSUME Init PROVE IInv
  OBVIOUS
<1>1. TypeOK
  BY DEF Init, TypeOK
<1>2. \A r \in Req : RequestInv(r)
  BY DEF Init, RequestInv
<1>3. PlugsWhileRunning /\ DrainedInv
  BY DEF Init, PlugsWhileRunning, DrainedInv
<1>4. Held = {}
  BY InvokesAssumption DEF Init, Held, Unmade, Living, Alive
<1>5. RefsCountLiving
  BY <1>4, FS_EmptySet DEF Init, RefsCountLiving, Held
<1> QED
  BY <1>1, <1>2, <1>3, <1>5 DEF IInv

LEMMA NextIInv == IInv /\ [Next]_vars => IInv'
<1> SUFFICES ASSUME IInv, [Next]_vars PROVE IInv'
  OBVIOUS
<1> USE InvokesAssumption
<1>0. TypeOK /\ (\A r \in Req : RequestInv(r)) /\ PlugsWhileRunning /\ RefsCountLiving /\ DrainedInv
  BY DEF IInv
<1>1. ASSUME NEW r \in Req, MakeInvoke(r)  PROVE IInv'
  <2>1. TypeOK'
    BY <1>0, <1>1 DEF TypeOK, MakeInvoke, reqVars, sendVars, plugVars, asyncVars, Makes
  <2>2. \A x \in Req : RequestInv(x)'
    BY <1>0, <1>1 DEF TypeOK, RequestInv, MakeInvoke, reqVars, sendVars, plugVars, asyncVars, Makes
  <2>3. PlugsWhileRunning'
    BY <1>0, <1>1 DEF TypeOK, PlugsWhileRunning, RequestInv, MakeInvoke, reqVars, sendVars, plugVars, asyncVars, Makes
  <2>4. RefsCountLiving' /\ DrainedInv'
    <3>1. r \notin Held /\ Held' = Held \cup {r}
      BY <1>0, <1>1 DEF TypeOK, Held, Unmade, Living, Alive, RequestInv, MakeInvoke, reqVars, sendVars, plugVars, asyncVars, Makes
    <3>2. Cardinality(Held \cup {r}) = Cardinality(Held) + 1
      BY <3>1, HeldFinite, FS_AddElement
    <3> QED
      BY <1>0, <1>1, <3>1, <3>2 DEF MakeInvoke, Makes, RefsCountLiving, Held, DrainedInv
  <2> QED
    BY <2>1, <2>2, <2>3, <2>4 DEF IInv
<1>2. ASSUME NEW r \in Req, MakeQuery(r)  PROVE IInv'
  <2>1. TypeOK'
    BY <1>0, <1>2 DEF TypeOK, MakeQuery, reqVars, sendVars, plugVars, asyncVars
  <2>2. \A x \in Req : RequestInv(x)'
    BY <1>0, <1>2 DEF TypeOK, RequestInv, MakeQuery, reqVars, sendVars, plugVars, asyncVars
  <2>3. PlugsWhileRunning'
    BY <1>0, <1>2 DEF TypeOK, PlugsWhileRunning, RequestInv, MakeQuery, reqVars, sendVars, plugVars, asyncVars
  <2>4. RefsCountLiving' /\ DrainedInv'
    <3>1. Held' = Held
      BY <1>0, <1>2 DEF TypeOK, Held, Unmade, Living, Alive, RequestInv, MakeQuery, reqVars, sendVars, plugVars, asyncVars
    <3> QED
      BY <1>2, <3>1, RefsUntouched DEF MakeQuery, reqVars, sendVars, plugVars, asyncVars
  <2> QED
    BY <2>1, <2>2, <2>3, <2>4 DEF IInv
<1>3. ASSUME NEW r \in Req, Refuse(r)  PROVE IInv'
  <2>1. TypeOK'
    BY <1>0, <1>3 DEF TypeOK, Refuse, reqVars, sendVars, plugVars, asyncVars, Refuses
  <2>2. \A x \in Req : RequestInv(x)'
    BY <1>0, <1>3 DEF TypeOK, RequestInv, Refuse, reqVars, sendVars, plugVars, asyncVars, Refuses
  <2>3. PlugsWhileRunning'
    BY <1>0, <1>3 DEF TypeOK, PlugsWhileRunning, RequestInv, Refuse, reqVars, sendVars, plugVars, asyncVars, Refuses
  <2>4. RefsCountLiving' /\ DrainedInv'
    <3>1. Held' = Held
      BY <1>0, <1>3 DEF TypeOK, Held, Unmade, Living, Alive, RequestInv, Refuse, reqVars, sendVars, plugVars, asyncVars, Refuses
    <3> QED
      BY <1>3, <3>1, RefsUntouched DEF Refuse, Refuses, reqVars, sendVars, plugVars, asyncVars
  <2> QED
    BY <2>1, <2>2, <2>3, <2>4 DEF IInv
<1>4. ASSUME NEW r \in Req, PreloadDone(r)  PROVE IInv'
  <2>1. TypeOK'
    BY <1>0, <1>4 DEF TypeOK, PreloadDone, reqVars, sendVars, plugVars, asyncVars
  <2>2. \A x \in Req : RequestInv(x)'
    BY <1>0, <1>4 DEF TypeOK, RequestInv, PreloadDone, reqVars, sendVars, plugVars, asyncVars
  <2>3. PlugsWhileRunning'
    BY <1>0, <1>4 DEF TypeOK, PlugsWhileRunning, RequestInv, PreloadDone, reqVars, sendVars, plugVars, asyncVars
  <2>4. RefsCountLiving' /\ DrainedInv'
    <3>1. Held' = Held
      BY <1>0, <1>4 DEF TypeOK, Held, Unmade, Living, Alive, RequestInv, PreloadDone, reqVars, sendVars, plugVars, asyncVars
    <3> QED
      BY <1>4, <3>1, RefsUntouched DEF PreloadDone, reqVars, sendVars, plugVars, asyncVars
  <2> QED
    BY <2>1, <2>2, <2>3, <2>4 DEF IInv
<1>5. ASSUME NEW r \in Req, PreloadFails(r)  PROVE IInv'
  <2>1. CASE life[r] = "starting"
    <3>1. Alive(r) /\ ClosedEvent(r) /\ life' = [life EXCEPT ![r] = "dead"] /\ Unmade' = Unmade
      BY <1>0, <1>5, <2>1 DEF TypeOK, PreloadFails, SetDead, Alive, Unmade, RequestInv
    <3>2. /\ RefsCountLiving' /\ DrainedInv'
          /\ refs' \in Nat /\ waiting' \in BOOLEAN /\ drained' \in BOOLEAN
          /\ timer' = [timer EXCEPT ![r] = "cleared"]
      BY <3>1, ClosedEventRefs
    <3>3. TypeOK'
      BY <1>0, <1>5, <2>1, <3>1, <3>2 DEF TypeOK, PreloadFails, sendVars, plugVars
    <3>4. \A x \in Req : RequestInv(x)'
      BY <1>0, <1>5, <2>1, <3>1 DEF TypeOK, RequestInv, PreloadFails, sendVars, plugVars
    <3>5. PlugsWhileRunning'
      BY <1>0, <1>5, <2>1, <3>1 DEF TypeOK, PlugsWhileRunning, PreloadFails, plugVars
    <3> QED
      BY <3>2, <3>3, <3>4, <3>5 DEF IInv
  <2>2. CASE ~(life[r] = "starting")
    <3>1. TypeOK'
      BY <1>0, <1>5, <2>2 DEF TypeOK, PreloadFails, TimesOut, Settle, Failures, sendVars, plugVars, asyncVars
    <3>2. \A x \in Req : RequestInv(x)'
      BY <1>0, <1>5, <2>2 DEF TypeOK, RequestInv, PreloadFails, TimesOut, Settle, sendVars, plugVars, asyncVars
    <3>3. life' = life /\ caller' = caller /\ plugged' = plugged /\ errPlugged' = errPlugged /\ UNCHANGED asyncVars
      BY <1>5, <2>2 DEF PreloadFails, TimesOut, plugVars
    <3>4. Held' = Held /\ PlugsWhileRunning'
      BY <1>0, <3>3 DEF Held, Unmade, Living, Alive, PlugsWhileRunning
    <3>5. RefsCountLiving' /\ DrainedInv'
      BY <3>3, <3>4, RefsUntouched
    <3> QED
      BY <3>1, <3>2, <3>4, <3>5 DEF IInv
  <2> QED
    BY <2>1, <2>2
<1>6. ASSUME NEW r \in Req, TimerFires(r)  PROVE IInv'
  <2>1. CASE life[r] \in {"starting", "ready"}
    <3>1. Alive(r) /\ ClosedEvent(r) /\ life' = [life EXCEPT ![r] = "dead"] /\ Unmade' = Unmade
      BY <1>0, <1>6, <2>1 DEF TypeOK, TimerFires, SetDead, Alive, Unmade, RequestInv
    <3>2. /\ RefsCountLiving' /\ DrainedInv'
          /\ refs' \in Nat /\ waiting' \in BOOLEAN /\ drained' \in BOOLEAN
          /\ timer' = [timer EXCEPT ![r] = "cleared"]
      BY <3>1, ClosedEventRefs
    <3>3. TypeOK'
      BY <1>0, <1>6, <2>1, <3>1, <3>2 DEF TypeOK, TimerFires, sendVars, plugVars
    <3>4. \A x \in Req : RequestInv(x)'
      BY <1>0, <1>6, <2>1, <3>1 DEF TypeOK, RequestInv, TimerFires, sendVars, plugVars
    <3>5. PlugsWhileRunning'
      BY <1>0, <1>6, <2>1, <3>1 DEF TypeOK, PlugsWhileRunning, TimerFires, plugVars
    <3> QED
      BY <3>2, <3>3, <3>4, <3>5 DEF IInv
  <2>2. CASE ~(life[r] \in {"starting", "ready"})
    <3>1. TypeOK'
      BY <1>0, <1>6, <2>2 DEF TypeOK, TimerFires, TimesOut, Settle, Failures, sendVars, plugVars, asyncVars
    <3>2. \A x \in Req : RequestInv(x)'
      BY <1>0, <1>6, <2>2 DEF TypeOK, RequestInv, TimerFires, TimesOut, Settle, sendVars, plugVars, asyncVars
    <3>3. life' = life /\ caller' = caller /\ plugged' = plugged /\ errPlugged' = errPlugged /\ UNCHANGED asyncVars
      BY <1>6, <2>2 DEF TimerFires, TimesOut, plugVars
    <3>4. Held' = Held /\ PlugsWhileRunning'
      BY <1>0, <3>3 DEF Held, Unmade, Living, Alive, PlugsWhileRunning
    <3>5. RefsCountLiving' /\ DrainedInv'
      BY <3>3, <3>4, RefsUntouched
    <3> QED
      BY <3>1, <3>2, <3>4, <3>5 DEF IInv
  <2> QED
    BY <2>1, <2>2
<1>7. ASSUME NEW r \in Req, Run(r)  PROVE IInv'
  <2>1. TypeOK'
    BY <1>0, <1>7 DEF TypeOK, Run, reqVars, sendVars, plugVars, asyncVars
  <2>2. \A x \in Req : RequestInv(x)'
    BY <1>0, <1>7 DEF TypeOK, RequestInv, Run, reqVars, sendVars, plugVars, asyncVars
  <2>3. PlugsWhileRunning'
    BY <1>0, <1>7 DEF TypeOK, PlugsWhileRunning, RequestInv, Run, reqVars, sendVars, plugVars, asyncVars
  <2>4. RefsCountLiving' /\ DrainedInv'
    <3>1. Held' = Held
      BY <1>0, <1>7 DEF TypeOK, Held, Unmade, Living, Alive, RequestInv, Run, reqVars, sendVars, plugVars, asyncVars
    <3> QED
      BY <1>7, <3>1, RefsUntouched DEF Run, reqVars, sendVars, plugVars, asyncVars
  <2> QED
    BY <2>1, <2>2, <2>3, <2>4 DEF IInv
<1>8. ASSUME NEW r \in Req, SendDone(r)  PROVE IInv'
  <2>1. TypeOK'
    BY <1>0, <1>8 DEF TypeOK, SendDone, reqVars, sendVars, plugVars, asyncVars
  <2>2. \A x \in Req : RequestInv(x)'
    BY <1>0, <1>8 DEF TypeOK, RequestInv, SendDone, reqVars, sendVars, plugVars, asyncVars
  <2>3. PlugsWhileRunning'
    BY <1>0, <1>8 DEF TypeOK, PlugsWhileRunning, RequestInv, SendDone, reqVars, sendVars, plugVars, asyncVars
  <2>4. RefsCountLiving' /\ DrainedInv'
    <3>1. Held' = Held
      BY <1>0, <1>8 DEF TypeOK, Held, Unmade, Living, Alive, RequestInv, SendDone, reqVars, sendVars, plugVars, asyncVars
    <3> QED
      BY <1>8, <3>1, RefsUntouched DEF SendDone, reqVars, sendVars, plugVars, asyncVars
  <2> QED
    BY <2>1, <2>2, <2>3, <2>4 DEF IInv
<1>9. ASSUME NEW r \in Req, SendFails(r)  PROVE IInv'
  <2>1. TypeOK'
    BY <1>0, <1>9 DEF TypeOK, SendFails, reqVars, sendVars, plugVars, asyncVars, Settle, Failures
  <2>2. \A x \in Req : RequestInv(x)'
    BY <1>0, <1>9 DEF TypeOK, RequestInv, SendFails, reqVars, sendVars, plugVars, asyncVars, Settle, Failures
  <2>3. PlugsWhileRunning'
    BY <1>0, <1>9 DEF TypeOK, PlugsWhileRunning, RequestInv, SendFails, reqVars, sendVars, plugVars, asyncVars, Settle, Failures
  <2>4. RefsCountLiving' /\ DrainedInv'
    <3>1. Held' = Held
      BY <1>0, <1>9 DEF TypeOK, Held, Unmade, Living, Alive, RequestInv, SendFails, reqVars, sendVars, plugVars, asyncVars, Settle, Failures
    <3> QED
      BY <1>9, <3>1, RefsUntouched DEF SendFails, Settle, Failures, reqVars, sendVars, plugVars, asyncVars
  <2> QED
    BY <2>1, <2>2, <2>3, <2>4 DEF IInv
<1>10. ASSUME NEW r \in Req, Resend(r)  PROVE IInv'
  <2>1. TypeOK'
    BY <1>0, <1>10 DEF TypeOK, Resend, reqVars, sendVars, plugVars, asyncVars
  <2>2. \A x \in Req : RequestInv(x)'
    BY <1>0, <1>10 DEF TypeOK, RequestInv, Resend, reqVars, sendVars, plugVars, asyncVars
  <2>3. PlugsWhileRunning'
    BY <1>0, <1>10 DEF TypeOK, PlugsWhileRunning, RequestInv, Resend, reqVars, sendVars, plugVars, asyncVars
  <2>4. RefsCountLiving' /\ DrainedInv'
    <3>1. Held' = Held
      BY <1>0, <1>10 DEF TypeOK, Held, Unmade, Living, Alive, RequestInv, Resend, reqVars, sendVars, plugVars, asyncVars
    <3> QED
      BY <1>10, <3>1, RefsUntouched DEF Resend, reqVars, sendVars, plugVars, asyncVars
  <2> QED
    BY <2>1, <2>2, <2>3, <2>4 DEF IInv
<1>11. ASSUME NEW r \in Req, LoopEnds(r)  PROVE IInv'
  <2>1. TypeOK'
    BY <1>0, <1>11 DEF TypeOK, LoopEnds, reqVars, sendVars, plugVars, asyncVars
  <2>2. \A x \in Req : RequestInv(x)'
    BY <1>0, <1>11 DEF TypeOK, RequestInv, LoopEnds, reqVars, sendVars, plugVars, asyncVars
  <2>3. PlugsWhileRunning'
    BY <1>0, <1>11 DEF TypeOK, PlugsWhileRunning, RequestInv, LoopEnds, reqVars, sendVars, plugVars, asyncVars
  <2>4. RefsCountLiving' /\ DrainedInv'
    <3>1. Held' = Held
      BY <1>0, <1>11 DEF TypeOK, Held, Unmade, Living, Alive, RequestInv, LoopEnds, reqVars, sendVars, plugVars, asyncVars
    <3> QED
      BY <1>11, <3>1, RefsUntouched DEF LoopEnds, reqVars, sendVars, plugVars, asyncVars
  <2> QED
    BY <2>1, <2>2, <2>3, <2>4 DEF IInv
<1>12. ASSUME NEW r \in Req, ReplyArrives(r)  PROVE IInv'
  <2>1. TypeOK'
    BY <1>0, <1>12 DEF TypeOK, ReplyArrives, reqVars, sendVars, plugVars, asyncVars, Settle, Failures
  <2>2. \A x \in Req : RequestInv(x)'
    BY <1>0, <1>12 DEF TypeOK, RequestInv, ReplyArrives, reqVars, sendVars, plugVars, asyncVars, Settle, Failures
  <2>3. PlugsWhileRunning'
    BY <1>0, <1>12 DEF TypeOK, PlugsWhileRunning, RequestInv, ReplyArrives, reqVars, sendVars, plugVars, asyncVars, Settle, Failures
  <2>4. RefsCountLiving' /\ DrainedInv'
    <3>1. Held' = Held
      BY <1>0, <1>12 DEF TypeOK, Held, Unmade, Living, Alive, RequestInv, ReplyArrives, reqVars, sendVars, plugVars, asyncVars, Settle, Failures
    <3> QED
      BY <1>12, <3>1, RefsUntouched DEF ReplyArrives, Settle, Failures, reqVars, sendVars, plugVars, asyncVars
  <2> QED
    BY <2>1, <2>2, <2>3, <2>4 DEF IInv
<1>13. ASSUME NEW r \in Req, ErrorArrives(r)  PROVE IInv'
  <2>1. TypeOK'
    BY <1>0, <1>13 DEF TypeOK, ErrorArrives, reqVars, sendVars, plugVars, asyncVars, Failures
  <2>2. \A x \in Req : RequestInv(x)'
    BY <1>0, <1>13 DEF TypeOK, RequestInv, ErrorArrives, reqVars, sendVars, plugVars, asyncVars, Failures
  <2>3. PlugsWhileRunning'
    BY <1>0, <1>13 DEF TypeOK, PlugsWhileRunning, RequestInv, ErrorArrives, reqVars, sendVars, plugVars, asyncVars, Failures
  <2>4. RefsCountLiving' /\ DrainedInv'
    <3>1. Held' = Held
      BY <1>0, <1>13 DEF TypeOK, Held, Unmade, Living, Alive, RequestInv, ErrorArrives, reqVars, sendVars, plugVars, asyncVars, Failures
    <3> QED
      BY <1>13, <3>1, RefsUntouched DEF ErrorArrives, Failures, reqVars, sendVars, plugVars, asyncVars
  <2> QED
    BY <2>1, <2>2, <2>3, <2>4 DEF IInv
<1>14. ASSUME NEW r \in Req, Continue(r)  PROVE IInv'
  <2>1. TypeOK'
    BY <1>0, <1>14 DEF TypeOK, Continue, reqVars, sendVars, plugVars, asyncVars, GoesOn, Outcome
  <2>2. \A x \in Req : RequestInv(x)'
    BY <1>0, <1>14 DEF TypeOK, RequestInv, Continue, reqVars, sendVars, plugVars, asyncVars, GoesOn, Outcome
  <2>3. PlugsWhileRunning'
    BY <1>0, <1>14 DEF TypeOK, PlugsWhileRunning, RequestInv, Continue, reqVars, sendVars, plugVars, asyncVars, GoesOn, Outcome
  <2>4. RefsCountLiving' /\ DrainedInv'
    <3>1. Held' = Held
      BY <1>0, <1>14 DEF TypeOK, Held, Unmade, Living, Alive, RequestInv, Continue, reqVars, sendVars, plugVars, asyncVars, GoesOn, Outcome
    <3> QED
      BY <1>14, <3>1, RefsUntouched DEF Continue, GoesOn, Outcome, reqVars, sendVars, plugVars, asyncVars
  <2> QED
    BY <2>1, <2>2, <2>3, <2>4 DEF IInv
<1>15. ASSUME NEW r \in Req, AfterWaiting(r)  PROVE IInv'
  <2> DEFINE end == IF pending[r] = "result" THEN "closed" ELSE "dead"
  <2>0. Unmade' = Unmade
    BY <1>0, <1>15 DEF TypeOK, AfterWaiting, Ends, Outcome, Unmade, RequestInv
  <2>1. Alive(r) /\ ClosedEvent(r) /\ life' = [life EXCEPT ![r] = end] /\ end \in {"closed", "dead"}
    BY <1>15 DEF AfterWaiting, Ends, Alive
  <2>2. /\ RefsCountLiving' /\ DrainedInv'
        /\ refs' \in Nat /\ waiting' \in BOOLEAN /\ drained' \in BOOLEAN
        /\ timer' = [timer EXCEPT ![r] = "cleared"]
    BY <2>0, <2>1, ClosedEventRefs
  <2>3. TypeOK'
    BY <1>0, <1>15, <2>1, <2>2 DEF TypeOK, AfterWaiting, Ends, Outcome, sendVars
  <2>4. \A x \in Req : RequestInv(x)'
    BY <1>0, <1>15 DEF TypeOK, RequestInv, AfterWaiting, Ends, Outcome, sendVars
  <2>5. PlugsWhileRunning'
    BY <1>0, <1>15 DEF TypeOK, PlugsWhileRunning, AfterWaiting, Ends
  <2> QED
    BY <2>2, <2>3, <2>4, <2>5 DEF IInv
<1>16. CASE WaitAllDone
  <2>1. TypeOK'
    BY <1>0, <1>16 DEF TypeOK, WaitAllDone, Waits, reqVars, sendVars, plugVars
  <2>2. (\A x \in Req : RequestInv(x)') /\ PlugsWhileRunning'
    BY <1>0, <1>16 DEF RequestInv, PlugsWhileRunning, WaitAllDone, Waits, reqVars, sendVars, plugVars
  <2>3. Held' = Held
    BY <1>16 DEF Held, Unmade, Living, Alive, WaitAllDone, Waits, reqVars
  <2> QED
    BY <1>0, <1>16, <2>1, <2>2, <2>3 DEF IInv, RefsCountLiving, Held, DrainedInv, WaitAllDone, Waits
<1>18. ASSUME NEW r \in Req, MakeThrows(r)  PROVE IInv'
  <2>1. TypeOK'
    BY <1>0, <1>18 DEF TypeOK, MakeThrows, reqVars, sendVars, plugVars, asyncVars
  <2>2. \A x \in Req : RequestInv(x)'
    BY <1>0, <1>18 DEF TypeOK, RequestInv, MakeThrows, reqVars, sendVars, plugVars, asyncVars
  <2>3. PlugsWhileRunning'
    BY <1>0, <1>18 DEF TypeOK, PlugsWhileRunning, RequestInv, MakeThrows, reqVars, sendVars, plugVars, asyncVars
  <2>4. RefsCountLiving' /\ DrainedInv'
    <3>1. r \notin Held /\ Held' = Held \cup {r}
      BY <1>0, <1>18 DEF TypeOK, Held, Unmade, Living, Alive, RequestInv, MakeThrows, reqVars, sendVars, plugVars, asyncVars
    <3>2. Cardinality(Held \cup {r}) = Cardinality(Held) + 1
      BY <3>1, HeldFinite, FS_AddElement
    <3> QED
      BY <1>0, <1>18, <3>1, <3>2 DEF MakeThrows, RefsCountLiving, Held, DrainedInv
  <2> QED
    BY <2>1, <2>2, <2>3, <2>4 DEF IInv
<1>17. CASE UNCHANGED vars
  <2>1. UNCHANGED <<reqVars, sendVars, plugVars, asyncVars>>
    BY <1>17 DEF vars
  <2>2. TypeOK' /\ (\A x \in Req : RequestInv(x)') /\ PlugsWhileRunning' /\ Held' = Held
    BY <1>0, <2>1 DEF TypeOK, RequestInv, PlugsWhileRunning, Held, Unmade, Living, Alive, reqVars, sendVars, plugVars, asyncVars
  <2>3. RefsCountLiving' /\ DrainedInv'
    BY <2>1, <2>2, RefsUntouched
  <2> QED
    BY <2>2, <2>3 DEF IInv
<1> QED
  BY <1>1, <1>2, <1>3, <1>4, <1>5, <1>6, <1>7, <1>8, <1>9, <1>10, <1>11, <1>12, <1>13,
     <1>14, <1>15, <1>16, <1>17, <1>18 DEF Next, Step

-----------------------------------------------------------------------------
LEMMA IInvAlways == Spec => []IInv
  BY InitIInv, NextIInv, PTL DEF Spec

\* No made invoke's reference is lost or released twice, however it ends, and the
\* only references kept are those of invokes whose constructor threw (SimpleInvoker
\* setRef(+1) in sendRequest, setRef(-1) on "closed").
THEOREM RefsCountLivingAlways == Spec => []RefsCountLiving
<1>1. IInv => RefsCountLiving
  BY DEF IInv
<1> QED
  BY <1>1, IInvAlways, PTL

\* run() and after_waiting() keep plugs and life cycle together: a finished request
\* holds no plug, so router.close() does not assert.
THEOREM PlugsWhileRunningAlways == Spec => []PlugsWhileRunning
<1>1. IInv => PlugsWhileRunning
  BY DEF IInv
<1> QED
  BY <1>1, IInvAlways, PTL

\* start_waiting() has ended before the "closed" event closes the slicer.
THEOREM NoSendAfterClosedAlways == Spec => []NoSendAfterClosed
<1>1. IInv => NoSendAfterClosed
  BY DEF IInv, TypeOK, RequestInv, NoSendAfterClosed, Finished
<1> QED
  BY <1>1, IInvAlways, PTL

\* What the caller is told and how the life cycle ended agree (run, after_waiting,
\* sendRequest, doResolveRequest).
THEOREM OutcomeAgreesAlways == Spec => []OutcomeAgrees
<1>1. IInv => OutcomeAgrees
  BY DEF IInv, TypeOK, RequestInv, OutcomeAgrees, Finished
<1> QED
  BY <1>1, IInvAlways, PTL

\* When AsyncManager.waitAllDone() resolves, every invoke has ended, and none was
\* lost in its constructor.
THEOREM DrainedIsQuietAlways == Spec => []DrainedIsQuiet
<1>1. IInv => DrainedIsQuiet
  <2> SUFFICES ASSUME IInv, drained  PROVE DrainedIsQuiet
    BY DEF DrainedIsQuiet
  <2>1. Cardinality(Held) = 0 /\ waiting
    BY DEF IInv, DrainedInv, RefsCountLiving, Held
  <2>2. Held = {}
    BY <2>1, HeldFinite, FS_EmptySet
  <2>3. \A r \in Invokes : r \in Req /\ ~Alive(r)
    BY <2>2, InvokesAssumption DEF Held, Living
  <2>4. Unmade = {}
    BY <2>2 DEF Held
  <2> QED
    BY <2>1, <2>3, <2>4 DEF IInv, TypeOK, RequestInv, PlugsWhileRunning, DrainedIsQuiet, Alive
<1> QED
  BY <1>1, IInvAlways, PTL

\* Every variable keeps its type.
THEOREM TypeCorrect == Spec => []TypeOK
<1>1. IInv => TypeOK
  BY DEF IInv
<1> QED
  BY <1>1, IInvAlways, PTL

-----------------------------------------------------------------------------
(* What a request and close() wait for *)

\* A request has its timer until it runs, and then until it is settled; and
\* close() is told when the count has come to zero.
Armed ==
    /\ \A r \in Req : life[r] \in {"starting", "ready"} \/ pending[r] = "pending" => timer[r] = "armed"
    /\ waiting /\ refs = 0 => drained

\* Some step of r is possible that needs no reply, preload or call.
Moves(r) ==
    \/ timer[r] = "armed" /\ caller[r] # "resuming"
    \/ life[r] = "ready" /\ caller[r] = "resuming"
    \/ caller[r] = "awaiting" /\ pending[r] # "pending"
    \/ resender[r] = "sending"
    \/ resender[r] = "sleeping" /\ ~loop[r]
    \/ resender[r] = "done" /\ life[r] = "closing" /\ caller[r] # "awaiting"

\* Every request that lives can go on by itself, and close() waits for such a
\* request only, unless a constructor threw and kept its reference: then, and
\* only then, it waits for nobody.
NobodyHangs ==
    /\ \A r \in Req : Alive(r) => Moves(r)
    /\ waiting /\ ~drained => Unmade # {} \/ \E r \in Invokes : Alive(r)
    /\ Unmade # {} => ~drained

\* A request that ends is settled, or has never run.
LEMMA ClosedIsSettled ==
    ASSUME IInv, Armed, NEW r \in Req, Alive(r), ClosedEvent(r), pending' = pending,
           Unmade' = Unmade,
           pending[r] # "pending", NEW end \in {"closed", "dead"}, life' = [life EXCEPT ![r] = end]
    PROVE  Armed'
<1> USE DEF IInv, TypeOK
<1>1. timer' = [timer EXCEPT ![r] = "cleared"] /\ refs' \in Nat
  BY ClosedEventRefs
<1>2. \A x \in Req : life'[x] \in {"starting", "ready"} \/ pending'[x] = "pending" => timer'[x] = "armed"
  BY <1>1 DEF Armed
<1>3. waiting' /\ refs' = 0 => drained'
  <2>1. CASE r \in Invokes
    <3>1. refs' = 0 => refs = 1
      BY <2>1 DEF ClosedEvent
    <3>2. drained' = (drained \/ (waiting /\ refs = 1)) /\ waiting' = waiting
      BY <2>1 DEF ClosedEvent
    <3> QED
      BY <3>1, <3>2, Zenon
  <2>2. CASE r \notin Invokes
    BY <2>2 DEF ClosedEvent, asyncVars, Armed
  <2> QED
    BY <2>1, <2>2
<1> QED
  BY <1>2, <1>3 DEF Armed

LEMMA ArmedKept == ASSUME IInv, Armed, [Next]_vars PROVE Armed'
<1> USE InvokesAssumption DEF IInv, TypeOK
<1>1. ASSUME NEW r \in Req, MakeInvoke(r) PROVE Armed'
  BY <1>1 DEF Armed, MakeInvoke, Makes
<1>2. ASSUME NEW r \in Req, MakeQuery(r) PROVE Armed'
  BY <1>2 DEF Armed, MakeQuery, asyncVars
<1>3. ASSUME NEW r \in Req, SetDead(r), life[r] \in {"starting", "ready"}, UNCHANGED pending,
             Unmade' = Unmade
      PROVE  Armed'
  BY <1>3, ClosedIsSettled DEF SetDead, RequestInv, Alive
<1>4. ASSUME UNCHANGED <<life, timer, waiting, drained, refs>>,
             \A x \in Req : pending'[x] = "pending" => pending[x] = "pending"
      PROVE  Armed'
  BY <1>4 DEF Armed
<1>5. ASSUME NEW r \in Req, PreloadDone(r) PROVE Armed'
  BY <1>5 DEF Armed, PreloadDone, asyncVars
<1>6. ASSUME NEW r \in Req, PreloadFails(r) PROVE Armed'
  <2>1. CASE life[r] = "starting"
    <3>1. Unmade' = Unmade
      BY <1>6, <2>1 DEF PreloadFails, Unmade, RequestInv
    <3> QED
      BY <1>3, <1>6, <2>1, <3>1 DEF PreloadFails
  <2>2. CASE life[r] # "starting"
    BY <1>4, <1>6, <2>2 DEF PreloadFails, asyncVars
  <2> QED
    BY <2>1, <2>2
<1>7. ASSUME NEW r \in Req, TimerFires(r) PROVE Armed'
  <2>1. CASE life[r] \in {"starting", "ready"}
    <3>1. Unmade' = Unmade
      BY <1>7, <2>1 DEF TimerFires, Unmade, RequestInv
    <3> QED
      BY <1>3, <1>7, <2>1, <3>1 DEF TimerFires
  <2>2. CASE life[r] \notin {"starting", "ready"}
    BY <1>7, <2>2 DEF TimerFires, TimesOut, Settle, Armed, asyncVars
  <2> QED
    BY <2>1, <2>2
<1>8. ASSUME NEW r \in Req, Run(r) PROVE Armed'
  BY <1>8 DEF Armed, Run, asyncVars
<1>9. ASSUME NEW r \in Req, \/ Refuse(r) \/ SendDone(r) \/ SendFails(r) \/ Resend(r) \/ LoopEnds(r)
                           \/ ReplyArrives(r) \/ ErrorArrives(r) \/ Continue(r)
      PROVE  Armed'
  <2>1. UNCHANGED <<life, timer, waiting, drained, refs>>
    BY <1>9 DEF Refuse, Refuses, SendDone, SendFails, Resend, LoopEnds, ReplyArrives, ErrorArrives,
                Continue, GoesOn, reqVars, asyncVars
  <2>2. \A x \in Req : pending'[x] = "pending" => pending[x] = "pending"
    BY <1>9 DEF Refuse, Refuses, SendDone, SendFails, Resend, LoopEnds, ReplyArrives, ErrorArrives,
                Continue, GoesOn, Settle, reqVars
  <2> QED
    BY <1>4, <2>1, <2>2
<1>10. ASSUME NEW r \in Req, AfterWaiting(r) PROVE Armed'
  <2>1. Alive(r) /\ pending[r] # "pending" /\ pending' = pending /\ ClosedEvent(r) /\ Unmade' = Unmade
    BY <1>10 DEF AfterWaiting, Ends, Outcome, Alive, RequestInv, Unmade
  <2> QED
    BY <1>10, <2>1, ClosedIsSettled DEF AfterWaiting, Ends
<1>13. ASSUME NEW r \in Req, MakeThrows(r) PROVE Armed'
  BY <1>13 DEF Armed, MakeThrows
<1>11. CASE WaitAllDone
  BY <1>11 DEF Armed, WaitAllDone, Waits, reqVars
<1>12. CASE UNCHANGED vars
  BY <1>4, <1>12 DEF vars, reqVars, asyncVars
<1> QED
  BY <1>1, <1>2, <1>5, <1>6, <1>7, <1>8, <1>9, <1>10, <1>11, <1>12, <1>13 DEF Next, Step

LEMMA LivingMoves == ASSUME IInv, Armed, NEW r \in Req, Alive(r) PROVE Moves(r)
<1> USE DEF IInv, TypeOK, RequestInv, Armed, Moves
<1>1. CASE life[r] = "starting"
  BY <1>1
<1>2. CASE life[r] = "ready"
  BY <1>2
<1>3. CASE life[r] = "closing"
  BY <1>3
<1> QED
  BY <1>1, <1>2, <1>3 DEF Alive

\* However requests, their timers, sends and errors race, one that lives always
\* has its timer running or a continuation to come, and waitAllDone() that has
\* not resolved waits for such an invoke or for one whose constructor threw
\* (BaseRequest, AsyncManager, SimpleInvoker.sendRequest).
THEOREM NobodyHangsAlways == Spec => []NobodyHangs
<1>1. Init => Armed
  BY DEF Init, Armed
<1>2. Spec => []Armed
  BY <1>1, ArmedKept, IInvAlways, PTL DEF Spec
<1>3. ASSUME IInv, Armed PROVE NobodyHangs
  <2>1. ASSUME waiting, ~drained PROVE Unmade # {} \/ \E r \in Invokes : Alive(r)
    <3>1. Cardinality(Held) # 0
      BY <1>3, <2>1 DEF IInv, RefsCountLiving, Held, Armed
    <3>2. Held # {}
      BY <3>1, FS_EmptySet
    <3> QED
      BY <3>2 DEF Held, Living
  <2>2. ASSUME drained PROVE Unmade = {}
    <3>1. Cardinality(Held) = 0
      BY <1>3, <2>2 DEF IInv, DrainedInv, RefsCountLiving, Held
    <3> QED
      BY <3>1, HeldFinite, FS_EmptySet DEF Held
  <2> QED
    BY <1>3, <2>1, <2>2, LivingMoves DEF NobodyHangs
<1> QED
  BY <1>2, <1>3, IInvAlways, PTL
=============================================================================
