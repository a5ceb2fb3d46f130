--------------------------- MODULE ProviderProof ---------------------------
(***************************************************************************)
(* Proofs about Provider, its InvokeHandler and its WorkFlow, for any      *)
(* number of requests, invokers, reply loops, wares and positions.         *)
(***************************************************************************)
EXTENDS Provider, SequenceLemmas

\* The invokers that have not ended, and the reply loops at a send, which are
\* what the two counts of references are of.
LivingIn(j) == {k \in Jobs : j[k].state \in {"invoking", "closing", "invoked"}}
SendingIn(l) == {s \in Jobs \X (1 .. MaxLoops) : s[2] <= l[s[1]]}

Counted ==
    /\ refs.invokers = Cardinality(LivingIn(job))
    /\ refs.reply = Cardinality(SendingIn(loops))

\* An invoker that close() would have to take down is in the map for it to
\* find, and there is none when it is through.
Found ==
    \A k \in Jobs : job[k].state \in {"invoking", "invoked"} =>
      k \in invokers /\ life \in {"starting", "ready"}

Plugged ==
    /\ plugged <=> life \in {"starting", "ready"}
    /\ acks = {k \in Jobs : job[k].state = "invoked"}

HandlerInv ==
    /\ TypeOK /\ Counted /\ Found /\ Plugged
    /\ \A k \in invokers : job[k].state # "none"
    /\ life = "closed" => NoneLeft(refs)

-----------------------------------------------------------------------------
(* Sets that are counted *)

JobRecord == [state : {"none", "invoking", "invoked", "closing", "done"}, request : Requests]

LEMMA LivingFinite == \A j : IsFiniteSet(LivingIn(j))
  <1>1. IsFiniteSet(Jobs)
    BY JobsAssumption, FS_Interval DEF Jobs
  <1>. QED
    BY <1>1, FS_Subset DEF LivingIn

LEMMA SendingFinite == \A l : IsFiniteSet(SendingIn(l))
  <1>1. IsFiniteSet(Jobs) /\ IsFiniteSet(1 .. MaxLoops)
    BY JobsAssumption, FS_Interval DEF Jobs
  <1>2. IsFiniteSet(Jobs \X (1 .. MaxLoops))
    BY <1>1, FS_Product
  <1>. QED
    BY <1>2, FS_Subset DEF SendingIn

\* What a subset taken out leaves.
LEMMA Without ==
    ASSUME NEW S, IsFiniteSet(S), NEW T \in SUBSET S
    PROVE  /\ IsFiniteSet(S \ T) /\ IsFiniteSet(T)
           /\ Cardinality(S) \in Nat /\ Cardinality(T) \in Nat
           /\ Cardinality(S \ T) \in Nat
           /\ Cardinality(S \ T) = Cardinality(S) - Cardinality(T)
  <1>1. IsFiniteSet(T) /\ IsFiniteSet(S \ T)
    BY FS_Subset
  <1>2. Cardinality(S \ T) = Cardinality(S) - Cardinality(S \cap T)
    BY FS_Difference
  <1>3. S \cap T = T
    OBVIOUS
  <1>. QED
    BY <1>1, <1>2, <1>3, FS_CardinalityType

\* Closing invokers ends those that are invoked, and no other.
LEMMA ClosingJobs ==
    ASSUME TypeOK, NEW ks \in SUBSET Jobs
    PROVE  /\ Closing(ks) \in [Jobs -> JobRecord]
           /\ \A k \in Jobs : Closing(ks)[k].state =
                IF k \in ks THEN Closed(job[k].state) ELSE job[k].state
           /\ LivingIn(Closing(ks)) = LivingIn(job) \ Ended(ks)
           /\ Ended(ks) \in SUBSET LivingIn(job)
  <1>1. job \in [Jobs -> JobRecord]
    BY DEF TypeOK, JobRecord
  <1>2. \A k \in Jobs : /\ Closed(job[k].state) \in {"none", "invoking", "invoked", "closing", "done"}
                        /\ job[k] \in JobRecord
    BY <1>1 DEF JobRecord, Closed
  <1>3. \A k \in Jobs : [job[k] EXCEPT !.state = Closed(@)] \in JobRecord
                        /\ [job[k] EXCEPT !.state = Closed(@)].state = Closed(job[k].state)
    BY <1>2 DEF JobRecord
  <1>4. /\ Closing(ks) \in [Jobs -> JobRecord]
        /\ \A k \in Jobs : Closing(ks)[k].state =
                IF k \in ks THEN Closed(job[k].state) ELSE job[k].state
    BY <1>2, <1>3 DEF Closing
  <1>5. LivingIn(Closing(ks)) = LivingIn(job) \ Ended(ks)
    BY <1>2, <1>4 DEF LivingIn, Ended, Closed
  <1>6. Ended(ks) \in SUBSET LivingIn(job)
    BY DEF LivingIn, Ended
  <1>. QED
    BY <1>4, <1>5, <1>6

\* One more reply loop of k, and one less.
LEMMA OneMoreLoop ==
    ASSUME TypeOK, NEW k \in Jobs, loops[k] < MaxLoops
    PROVE  /\ [loops EXCEPT ![k] = @ + 1] \in [Jobs -> 0 .. MaxLoops]
           /\ Cardinality(SendingIn([loops EXCEPT ![k] = @ + 1])) = Cardinality(SendingIn(loops)) + 1
  <1>. DEFINE l == [loops EXCEPT ![k] = @ + 1]
              x == <<k, loops[k] + 1>>
  <1>1. /\ loops \in [Jobs -> 0 .. MaxLoops] /\ loops[k] \in Nat /\ loops[k] + 1 \in 1 .. MaxLoops
        /\ l \in [Jobs -> 0 .. MaxLoops] /\ l[k] = loops[k] + 1
        /\ \A o \in Jobs : o # k => l[o] = loops[o]
    BY JobsAssumption DEF TypeOK
  <1>2. SendingIn(l) = SendingIn(loops) \cup {x}
    <2>1. ASSUME NEW s \in Jobs \X (1 .. MaxLoops)
          PROVE  s[2] <= l[s[1]] <=> s[2] <= loops[s[1]] \/ s = x
      <3>1. s[1] \in Jobs /\ s[2] \in 1 .. MaxLoops /\ s = <<s[1], s[2]>>
        OBVIOUS
      <3>2. CASE s[1] = k
        BY <1>1, <3>1, <3>2, JobsAssumption
      <3>3. CASE s[1] # k
        BY <1>1, <3>1, <3>3
      <3>. QED
        BY <3>2, <3>3
    <2>2. x \in Jobs \X (1 .. MaxLoops)
      BY <1>1
    <2>. QED
      BY <2>1, <2>2 DEF SendingIn
  <1>3. x \notin SendingIn(loops)
    BY <1>1 DEF SendingIn
  <1>. QED
    BY <1>1, <1>2, <1>3, SendingFinite, FS_AddElement

LEMMA OneLoopLess ==
    ASSUME TypeOK, NEW k \in Jobs, loops[k] > 0
    PROVE  /\ [loops EXCEPT ![k] = @ - 1] \in [Jobs -> 0 .. MaxLoops]
           /\ Cardinality(SendingIn([loops EXCEPT ![k] = @ - 1])) = Cardinality(SendingIn(loops)) - 1
           /\ Cardinality(SendingIn(loops)) \in Nat \ {0}
  <1>. DEFINE l == [loops EXCEPT ![k] = @ - 1]
              x == <<k, loops[k]>>
  <1>1. /\ loops \in [Jobs -> 0 .. MaxLoops] /\ loops[k] \in 1 .. MaxLoops
        /\ l \in [Jobs -> 0 .. MaxLoops] /\ l[k] = loops[k] - 1
        /\ \A o \in Jobs : o # k => l[o] = loops[o]
    BY JobsAssumption DEF TypeOK
  <1>2. SendingIn(l) = SendingIn(loops) \ {x}
    <2>1. ASSUME NEW s \in Jobs \X (1 .. MaxLoops)
          PROVE  s[2] <= l[s[1]] <=> s[2] <= loops[s[1]] /\ s # x
      <3>1. s[1] \in Jobs /\ s[2] \in 1 .. MaxLoops /\ s = <<s[1], s[2]>>
        OBVIOUS
      <3>2. CASE s[1] = k
        BY <1>1, <3>1, <3>2, JobsAssumption
      <3>3. CASE s[1] # k
        BY <1>1, <3>1, <3>3
      <3>. QED
        BY <3>2, <3>3
    <2>. QED
      BY <2>1 DEF SendingIn
  <1>3. x \in SendingIn(loops)
    BY <1>1 DEF SendingIn
  <1>4. Cardinality(SendingIn(loops)) \in Nat /\ Cardinality(SendingIn(loops)) # 0
    BY <1>3, SendingFinite, FS_CardinalityType, FS_EmptySet
  <1>. QED
    BY <1>1, <1>2, <1>3, <1>4, SendingFinite, FS_RemoveElement

\* One invoker that has ended.
LEMMA OneEnds ==
    ASSUME NEW j, NEW k \in LivingIn(j)
    PROVE  /\ Cardinality(LivingIn(j) \ {k}) = Cardinality(LivingIn(j)) - 1
           /\ Cardinality(LivingIn(j)) \in Nat \ {0}
           /\ Cardinality(LivingIn(j) \ {k}) \in Nat
  <1>1. Cardinality(LivingIn(j)) \in Nat /\ Cardinality(LivingIn(j)) # 0
    BY LivingFinite, FS_CardinalityType, FS_EmptySet
  <1>2. Cardinality(LivingIn(j) \ {k}) = Cardinality(LivingIn(j)) - 1
    BY LivingFinite, FS_RemoveElement
  <1>. QED
    BY <1>1, <1>2

-----------------------------------------------------------------------------
(* The handler's steps *)

RefCounts == [reply : Nat, invokers : Nat]

\* What setRef does to the life cycle.
LEMMA LifeAfter ==
    ASSUME TypeOK, NEW r \in RefCounts, SetRefs(r)
    PROVE  /\ refs' = r /\ refs' \in RefCounts
           /\ life' \in {"starting", "ready", "closing", "closed"}
           /\ life # "closing" => life' = life
           /\ life = "closing" => life' \in {"closing", "closed"}
           /\ life' = "closed" => life = "closed" \/ NoneLeft(refs')
  BY DEF TypeOK, SetRefs

LEMMA Starting == Init => HandlerInv
  <1>. SUFFICES ASSUME Init PROVE HandlerInv
    OBVIOUS
  <1>1. (CHOOSE r \in Requests : TRUE) \in Requests
    BY RequestsAssumption
  <1>2. \A k \in Jobs : job[k].state = "none" /\ job[k] \in JobRecord
    BY <1>1 DEF Init, JobRecord
  <1>3. job \in [Jobs -> JobRecord]
    BY <1>2 DEF Init
  <1>4. LivingIn(job) = {}
    BY <1>2 DEF LivingIn
  <1>5. SendingIn(loops) = {}
    BY JobsAssumption DEF SendingIn, Init
  <1>6. Counted
    BY <1>4, <1>5, FS_EmptySet DEF Counted, Init
  <1>7. TypeOK
    <2>1. Cardinality({}) <= Capacity
      BY FS_EmptySet, CapacityAssumption
    <2>2. refs \in RefCounts
      BY DEF Init, RefCounts
    <2>3. loops \in [Jobs -> 0 .. MaxLoops]
      BY JobsAssumption DEF Init
    <2>. QED
      BY <1>3, <2>1, <2>2, <2>3 DEF TypeOK, Init, JobRecord, RefCounts
  <1>. QED
    BY <1>2, <1>6, <1>7 DEF HandlerInv, Found, Plugged, Init

LEMMA ReadyKeeps == HandlerInv /\ Ready => HandlerInv'
  BY DEF HandlerInv, Ready, TypeOK, Counted, Found, Plugged, LivingIn, SendingIn, NoneLeft

\* An invoker is taken in: those it pushes out are closed with it.
LEMMA NewInvokerKeeps ==
    ASSUME HandlerInv, NEW r \in Requests, NEW k \in Jobs, NewInvoker(r, k)
    PROVE  HandlerInv'
  <1>. USE DEF HandlerInv
  <1>1. PICK swept \in SUBSET invokers :
         LET kept == invokers \ swept
             full == Cardinality(kept) >= Capacity
             gone == IF full THEN swept \cup Oldest(kept) ELSE swept
         IN  /\ invokers' = (invokers \ gone) \cup {k}
             /\ job' = [Closing(gone) EXCEPT ![k] = [state |-> "invoking", request |-> r]]
             /\ acks' = acks \ Ended(gone)
             /\ refs' = [refs EXCEPT !.invokers = @ + 1 - Cardinality(Ended(gone))]
    BY DEF NewInvoker
  <1>. DEFINE kept == invokers \ swept
              full == Cardinality(kept) >= Capacity
              gone == IF full THEN swept \cup Oldest(kept) ELSE swept
              ended == Ended(gone)
  <1>2. /\ life = "ready" /\ plugged /\ job[k].state = "none"
        /\ UNCHANGED <<life, plugged, fresh, loops, stuck>>
    BY DEF NewInvoker
  <1>3. gone \in SUBSET invokers /\ gone \in SUBSET Jobs /\ k \notin invokers
    BY <1>2 DEF TypeOK, Oldest
  <1>4. /\ IsFiniteSet(invokers) /\ IsFiniteSet(kept)
        /\ Cardinality(kept) \in Nat /\ Cardinality(kept) <= Capacity
    <2>1. IsFiniteSet(Jobs)
      BY JobsAssumption, FS_Interval DEF Jobs
    <2>2. IsFiniteSet(invokers)
      BY <2>1, FS_Subset DEF TypeOK
    <2>. QED
      BY <2>2, FS_Subset, FS_CardinalityType, CapacityAssumption DEF TypeOK
  <1>5. /\ IsFiniteSet(invokers \ gone) /\ Cardinality(invokers \ gone) \in Nat
        /\ Cardinality(invokers \ gone) < Capacity
    <2>1. CASE full
      <3>1. invokers \ gone = kept \ Oldest(kept)
        BY <2>1
      <3>2. kept # {}
        BY <1>4, <2>1, FS_EmptySet, CapacityAssumption
      <3>3. kept \in SUBSET Nat
        BY JobsAssumption DEF TypeOK, Jobs
      <3>4. PICK m \in kept : \A n \in kept : m <= n
        BY <3>2, <3>3, LeastElement
      <3>5. m \in Oldest(kept) /\ Oldest(kept) \in SUBSET kept
        BY <3>4 DEF Oldest
      <3>6. Cardinality(Oldest(kept)) \in Nat /\ Cardinality(Oldest(kept)) # 0
        BY <1>4, <3>5, Without, FS_EmptySet
      <3>7. /\ IsFiniteSet(kept \ Oldest(kept)) /\ Cardinality(kept \ Oldest(kept)) \in Nat
            /\ Cardinality(kept \ Oldest(kept)) = Cardinality(kept) - Cardinality(Oldest(kept))
        BY <1>4, <3>5, Without
      <3>8. Cardinality(kept \ Oldest(kept)) < Capacity
        <4>. DEFINE a == Cardinality(kept)
                    b == Cardinality(Oldest(kept))
        <4>1. a \in Nat /\ a <= Capacity /\ b \in Nat /\ b # 0 /\ Capacity \in Nat
          BY <1>4, <3>6, CapacityAssumption
        <4>. HIDE DEF a, b
        <4>2. a - b < Capacity
          BY <4>1
        <4>. QED
          BY <3>7, <4>2 DEF a, b
      <3>. QED
        BY <3>1, <3>7, <3>8
    <2>2. CASE ~full
      <3>1. invokers \ gone = kept
        BY <2>2
      <3>. QED
        BY <1>4, <2>2, <3>1, CapacityAssumption
    <2>. QED
      BY <2>1, <2>2
  <1>6. /\ invokers' = (invokers \ gone) \cup {k}
        /\ job' = [Closing(gone) EXCEPT ![k] = [state |-> "invoking", request |-> r]]
        /\ acks' = acks \ ended
        /\ refs' = [refs EXCEPT !.invokers = @ + 1 - Cardinality(ended)]
    BY <1>1
  <1>. HIDE DEF kept, full, gone
  <1>7. invokers' \in SUBSET Jobs /\ Cardinality(invokers') <= Capacity
    <2>1. Cardinality(invokers') = Cardinality(invokers \ gone) + 1
      BY <1>3, <1>5, <1>6, FS_AddElement
    <2>. QED
      BY <1>5, <1>6, <2>1, CapacityAssumption DEF TypeOK
  <1>8. /\ Closing(gone) \in [Jobs -> JobRecord]
        /\ \A o \in Jobs : Closing(gone)[o].state =
             IF o \in gone THEN Closed(job[o].state) ELSE job[o].state
        /\ LivingIn(Closing(gone)) = LivingIn(job) \ ended
        /\ ended \in SUBSET LivingIn(job)
    BY <1>3, ClosingJobs
  <1>9. /\ job' \in [Jobs -> JobRecord]
        /\ job'[k].state = "invoking"
        /\ \A o \in Jobs : o # k => job'[o] = Closing(gone)[o]
    BY <1>6, <1>8 DEF JobRecord
  <1>10. LivingIn(job') = LivingIn(Closing(gone)) \cup {k} /\ k \notin LivingIn(Closing(gone))
    <2>1. k \notin LivingIn(job)
      BY <1>2 DEF LivingIn
    <2>. QED
      BY <1>8, <1>9, <2>1 DEF LivingIn
  <1>11. refs' \in RefCounts /\ refs'.invokers = Cardinality(LivingIn(job')) /\ refs'.reply = refs.reply
    <2>1. /\ Cardinality(LivingIn(Closing(gone))) \in Nat
          /\ Cardinality(LivingIn(Closing(gone))) = Cardinality(LivingIn(job)) - Cardinality(ended)
          /\ Cardinality(ended) \in Nat /\ Cardinality(LivingIn(job)) \in Nat
      BY <1>8, LivingFinite, Without
    <2>2. Cardinality(LivingIn(job')) = Cardinality(LivingIn(Closing(gone))) + 1
      BY <1>10, LivingFinite, FS_AddElement
    <2>3. refs.invokers = Cardinality(LivingIn(job)) /\ refs \in RefCounts
      BY DEF Counted, TypeOK, RefCounts
    <2>4. Cardinality(LivingIn(job')) = refs.invokers + 1 - Cardinality(ended)
          /\ Cardinality(LivingIn(job')) \in Nat
      BY <2>1, <2>2, <2>3
    <2>. QED
      BY <1>6, <2>3, <2>4 DEF RefCounts
  <1>12. acks' \in SUBSET Jobs /\ acks' = {o \in Jobs : job'[o].state = "invoked"}
    BY <1>2, <1>3, <1>6, <1>8, <1>9 DEF Plugged, Ended, Closed, TypeOK, JobRecord
  <1>13. Found'
    BY <1>2, <1>3, <1>6, <1>8, <1>9 DEF Found, Closed, TypeOK
  <1>14. \A o \in invokers' : job'[o].state # "none"
    BY <1>3, <1>6, <1>8, <1>9 DEF Closed, TypeOK
  <1>15. TypeOK'
    BY <1>2, <1>7, <1>9, <1>11, <1>12 DEF TypeOK, JobRecord, RefCounts
  <1>16. Counted' /\ Plugged'
    BY <1>2, <1>11, <1>12 DEF Counted, Plugged, SendingIn
  <1>. QED
    BY <1>2, <1>13, <1>14, <1>15, <1>16

LEMMA NewInvoking ==
    ASSUME HandlerInv, NEW r \in Requests, NEW k \in Jobs, NewInvoker(r, k)
    PROVE  job'[k].state = "invoking"
  <1>1. PICK gone \in SUBSET invokers :
          job' = [Closing(gone) EXCEPT ![k] = [state |-> "invoking", request |-> r]]
    BY DEF NewInvoker, Oldest
  <1>2. k \in DOMAIN Closing(gone)
    BY DEF Closing
  <1>. QED
    BY <1>1, <1>2

\* A reply loop of k begins, or the invoker has ended or is being closed.
LEMMA StartReplyKeeps ==
    ASSUME HandlerInv, NEW k \in Jobs, loops[k] < MaxLoops, StartReply(k),
           UNCHANGED <<plugged, invokers, job, acks, stuck>>,
           fresh' \in SUBSET Jobs
    PROVE  HandlerInv'
  <1>. USE DEF HandlerInv
  <1>1. CASE job[k].state = "invoked" /\ life # "closing"
    <2>1. life \in {"starting", "ready"}
      BY <1>1 DEF Found
    <2>2. /\ loops' \in [Jobs -> 0 .. MaxLoops]
          /\ Cardinality(SendingIn(loops')) = Cardinality(SendingIn(loops)) + 1
      BY <1>1, OneMoreLoop DEF StartReply
    <2>3. refs \in RefCounts /\ [refs EXCEPT !.reply = @ + 1] \in RefCounts
      BY DEF TypeOK, RefCounts
    <2>4. /\ refs' = [refs EXCEPT !.reply = @ + 1] /\ refs' \in RefCounts
          /\ life' = life
      BY <1>1, <2>1, <2>3, LifeAfter DEF StartReply, Ref
    <2>5. refs'.reply = refs.reply + 1 /\ refs'.invokers = refs.invokers
      BY <2>3, <2>4 DEF RefCounts
    <2>. QED
      BY <2>1, <2>2, <2>4, <2>5 DEF TypeOK, Counted, Found, Plugged, RefCounts
  <1>2. CASE ~(job[k].state = "invoked" /\ life # "closing")
    <2>1. UNCHANGED <<loops, refs, life>>
      BY <1>2 DEF StartReply
    <2>. QED
      BY <2>1 DEF TypeOK, Counted, Found, Plugged, NoneLeft
  <1>. QED
    BY <1>1, <1>2

LEMMA ResentKeeps == ASSUME HandlerInv, NEW k \in Jobs, Resent(k) PROVE HandlerInv'
  <1>1. fresh' \in SUBSET Jobs
    BY DEF HandlerInv, TypeOK, Resent
  <1>. QED
    BY <1>1, StartReplyKeeps DEF Resent

LEMMA FirstReplyKeeps == ASSUME HandlerInv, NEW k \in Jobs, FirstReply(k) PROVE HandlerInv'
  <1>1. fresh' \in SUBSET Jobs
    BY DEF HandlerInv, TypeOK, FirstReply
  <1>. QED
    BY <1>1, StartReplyKeeps DEF FirstReply

LEMMA ReplyEndsKeeps == ASSUME HandlerInv, NEW k \in Jobs, ReplyEnds(k) PROVE HandlerInv'
  <1>. USE DEF HandlerInv
  <1>1. /\ loops' \in [Jobs -> 0 .. MaxLoops]
        /\ Cardinality(SendingIn(loops')) = Cardinality(SendingIn(loops)) - 1
        /\ Cardinality(SendingIn(loops)) \in Nat \ {0}
    BY OneLoopLess DEF ReplyEnds
  <1>2. refs \in RefCounts /\ refs.reply \in Nat \ {0}
    BY <1>1 DEF TypeOK, RefCounts, Counted
  <1>3. [refs EXCEPT !.reply = @ - 1] \in RefCounts /\ [refs EXCEPT !.reply = @ + -1] \in RefCounts
    BY <1>2 DEF RefCounts
  <1>4. SetRefs([refs EXCEPT !.reply = @ + -1])
    BY DEF ReplyEnds, Ref
  <1>5. /\ refs' = [refs EXCEPT !.reply = @ + -1]
        /\ refs' \in RefCounts
        /\ life' \in {"starting", "ready", "closing", "closed"}
        /\ life # "closing" => life' = life
        /\ life = "closing" => life' \in {"closing", "closed"}
        /\ life' = "closed" => life = "closed" \/ NoneLeft(refs')
    BY <1>3, <1>4, LifeAfter
  <1>6. life # "closed"
    BY <1>2 DEF NoneLeft
  <1>7. refs'.reply = refs.reply - 1 /\ refs'.invokers = refs.invokers
    BY <1>2, <1>5 DEF RefCounts
  <1>8. UNCHANGED <<plugged, invokers, job, acks, fresh, stuck>>
    BY DEF ReplyEnds
  <1>9. Counted'
    BY <1>1, <1>7, <1>8 DEF Counted
  <1>10. TypeOK'
    BY <1>1, <1>5, <1>8 DEF TypeOK, RefCounts
  <1>11. Found' /\ Plugged' /\ \A o \in invokers' : job'[o].state # "none"
    BY <1>5, <1>6, <1>8 DEF Found, Plugged
  <1>. QED
    BY <1>5, <1>6, <1>9, <1>10, <1>11

LEMMA CannotReplyKeeps == ASSUME HandlerInv, NEW k \in Jobs, CannotReply(k) PROVE HandlerInv'
  BY DEF HandlerInv, CannotReply, TypeOK, Counted, Found, Plugged, NoneLeft

\* An invoker of the living gives back its reference: what is left of them is
\* what the count says, and the handler was not closed.
LEMMA GivenBack ==
    ASSUME HandlerInv, NEW k \in LivingIn(job), Ref("invokers", -1),
           LivingIn(job') = LivingIn(job) \ {k}, UNCHANGED loops
    PROVE  /\ Counted' /\ refs' \in RefCounts
           /\ life # "closed"
           /\ life' \in {"starting", "ready", "closing", "closed"}
           /\ life # "closing" => life' = life
           /\ life = "closing" => life' \in {"closing", "closed"}
           /\ life' = "closed" => NoneLeft(refs')
  <1>. USE DEF HandlerInv
  <1>1. /\ Cardinality(LivingIn(job')) = Cardinality(LivingIn(job)) - 1
        /\ Cardinality(LivingIn(job)) \in Nat \ {0}
    BY OneEnds
  <1>2. refs \in RefCounts /\ refs.invokers \in Nat \ {0}
    BY <1>1 DEF Counted, TypeOK, RefCounts
  <1>3. [refs EXCEPT !.invokers = @ + -1] \in RefCounts
    BY <1>2 DEF RefCounts
  <1>4. SetRefs([refs EXCEPT !.invokers = @ + -1])
    BY DEF Ref
  <1>5. /\ refs' = [refs EXCEPT !.invokers = @ + -1]
        /\ refs' \in RefCounts
        /\ life' \in {"starting", "ready", "closing", "closed"}
        /\ life # "closing" => life' = life
        /\ life = "closing" => life' \in {"closing", "closed"}
        /\ life' = "closed" => life = "closed" \/ NoneLeft(refs')
    BY <1>3, <1>4, LifeAfter
  <1>6. life # "closed"
    BY <1>2 DEF NoneLeft
  <1>7. refs'.invokers = refs.invokers - 1 /\ refs'.reply = refs.reply
    BY <1>2, <1>5 DEF RefCounts
  <1>8. Counted'
    BY <1>1, <1>7 DEF Counted
  <1>. QED
    BY <1>5, <1>6, <1>8

LEMMA HandlerEndsKeeps == ASSUME HandlerInv, NEW k \in Jobs, HandlerEnds(k) PROVE HandlerInv'
  <1>. USE DEF HandlerInv
  <1>1. /\ job[k].state \in {"invoking", "closing"}
        /\ job' = [job EXCEPT ![k].state = Invoked(job[k].state)]
        /\ acks' = IF Invoked(job[k].state) = "invoked" THEN acks \cup {k} ELSE acks
        /\ Ref("invokers", IF Invoked(job[k].state) = "invoked" THEN 0 ELSE -1)
        /\ fresh' = fresh \cup {k}
        /\ UNCHANGED <<plugged, invokers, loops, stuck>>
    BY DEF HandlerEnds
  <1>2. job \in [Jobs -> JobRecord] /\ job[k] \in JobRecord
    BY DEF TypeOK, JobRecord
  <1>3. Invoked(job[k].state) \in {"invoked", "done"}
    BY DEF Invoked
  <1>4. /\ [job[k] EXCEPT !.state = Invoked(job[k].state)] \in JobRecord
        /\ [job[k] EXCEPT !.state = Invoked(job[k].state)].state = Invoked(job[k].state)
    BY <1>2, <1>3 DEF JobRecord
  <1>5. /\ job' \in [Jobs -> JobRecord] /\ job'[k].state = Invoked(job[k].state)
        /\ \A o \in Jobs : o # k => job'[o] = job[o]
    BY <1>1, <1>2, <1>4
  <1>6. CASE job[k].state = "invoking"
    <2>1. job'[k].state = "invoked" /\ life \in {"starting", "ready"} /\ k \in invokers
      BY <1>5, <1>6 DEF Invoked, Found
    <2>2. LivingIn(job') = LivingIn(job)
      BY <1>5, <1>6, <2>1 DEF LivingIn
    <2>3. refs \in RefCounts /\ [refs EXCEPT !.invokers = @ + 0] = refs
      BY DEF TypeOK, RefCounts
    <2>4. SetRefs(refs)
      BY <1>1, <1>5, <2>1, <2>3 DEF Ref
    <2>5. refs' = refs /\ life' = life
      BY <2>1, <2>3, <2>4, LifeAfter
    <2>6. acks' = acks \cup {k} /\ acks' = {o \in Jobs : job'[o].state = "invoked"}
      BY <1>1, <1>5, <2>1 DEF Plugged
    <2>7. TypeOK'
      BY <1>1, <1>5, <2>5, <2>6 DEF TypeOK, JobRecord
    <2>8. Counted' /\ Found' /\ Plugged'
      BY <1>1, <1>5, <2>1, <2>2, <2>5, <2>6 DEF Counted, Found, Plugged
    <2>. QED
      BY <1>1, <1>5, <2>1, <2>5, <2>7, <2>8
  <1>7. CASE job[k].state = "closing"
    <2>1. job'[k].state = "done" /\ acks' = acks /\ Ref("invokers", -1)
      BY <1>1, <1>5, <1>7 DEF Invoked
    <2>2. k \in LivingIn(job) /\ LivingIn(job') = LivingIn(job) \ {k}
      BY <1>5, <1>7, <2>1 DEF LivingIn
    <2>3. /\ Counted' /\ refs' \in RefCounts /\ life # "closed"
          /\ life' \in {"starting", "ready", "closing", "closed"}
          /\ life # "closing" => life' = life
          /\ life = "closing" => life' \in {"closing", "closed"}
          /\ life' = "closed" => NoneLeft(refs')
      BY <1>1, <2>1, <2>2, GivenBack
    <2>4. TypeOK'
      BY <1>1, <1>5, <2>1, <2>3 DEF TypeOK, JobRecord, RefCounts
    <2>5. Found' /\ Plugged'
      BY <1>1, <1>5, <1>7, <2>1, <2>3 DEF Found, Plugged
    <2>. QED
      BY <1>1, <1>5, <2>1, <2>3, <2>4, <2>5
  <1>. QED
    BY <1>1, <1>6, <1>7

LEMMA AllDoneKeeps == ASSUME HandlerInv, NEW k \in Jobs, AllDone(k) PROVE HandlerInv'
  <1>. USE DEF HandlerInv
  <1>1. /\ job[k].state = "invoked" /\ job' = Closing({k}) /\ acks' = acks \ Ended({k})
        /\ Ref("invokers", -1)
        /\ UNCHANGED <<plugged, invokers, fresh, loops, stuck>>
    BY DEF AllDone, CloseInvokers
  <1>2. Ended({k}) = {k}
    BY <1>1 DEF Ended
  <1>3. /\ job' \in [Jobs -> JobRecord]
        /\ \A o \in Jobs : job'[o].state = IF o \in {k} THEN Closed(job[o].state) ELSE job[o].state
        /\ LivingIn(job') = LivingIn(job) \ {k}
    BY <1>1, <1>2, ClosingJobs
  <1>4. job'[k].state = "done" /\ k \in LivingIn(job)
    BY <1>1, <1>3 DEF Closed, LivingIn
  <1>5. /\ Counted' /\ refs' \in RefCounts /\ life # "closed"
        /\ life' \in {"starting", "ready", "closing", "closed"}
        /\ life # "closing" => life' = life
        /\ life = "closing" => life' \in {"closing", "closed"}
        /\ life' = "closed" => NoneLeft(refs')
    BY <1>1, <1>3, <1>4, GivenBack
  <1>6. TypeOK'
    BY <1>1, <1>2, <1>3, <1>5 DEF TypeOK, JobRecord, RefCounts
  <1>7. Found' /\ Plugged'
    BY <1>1, <1>2, <1>3, <1>4, <1>5 DEF Found, Plugged
  <1>8. \A o \in invokers' : job'[o].state # "none"
    BY <1>1, <1>3, <1>4 DEF TypeOK
  <1>. QED
    BY <1>5, <1>6, <1>7, <1>8

LEMMA CloseKeeps == HandlerInv /\ Close => HandlerInv'
  <1>. SUFFICES ASSUME HandlerInv, Close PROVE HandlerInv'
    OBVIOUS
  <1>. USE DEF HandlerInv
  <1>. DEFINE ended == Ended(invokers)
  <1>1. /\ life = "ready" /\ job' = Closing(invokers) /\ acks' = acks \ ended
        /\ plugged' = FALSE
        /\ refs' = [refs EXCEPT !.invokers = @ - Cardinality(ended)]
        /\ life' = AfterClose(refs')
        /\ UNCHANGED <<invokers, fresh, loops, stuck>>
    BY DEF Close, CloseInvokers
  <1>2. /\ job' \in [Jobs -> JobRecord]
        /\ \A o \in Jobs : job'[o].state = IF o \in invokers THEN Closed(job[o].state) ELSE job[o].state
        /\ LivingIn(job') = LivingIn(job) \ ended /\ ended \in SUBSET LivingIn(job)
    BY <1>1, ClosingJobs DEF TypeOK
  <1>3. refs' \in RefCounts /\ Counted'
    <2>1. /\ Cardinality(LivingIn(job')) = Cardinality(LivingIn(job)) - Cardinality(ended)
          /\ Cardinality(LivingIn(job')) \in Nat
      BY <1>2, LivingFinite, Without
    <2>2. refs \in RefCounts /\ refs.invokers = Cardinality(LivingIn(job))
      BY DEF TypeOK, RefCounts, Counted
    <2>. QED
      BY <1>1, <2>1, <2>2 DEF RefCounts, Counted
  <1>4. life' \in {"closing", "closed"} /\ (life' = "closed" => NoneLeft(refs'))
    BY <1>1 DEF AfterClose
  <1>5. \A k \in Jobs : job'[k].state \notin {"invoking", "invoked"}
    BY <1>2 DEF Found, Closed
  <1>6. acks' = {}
    BY <1>1 DEF Plugged, Found, Ended
  <1>. HIDE DEF ended
  <1>7. TypeOK'
    <2>1. plugged' \in BOOLEAN /\ acks' \in SUBSET Jobs
      BY <1>1, <1>6
    <2>2. UNCHANGED <<invokers, fresh, loops, stuck>>
      BY <1>1
    <2>. QED
      BY <1>2, <1>3, <1>4, <2>1, <2>2 DEF TypeOK, JobRecord, RefCounts
  <1>8. Found' /\ Plugged'
    BY <1>1, <1>4, <1>5, <1>6 DEF Found, Plugged
  <1>9. \A o \in invokers' : job'[o].state # "none"
    BY <1>1, <1>2 DEF Closed, TypeOK
  <1>. QED
    BY <1>3, <1>4, <1>7, <1>8, <1>9

LEMMA HandlerStep == HandlerInv /\ [Next]_vars => HandlerInv'
  <1>. SUFFICES ASSUME HandlerInv, [Next]_vars PROVE HandlerInv'
    OBVIOUS
  <1>1. CASE Ready
    BY <1>1, ReadyKeeps
  <1>2. CASE Close
    BY <1>2, CloseKeeps
  <1>3. ASSUME NEW r \in Requests, NEW k \in Jobs, NewInvoker(r, k) PROVE HandlerInv'
    BY <1>3, NewInvokerKeeps
  <1>4. ASSUME NEW k \in Jobs,
               \/ Resent(k) \/ HandlerEnds(k) \/ CannotReply(k)
               \/ FirstReply(k) \/ ReplyEnds(k) \/ AllDone(k)
        PROVE  HandlerInv'
    BY <1>4, ResentKeeps, HandlerEndsKeeps, CannotReplyKeeps, FirstReplyKeeps,
       ReplyEndsKeeps, AllDoneKeeps
  <1>5. CASE UNCHANGED vars
    BY <1>5 DEF vars, HandlerInv, TypeOK, Counted, Found, Plugged, LivingIn, SendingIn, NoneLeft
  <1>. QED
    BY <1>1, <1>2, <1>3, <1>4, <1>5 DEF Next

-----------------------------------------------------------------------------
(* The calls of the wares *)

Running(c, i) == ware[c][i] = "running"

\* A call has started no ware past its position, and none before it is made.
Placed ==
    \A c \in WorkCalls :
      /\ \A i \in Positions : ware[c][i] # "none" => i <= calling[c].current
      /\ calling[c].state = "none" => calling[c].current = 0

\* A ware that awaits is at work, and awaits one further on.
Awaiting ==
    \A c \in WorkCalls, i \in Positions :
      awaits[c][i] # 0 => Running(c, i) /\ i < awaits[c][i]

\* Where every next() is awaited, each ware at work but the first is awaited by
\* an earlier one, and the call is over only when the first one is.
Awaited ==
    \A c \in WorkCalls : c \notin loose =>
      /\ \A i \in Positions : Running(c, i) /\ i > 1 =>
           \E h \in Positions : h < i /\ Running(c, h) /\ awaits[c][h] = i
      /\ IsOver(c) => ~Running(c, 1)

\* A request's call is made together with its invoker.
Made == \A k \in Jobs : job[k].state = "none" => calling[k].state = "none"

WorkInv == WorkTypeOK /\ Placed /\ Awaiting /\ Awaited

ProviderInv == HandlerInv /\ WorkInv /\ Made

CallRecord == [state : {"none", "running", "returned", "threw"}, current : 0 .. MaxSteps]

LEMMA WorkStarting == WorkInit => WorkInv
  <1>. SUFFICES ASSUME WorkInit PROVE WorkInv
    OBVIOUS
  <1>. USE StepsAssumption
  <1>1. WorkTypeOK
    BY DEF WorkInit, WorkTypeOK, Positions
  <1>2. Placed /\ Awaiting /\ Awaited
    BY DEF WorkInit, Placed, Awaiting, Awaited, IsOver, Running, Positions
  <1>. QED
    BY <1>1, <1>2 DEF WorkInv

\* What a ware that starts changes.
LEMMA WareStarts ==
    ASSUME WorkTypeOK, NEW c \in WorkCalls, Starts(c), calling[c].current < MaxSteps
    PROVE  LET j == calling[c].current + 1 IN
           /\ j \in Positions
           /\ ware' \in [WorkCalls -> [Positions -> {"none", "running", "ended"}]]
           /\ ware'[c][j] = ware[c][j] \/ ware'[c][j] = "running"
           /\ \A d \in WorkCalls, i \in Positions : d # c \/ i # j => ware'[d][i] = ware[d][i]
  <1>. DEFINE j == calling[c].current + 1
  <1>1. /\ ware \in [WorkCalls -> [Positions -> {"none", "running", "ended"}]]
        /\ calling[c].current \in 0 .. MaxSteps
    BY DEF WorkTypeOK
  <1>2. j \in Positions
    BY <1>1, StepsAssumption DEF Positions
  <1>3. ware' = ware \/ ware' = [ware EXCEPT ![c][j] = "running"]
    BY DEF Starts
  <1>. HIDE DEF j
  <1>4. CASE ware' = ware
    BY <1>1, <1>2, <1>4 DEF j
  <1>5. CASE ware' = [ware EXCEPT ![c][j] = "running"]
    <2>1. /\ ware' \in [WorkCalls -> [Positions -> {"none", "running", "ended"}]]
          /\ ware'[c][j] = "running"
          /\ \A d \in WorkCalls, i \in Positions : d # c \/ i # j => ware'[d][i] = ware[d][i]
      BY <1>1, <1>2, <1>5
    <2>. QED
      BY <1>2, <2>1 DEF j
  <1>. QED
    BY <1>3, <1>4, <1>5

LEMMA PushWorkKeeps == WorkInv /\ PushWork => WorkInv'
  <1>. SUFFICES ASSUME WorkInv, PushWork PROVE WorkInv'
    OBVIOUS
  <1>1. works' \in 0 .. MaxWares /\ UNCHANGED <<calling, ware, awaits, loose>>
    BY StepsAssumption DEF PushWork, WorkInv, WorkTypeOK
  <1>2. WorkTypeOK'
    BY <1>1 DEF WorkInv, WorkTypeOK
  <1>. QED
    BY <1>1, <1>2 DEF WorkInv, Placed, Awaiting, Awaited, IsOver, Running

LEMMA CallWorksKeeps == ASSUME WorkInv, NEW c \in WorkCalls, CallWorks(c) PROVE WorkInv'
  <1>. USE StepsAssumption DEF WorkInv
  <1>1. /\ calling[c].state = "none" /\ calling[c].current = 0 /\ Starts(c)
        /\ calling' = [calling EXCEPT ![c] = [state |-> "running", current |-> 1]]
        /\ UNCHANGED <<works, awaits, loose>>
    BY DEF CallWorks, Placed
  <1>2. \A i \in Positions : ware[c][i] = "none"
    BY <1>1 DEF Placed, Positions
  <1>3. /\ 1 \in Positions
        /\ ware' \in [WorkCalls -> [Positions -> {"none", "running", "ended"}]]
        /\ \A d \in WorkCalls, i \in Positions : d # c \/ i # 1 => ware'[d][i] = ware[d][i]
    BY <1>1, WareStarts
  <1>4. /\ calling' \in [WorkCalls -> CallRecord]
        /\ calling'[c].state = "running" /\ calling'[c].current = 1
        /\ \A d \in WorkCalls : d # c => calling'[d] = calling[d]
    <2>1. [state |-> "running", current |-> 1] \in CallRecord
      BY DEF CallRecord
    <2>2. calling \in [WorkCalls -> CallRecord]
      BY DEF WorkTypeOK, CallRecord
    <2>. QED
      BY <1>1, <2>1, <2>2
  <1>5. WorkTypeOK'
    BY <1>1, <1>3, <1>4 DEF WorkTypeOK, CallRecord
  <1>6. Placed'
    <2>1. \A i \in Positions : i # 1 => ware'[c][i] = "none"
      BY <1>2, <1>3
    <2>2. \A d \in WorkCalls : d # c => \A i \in Positions : ware'[d][i] = ware[d][i]
      BY <1>3
    <2>. QED
      BY <1>4, <2>1, <2>2 DEF Placed
  <1>7. Awaiting'
    <2>1. \A i \in Positions : awaits[c][i] = 0
      BY <1>2 DEF Awaiting, Running
    <2>. QED
      BY <1>1, <1>3, <2>1 DEF Awaiting, Running
  <1>8. Awaited'
    <2>1. ASSUME NEW d \in WorkCalls, d \notin loose', d # c
          PROVE  /\ \A i \in Positions : Running(d, i)' /\ i > 1 =>
                      \E h \in Positions : h < i /\ Running(d, h)' /\ awaits'[d][h] = i
                 /\ IsOver(d)' => ~Running(d, 1)'
      <3>1. d \notin loose
        BY <1>1, <2>1
      <3>2. \A i \in Positions : ware'[d][i] = ware[d][i] /\ awaits'[d][i] = awaits[d][i]
        BY <1>1, <1>3, <2>1
      <3>3. calling'[d] = calling[d]
        BY <1>4, <2>1
      <3>. QED
        BY <1>3, <3>1, <3>2, <3>3 DEF Awaited, Running, IsOver
    <2>2. \A i \in Positions : i > 1 => ~Running(c, i)'
      BY <1>2, <1>3 DEF Running
    <2>3. ~IsOver(c)'
      BY <1>4 DEF IsOver
    <2>. QED
      BY <2>1, <2>2, <2>3 DEF Awaited
  <1>. QED
    BY <1>5, <1>6, <1>7, <1>8

LEMMA CallsNextKeeps ==
    ASSUME WorkInv, NEW c \in WorkCalls, NEW k \in Positions, CallsNext(c, k)
    PROVE  WorkInv'
  <1>. USE StepsAssumption DEF WorkInv
  <1>. DEFINE j == calling[c].current + 1
  <1>1. /\ ware[c][k] # "none" /\ calling[c].state = "running" /\ j <= MaxSteps
        /\ Starts(c) /\ calling' = [calling EXCEPT ![c].current = j] /\ works' = works
        /\ \/ /\ Running(c, k) /\ awaits[c][k] = 0
              /\ awaits' = [awaits EXCEPT ![c][k] = j] /\ UNCHANGED loose
           \/ loose' = loose \cup {c} /\ UNCHANGED awaits
    BY DEF CallsNext, Active, InCallings, Running
  <1>2. calling \in [WorkCalls -> CallRecord] /\ calling[c].current \in 0 .. MaxSteps
    BY DEF WorkTypeOK, CallRecord
  <1>3. calling[c].current < MaxSteps /\ j \in 0 .. MaxSteps
    BY <1>1, <1>2
  <1>4. /\ j \in Positions
        /\ ware' \in [WorkCalls -> [Positions -> {"none", "running", "ended"}]]
        /\ ware'[c][j] = ware[c][j] \/ ware'[c][j] = "running"
        /\ \A d \in WorkCalls, i \in Positions : d # c \/ i # j => ware'[d][i] = ware[d][i]
    BY <1>1, <1>3, WareStarts
  <1>5. k < j /\ 1 < j
    BY <1>1, <1>2 DEF Placed, Running, Positions
  <1>6. ware[c][j] = "none"
    <2>1. ~(j <= calling[c].current)
      BY <1>2
    <2>. QED
      BY <1>4, <2>1 DEF Placed
  <1>7. /\ calling' \in [WorkCalls -> CallRecord]
        /\ calling'[c].state = "running" /\ calling'[c].current = j
        /\ \A d \in WorkCalls : d # c => calling'[d] = calling[d]
    <2>1. [calling[c] EXCEPT !.current = j] \in CallRecord
      BY <1>2, <1>3 DEF CallRecord
    <2>. QED
      BY <1>1, <1>2, <2>1 DEF CallRecord
  <1>. HIDE DEF j
  <1>8. /\ awaits' \in [WorkCalls -> [Positions -> 0 .. MaxSteps]]
        /\ \A d \in WorkCalls, i \in Positions : d # c \/ i # k => awaits'[d][i] = awaits[d][i]
        /\ \/ Running(c, k) /\ awaits[c][k] = 0 /\ awaits'[c][k] = j
           \/ c \in loose' /\ awaits'[c][k] = awaits[c][k]
    <2>1. awaits \in [WorkCalls -> [Positions -> 0 .. MaxSteps]]
      BY DEF WorkTypeOK
    <2>2. CASE Running(c, k) /\ awaits[c][k] = 0 /\ awaits' = [awaits EXCEPT ![c][k] = j]
      BY <1>3, <2>1, <2>2
    <2>3. CASE loose' = loose \cup {c} /\ UNCHANGED awaits
      BY <1>1, <2>1, <2>3
    <2>. QED
      BY <1>1, <2>2, <2>3
  <1>9. WorkTypeOK'
    <2>1. loose' \subseteq WorkCalls
      BY <1>1 DEF WorkTypeOK
    <2>. QED
      BY <1>1, <1>4, <1>7, <1>8, <2>1 DEF WorkTypeOK, CallRecord
  <1>10. Placed'
    <2>1. ASSUME NEW i \in Positions, ware'[c][i] # "none" PROVE i <= j
      <3>1. i # j => i <= calling[c].current
        BY <1>4, <2>1 DEF Placed
      <3>. QED
        BY <1>2, <1>4, <3>1 DEF Positions, j
    <2>. QED
      BY <1>4, <1>7, <2>1 DEF Placed
  <1>11. \A d \in WorkCalls, i \in Positions : Running(d, i) => Running(d, i)'
    BY <1>4 DEF Running
  <1>12. Awaiting'
    <2>1. ASSUME NEW d \in WorkCalls, NEW i \in Positions, awaits'[d][i] # 0
          PROVE  Running(d, i)' /\ i < awaits'[d][i]
      <3>1. CASE d = c /\ i = k
        BY <1>5, <1>8, <1>11, <2>1, <3>1 DEF Awaiting
      <3>2. CASE ~(d = c /\ i = k)
        BY <1>8, <1>11, <2>1, <3>2 DEF Awaiting
      <3>. QED
        BY <3>1, <3>2
    <2>. QED
      BY <2>1 DEF Awaiting
  <1>13. Awaited'
    <2>1. ASSUME NEW d \in WorkCalls, d \notin loose', d # c
          PROVE  /\ \A i \in Positions : Running(d, i)' /\ i > 1 =>
                      \E h \in Positions : h < i /\ Running(d, h)' /\ awaits'[d][h] = i
                 /\ IsOver(d)' => ~Running(d, 1)'
      <3>1. d \notin loose
        BY <1>1, <2>1
      <3>2. \A i \in Positions : ware'[d][i] = ware[d][i] /\ awaits'[d][i] = awaits[d][i]
        BY <1>4, <1>8, <2>1
      <3>3. calling'[d] = calling[d]
        BY <1>7, <2>1
      <3>4. 1 \in Positions
        BY DEF Positions
      <3>. QED
        BY <3>1, <3>2, <3>3, <3>4 DEF Awaited, Running, IsOver
    <2>2. ASSUME c \notin loose', NEW i \in Positions, Running(c, i)', i > 1
          PROVE  \E h \in Positions : h < i /\ Running(c, h)' /\ awaits'[c][h] = i
      <3>1. CASE i = j
        BY <1>5, <1>8, <1>11, <2>2, <3>1
      <3>2. CASE i # j
        <4>1. Running(c, i) /\ c \notin loose
          BY <1>1, <1>4, <2>2, <3>2 DEF Running
        <4>2. PICK h \in Positions : h < i /\ Running(c, h) /\ awaits[c][h] = i
          BY <2>2, <4>1 DEF Awaited
        <4>3. h # k
          BY <1>8, <2>2, <4>2 DEF Positions
        <4>. QED
          BY <1>8, <1>11, <4>2, <4>3
      <3>. QED
        BY <3>1, <3>2
    <2>3. ~IsOver(c)'
      BY <1>7 DEF IsOver
    <2>. QED
      BY <2>1, <2>2, <2>3 DEF Awaited
  <1>. QED
    BY <1>9, <1>10, <1>12, <1>13

LEMMA GoesOnKeeps ==
    ASSUME WorkInv, NEW c \in WorkCalls, NEW k \in Positions, GoesOn(c, k)
    PROVE  WorkInv'
  <1>. USE StepsAssumption DEF WorkInv
  <1>1. /\ ware[c][awaits[c][k]] # "running"
        /\ awaits' = [awaits EXCEPT ![c][k] = 0]
        /\ UNCHANGED <<works, calling, ware, loose>>
    BY DEF GoesOn
  <1>2. awaits \in [WorkCalls -> [Positions -> 0 .. MaxSteps]]
    BY DEF WorkTypeOK
  <1>3. /\ awaits' \in [WorkCalls -> [Positions -> 0 .. MaxSteps]]
        /\ awaits'[c][k] = 0
        /\ \A d \in WorkCalls, i \in Positions : d # c \/ i # k => awaits'[d][i] = awaits[d][i]
    BY <1>1, <1>2
  <1>4. WorkTypeOK' /\ Placed'
    BY <1>1, <1>3 DEF WorkTypeOK, Placed
  <1>5. Awaiting'
    BY <1>1, <1>3 DEF Awaiting, Running
  <1>6. Awaited'
    <2>1. ASSUME NEW d \in WorkCalls, d \notin loose, NEW i \in Positions, Running(d, i), i > 1
          PROVE  \E h \in Positions : h < i /\ Running(d, h) /\ awaits'[d][h] = i
      <3>1. PICK h \in Positions : h < i /\ Running(d, h) /\ awaits[d][h] = i
        BY <2>1 DEF Awaited
      <3>2. d # c \/ h # k
        BY <1>1, <2>1, <3>1 DEF Running
      <3>. QED
        BY <1>3, <3>1, <3>2
    <2>. QED
      BY <1>1, <2>1 DEF Awaited, Running, IsOver
  <1>. QED
    BY <1>4, <1>5, <1>6

LEMMA WareEndsKeeps ==
    ASSUME WorkInv, NEW c \in WorkCalls, NEW k \in Positions, WareEnds(c, k)
    PROVE  WorkInv'
  <1>. USE StepsAssumption DEF WorkInv
  <1>1. /\ Running(c, k) /\ awaits[c][k] = 0
        /\ ware' = [ware EXCEPT ![c][k] = "ended"]
        /\ UNCHANGED <<works, calling, awaits, loose>>
    BY DEF WareEnds, Active, Running
  <1>2. ware \in [WorkCalls -> [Positions -> {"none", "running", "ended"}]]
    BY DEF WorkTypeOK
  <1>3. /\ ware' \in [WorkCalls -> [Positions -> {"none", "running", "ended"}]]
        /\ ware'[c][k] = "ended"
        /\ \A d \in WorkCalls, i \in Positions : d # c \/ i # k => ware'[d][i] = ware[d][i]
    BY <1>1, <1>2
  <1>4. WorkTypeOK'
    BY <1>1, <1>3 DEF WorkTypeOK
  <1>5. Placed'
    <2>1. \A d \in WorkCalls, i \in Positions : ware'[d][i] # "none" => ware[d][i] # "none"
      BY <1>1, <1>3 DEF Running
    <2>. QED
      BY <1>1, <2>1 DEF Placed
  <1>6. \A d \in WorkCalls, i \in Positions :
          /\ Running(d, i)' => Running(d, i)
          /\ Running(d, i) /\ awaits[d][i] # 0 => Running(d, i)'
    BY <1>1, <1>3 DEF Running
  <1>7. Awaiting'
    BY <1>1, <1>6 DEF Awaiting
  <1>8. Awaited'
    <2>1. ASSUME NEW d \in WorkCalls, d \notin loose, NEW i \in Positions, Running(d, i)', i > 1
          PROVE  \E h \in Positions : h < i /\ Running(d, h)' /\ awaits[d][h] = i
      <3>1. PICK h \in Positions : h < i /\ Running(d, h) /\ awaits[d][h] = i
        BY <1>6, <2>1 DEF Awaited
      <3>. QED
        BY <1>6, <2>1, <3>1 DEF Positions
    <2>2. ASSUME NEW d \in WorkCalls, d \notin loose, IsOver(d) PROVE ~Running(d, 1)'
      <3>1. 1 \in Positions
        BY DEF Positions
      <3>. QED
        BY <1>6, <2>2, <3>1 DEF Awaited
    <2>. QED
      BY <1>1, <2>1, <2>2 DEF Awaited, IsOver
  <1>. QED
    BY <1>4, <1>5, <1>7, <1>8

LEMMA CallOverKeeps == ASSUME WorkInv, NEW c \in WorkCalls, CallOver(c) PROVE WorkInv'
  <1>. USE StepsAssumption DEF WorkInv
  <1>1. /\ calling[c].state = "running" /\ ~Running(c, 1)
        /\ \E s \in {"returned", "threw"} : calling' = [calling EXCEPT ![c].state = s]
        /\ UNCHANGED <<works, ware, awaits, loose>>
    BY DEF CallOver, Running
  <1>2. calling \in [WorkCalls -> CallRecord]
    BY DEF WorkTypeOK, CallRecord
  <1>3. /\ calling' \in [WorkCalls -> CallRecord]
        /\ \A d \in WorkCalls : calling'[d].current = calling[d].current
        /\ calling'[c].state # "none"
        /\ \A d \in WorkCalls : d # c => calling'[d].state = calling[d].state
    <2>1. PICK s \in {"returned", "threw"} : calling' = [calling EXCEPT ![c].state = s]
      BY <1>1
    <2>2. /\ [calling[c] EXCEPT !.state = s] \in CallRecord
          /\ [calling[c] EXCEPT !.state = s].current = calling[c].current
          /\ [calling[c] EXCEPT !.state = s].state = s
      BY <1>2 DEF CallRecord
    <2>. QED
      BY <1>2, <2>1, <2>2
  <1>4. WorkTypeOK'
    BY <1>1, <1>3 DEF WorkTypeOK, CallRecord
  <1>5. Placed'
    <2>1. \A d \in WorkCalls : calling'[d].state = "none" => calling[d].state = "none"
      BY <1>3
    <2>. QED
      BY <1>1, <1>3, <2>1 DEF Placed
  <1>6. Awaiting'
    BY <1>1 DEF Awaiting, Running
  <1>7. Awaited'
    <2>1. \A d \in WorkCalls : IsOver(d)' => IsOver(d) \/ d = c
      BY <1>3 DEF IsOver
    <2>. QED
      BY <1>1, <2>1 DEF Awaited, Running
  <1>. QED
    BY <1>4, <1>5, <1>6, <1>7

LEMMA WorkStep == WorkInv /\ (WorkNext \/ UNCHANGED workVars) => WorkInv'
  <1>1. ASSUME WorkInv, UNCHANGED workVars PROVE WorkInv'
    BY <1>1 DEF workVars, WorkInv, WorkTypeOK, Placed, Awaiting, Awaited, IsOver, Running
  <1>. QED
    BY <1>1, PushWorkKeeps, CallsNextKeeps, GoesOnKeeps, WareEndsKeeps, CallOverKeeps DEF WorkNext

\* Every ware at work but the first is awaited by an earlier one: so where the
\* first is not at work, none is.
LEMMA NoneAtWork ==
    ASSUME WorkInv, NEW c \in WorkCalls, c \notin loose, IsOver(c)
    PROVE  \A i \in Positions : ~Running(c, i)
  <1>. SUFFICES ASSUME NEW k \in Positions, Running(c, k) PROVE FALSE
    OBVIOUS
  <1>. DEFINE T == {i \in Positions : Running(c, i)}
  <1>1. T \in SUBSET Nat /\ T # {}
    BY DEF Positions
  <1>2. PICK m \in T : \A n \in T : m <= n
    BY <1>1, LeastElement
  <1>3. m # 1
    BY <1>2 DEF WorkInv, Awaited
  <1>4. PICK h \in Positions : h < m /\ Running(c, h) /\ awaits[c][h] = m
    BY <1>2, <1>3 DEF WorkInv, Awaited, Positions
  <1>. QED
    BY <1>2, <1>4 DEF Positions

-----------------------------------------------------------------------------
(* The provider *)

LEMMA ProviderStarting == ProviderInit => ProviderInv
  <1>. SUFFICES ASSUME ProviderInit PROVE ProviderInv
    OBVIOUS
  <1>1. HandlerInv /\ WorkInv
    BY Starting, WorkStarting DEF ProviderInit
  <1>2. Made
    BY CallsAssumption DEF ProviderInit, WorkInit, Made
  <1>. QED
    BY <1>1, <1>2 DEF ProviderInv

\* Each step of the provider is one of the handler, or leaves it alone; and but
\* for a request that makes a call, the same goes for the calls.
LEMMA Parts ==
    ProviderNext =>
      /\ [Next]_vars
      /\ \/ \E r \in Requests, k \in Jobs : Invoke(r, k)
         \/ WorkNext \/ UNCHANGED workVars
  BY DEF ProviderNext, Next, Handler, Invoke, Replies, CannotEncode

\* A request whose JSON cannot be parsed leaves a call that made no ware start.
LEMMA InvokeKeeps ==
    ASSUME ProviderInv, NEW r \in Requests, NEW k \in Jobs, Invoke(r, k)
    PROVE  WorkInv'
  <1>. USE StepsAssumption, CallsAssumption
  <1>1. CASE CallWorks(k)
    BY <1>1, CallWorksKeeps DEF ProviderInv
  <1>2. CASE /\ calling' = [calling EXCEPT ![k].state = "threw"]
             /\ UNCHANGED <<works, ware, awaits, loose>>
    <2>. USE DEF ProviderInv, WorkInv
    <2>1. calling[k].state = "none" /\ calling[k].current = 0
      BY DEF Invoke, NewInvoker, Made, Placed
    <2>2. calling \in [WorkCalls -> CallRecord]
      BY DEF WorkTypeOK, CallRecord
    <2>3. /\ [calling[k] EXCEPT !.state = "threw"] \in CallRecord
          /\ [calling[k] EXCEPT !.state = "threw"].current = calling[k].current
          /\ [calling[k] EXCEPT !.state = "threw"].state = "threw"
      BY <2>2 DEF CallRecord
    <2>4. /\ calling' \in [WorkCalls -> CallRecord]
          /\ \A d \in WorkCalls : calling'[d].current = calling[d].current
          /\ calling'[k].state = "threw"
          /\ \A d \in WorkCalls : d # k => calling'[d].state = calling[d].state
      BY <1>2, <2>2, <2>3
    <2>5. WorkTypeOK' /\ Awaiting'
      BY <1>2, <2>4 DEF WorkTypeOK, CallRecord, Awaiting, Running
    <2>6. Placed'
      BY <1>2, <2>4 DEF Placed
    <2>7. Awaited'
      <3>1. \A i \in Positions : ware[k][i] # "running"
        BY <2>1 DEF Placed, Positions
      <3>2. ~Running(k, 1)
        BY <3>1 DEF Running, Positions
      <3>3. \A d \in WorkCalls : IsOver(d)' => IsOver(d) \/ d = k
        BY <2>4 DEF IsOver
      <3>. QED
        BY <1>2, <3>2, <3>3 DEF Awaited, Running
    <2>. QED
      BY <2>5, <2>6, <2>7
  <1>. QED
    BY <1>1, <1>2 DEF Invoke, HandleInvoking

LEMMA MadeKept == ASSUME ProviderInv, ProviderNext PROVE Made'
  <1>. USE CallsAssumption
  <1>1. ASSUME NEW o \in Jobs, job'[o].state = "none" PROVE job[o].state = "none"
    <2>. USE DEF ProviderInv, HandlerInv
    <2>1. job \in [Jobs -> JobRecord]
      BY DEF TypeOK, JobRecord
    <2>2. CASE UNCHANGED job
      BY <1>1, <2>2
    <2>3. ASSUME NEW ks \in SUBSET Jobs, job' = Closing(ks) PROVE job[o].state = "none"
      BY <1>1, <2>3, ClosingJobs DEF Closed
    <2>4. ASSUME NEW r \in Requests, NEW k \in Jobs, NewInvoker(r, k) PROVE job[o].state = "none"
      <3>1. PICK gone \in SUBSET invokers :
              job' = [Closing(gone) EXCEPT ![k] = [state |-> "invoking", request |-> r]]
        BY <2>4 DEF NewInvoker, Oldest
      <3>2. gone \in SUBSET Jobs
        BY DEF TypeOK
      <3>3. /\ Closing(gone) \in [Jobs -> JobRecord]
            /\ Closing(gone)[o].state = IF o \in gone THEN Closed(job[o].state) ELSE job[o].state
        BY <3>2, ClosingJobs
      <3>4. o # k /\ job'[o] = Closing(gone)[o]
        BY <1>1, <3>1, <3>3
      <3>. QED
        BY <1>1, <3>3, <3>4 DEF Closed
    <2>5. ASSUME NEW k \in Jobs, HandlerEnds(k) PROVE job[o].state = "none"
      BY <1>1, <2>1, <2>5 DEF HandlerEnds, Invoked, JobRecord
    <2>6. ASSUME NEW k \in Jobs, AllDone(k) PROVE job[o].state = "none"
      BY <2>3, <2>6 DEF AllDone, CloseInvokers
    <2>7. CASE Close
      BY <2>3, <2>7 DEF Close, CloseInvokers, TypeOK
    <2>8. [Next]_vars
      BY Parts
    <2>. QED
      BY <2>2, <2>4, <2>5, <2>6, <2>7, <2>8
      DEF Next, vars, Ready, Resent, CannotReply, FirstReply, ReplyEnds
  <1>2. ASSUME NEW o \in Jobs, job'[o].state = "none" PROVE calling'[o].state = "none"
    <2>1. job[o].state = "none" /\ calling[o].state = "none"
      BY <1>1, <1>2 DEF ProviderInv, Made
    <2>2. calling \in [WorkCalls -> CallRecord]
      BY DEF ProviderInv, WorkInv, WorkTypeOK, CallRecord
    <2>3. ASSUME NEW r \in Requests, NEW k \in Jobs, Invoke(r, k) PROVE calling'[o].state = "none"
      <3>1. o # k
        <4>1. job'[k].state = "invoking"
          BY <2>3, NewInvoking DEF Invoke, ProviderInv
        <4>. QED
          BY <1>2, <4>1
      <3>. QED
        BY <2>1, <2>2, <2>3, <3>1 DEF Invoke, HandleInvoking, CallWorks
    <2>4. CASE WorkNext
      BY <2>1, <2>2, <2>4 DEF WorkNext, PushWork, CallOver, CallsNext, InCallings, GoesOn, WareEnds
    <2>5. CASE UNCHANGED workVars
      BY <2>1, <2>5 DEF workVars
    <2>. QED
      BY <2>3, <2>4, <2>5, Parts
  <1>. QED
    BY <1>2 DEF Made

LEMMA ProviderStep == ProviderInv /\ [ProviderNext]_providerVars => ProviderInv'
  <1>. SUFFICES ASSUME ProviderInv, [ProviderNext]_providerVars PROVE ProviderInv'
    OBVIOUS
  <1>. USE DEF ProviderInv
  <1>1. CASE ProviderNext
    <2>1. HandlerInv'
      BY <1>1, Parts, HandlerStep
    <2>2. WorkInv'
      BY <1>1, Parts, WorkStep, InvokeKeeps
    <2>. QED
      BY <1>1, <2>1, <2>2, MadeKept
  <1>2. CASE UNCHANGED providerVars
    <2>1. UNCHANGED vars /\ UNCHANGED workVars
      BY <1>2 DEF providerVars
    <2>2. HandlerInv' /\ WorkInv'
      BY <2>1, HandlerStep, WorkStep
    <2>3. Made'
      BY <2>1 DEF Made, vars, workVars
    <2>. QED
      BY <2>2, <2>3
  <1>. QED
    BY <1>1, <1>2

\* The invariant of SimpleProvider, its InvokeHandler and its WorkFlow.
THEOREM ProviderInvAlways == ProviderSpec => []ProviderInv
  BY ProviderStarting, ProviderStep, PTL DEF ProviderSpec

\* The variables of a provider keep their types; in particular no reference is
\* given back that was not taken, and the map of invokers keeps its bound.
THEOREM ProviderTypes == ProviderSpec => []ProviderTypeOK
  <1>1. ProviderInv => ProviderTypeOK
    BY DEF ProviderInv, HandlerInv, WorkInv, ProviderTypeOK
  <1>. QED
    BY <1>1, ProviderInvAlways, PTL

\* InvokeHandler.close() finds in its map every invoker that would wait for a
\* client: whichever the map dropped before it had closed.
THEOREM WaitsForNoClientAlways == ProviderSpec => []WaitsForNoClient
  <1>1. ProviderInv => WaitsForNoClient
    BY DEF ProviderInv, HandlerInv, Found, WaitsForNoClient
  <1>. QED
    BY <1>1, ProviderInvAlways, PTL

\* When InvokeHandler.close() has returned nothing of the handler is plugged,
\* no handler runs and no reply loop is at a send.
THEOREM QuietWhenClosedAlways == ProviderSpec => []QuietWhenClosed
  <1>1. ASSUME ProviderInv, life = "closed" PROVE QuietWhenClosed
    <2>. USE DEF ProviderInv, HandlerInv
    <2>1. refs.invokers = 0 /\ refs.reply = 0
      BY <1>1 DEF NoneLeft
    <2>2. LivingIn(job) = {} /\ SendingIn(loops) = {}
      BY <1>1, <2>1, LivingFinite, SendingFinite, FS_EmptySet DEF Counted
    <2>3. \A k \in Jobs : job[k].state \in {"none", "done"}
      BY <1>1, <2>2 DEF LivingIn, TypeOK
    <2>4. ASSUME NEW k \in Jobs, loops[k] # 0 PROVE FALSE
      <3>1. loops[k] \in 1 .. MaxLoops
        BY <1>1, <2>4, JobsAssumption DEF TypeOK
      <3>2. <<k, loops[k]>> \in SendingIn(loops)
        BY <3>1 DEF SendingIn
      <3>. QED
        BY <2>2, <3>2
    <2>5. ~plugged /\ acks = {}
      BY <1>1, <2>3 DEF Plugged
    <2>. QED
      BY <2>3, <2>4, <2>5 DEF QuietWhenClosed
  <1>2. ProviderInv => QuietWhenClosed
    BY <1>1 DEF QuietWhenClosed
  <1>. QED
    BY <1>2, ProviderInvAlways, PTL

\* WorkFlow.call ends with its context final: no ware of it is left at work,
\* unless a next() was not awaited, however long the chain of wares.
THEOREM OverWhenDoneAlways == ProviderSpec => []OverWhenDone
  <1>1. ProviderInv => OverWhenDone
    BY NoneAtWork DEF ProviderInv, OverWhenDone, Running
  <1>. QED
    BY <1>1, ProviderInvAlways, PTL

-----------------------------------------------------------------------------
(* What close() waits for *)

\* A ware of the call at c may end, or the promise it awaits is settled.
WareMoves(c) ==
    \E i \in Positions : \/ Active(c, i)
                         \/ awaits[c][i] # 0 /\ ware[c][awaits[c][i]] # "running"

\* While close() waits, some step is possible that it may count on: a reply's
\* send ends, a handler returns, or a ware of its call goes on; or a handler has
\* thrown what cannot be encoded.  It never waits for a reference nobody holds,
\* nor for wares that wait for each other.
CloseHasWork ==
    life = "closing" =>
      \E k \in Jobs :
        \/ loops[k] > 0
        \/ /\ job[k].state = "closing"
           /\ \/ k \in stuck
              \/ IsOver(k)
              \/ calling[k].state = "running" /\ (ware[k][1] # "running" \/ WareMoves(k))

\* close() has looked at the references since the last one was given back, and
\* an invoker comes with its call.
StillHeld ==
    /\ life = "closing" => ~NoneLeft(refs)
    /\ \A k \in Jobs : job[k].state # "none" => calling[k].state # "none"

LEMMA LooksAgain ==
    ASSUME ProviderInv, life = "closing" => ~NoneLeft(refs), [Next]_vars
    PROVE  life' = "closing" => ~NoneLeft(refs)'
  <1>1. ASSUME NEW r, SetRefs(r) PROVE life' = "closing" => ~NoneLeft(refs)'
    BY <1>1 DEF SetRefs, NoneLeft
  <1>2. ASSUME NEW k \in Jobs, StartReply(k) PROVE life' = "closing" => ~NoneLeft(refs)'
    BY <1>1, <1>2 DEF StartReply, Ref, NoneLeft
  <1>3. CASE Close
    BY <1>3 DEF Close, AfterClose, NoneLeft
  <1>4. ASSUME NEW k \in Jobs, HandlerEnds(k) \/ ReplyEnds(k) \/ AllDone(k)
        PROVE  life' = "closing" => ~NoneLeft(refs)'
    BY <1>1, <1>4 DEF HandlerEnds, ReplyEnds, AllDone, Ref
  <1>5. ASSUME NEW r \in Requests, NEW k \in Jobs, NewInvoker(r, k)
        PROVE  life' = "closing" => ~NoneLeft(refs)'
    BY <1>5 DEF NewInvoker
  <1>6. CASE Ready \/ UNCHANGED vars \/ \E k \in Jobs : CannotReply(k)
    BY <1>6 DEF Ready, vars, CannotReply, NoneLeft
  <1>. QED
    BY <1>2, <1>3, <1>4, <1>5, <1>6 DEF Next, Resent, FirstReply

\* A call that has been made is never unmade.
LEMMA CallsStay ==
    ASSUME ProviderInv, [ProviderNext]_providerVars,
           NEW c \in WorkCalls, calling[c].state # "none"
    PROVE  calling'[c].state # "none"
  <1>1. calling \in [WorkCalls -> CallRecord]
    BY DEF ProviderInv, WorkInv, WorkTypeOK, CallRecord
  <1>2. ASSUME NEW r \in Requests, NEW k \in Jobs, Invoke(r, k) PROVE calling'[c].state # "none"
    BY <1>1, <1>2, CallsAssumption DEF CallRecord, Invoke, HandleInvoking, CallWorks
  <1>3. CASE WorkNext
    BY <1>1, <1>3 DEF CallRecord, WorkNext, PushWork, CallOver, CallsNext, InCallings, GoesOn, WareEnds
  <1>4. CASE UNCHANGED workVars
    BY <1>4 DEF workVars
  <1>. QED
    BY <1>2, <1>3, <1>4, Parts DEF providerVars

\* A job that was not there before is of a request that has been invoked.
LEMMA JobsAreInvoked ==
    ASSUME ProviderInv, [ProviderNext]_providerVars,
           NEW o \in Jobs, job[o].state = "none", job'[o].state # "none"
    PROVE  \E r \in Requests : Invoke(r, o)
  <1>. USE DEF ProviderInv, HandlerInv
  <1>1. job \in [Jobs -> JobRecord]
    BY DEF TypeOK, JobRecord
  <1>2. ASSUME NEW ks \in SUBSET Jobs, job' = Closing(ks) PROVE FALSE
    BY <1>2, ClosingJobs DEF Closed
  <1>3. ASSUME NEW r \in Requests, NEW k \in Jobs, NewInvoker(r, k) PROVE o = k
    <2>1. PICK gone \in SUBSET invokers :
            job' = [Closing(gone) EXCEPT ![k] = [state |-> "invoking", request |-> r]]
      BY <1>3 DEF NewInvoker, Oldest
    <2>2. gone \in SUBSET Jobs
      BY DEF TypeOK
    <2>3. /\ Closing(gone) \in [Jobs -> JobRecord]
          /\ Closing(gone)[o].state = IF o \in gone THEN Closed(job[o].state) ELSE job[o].state
      BY <2>2, ClosingJobs
    <2>4. o # k => job'[o] = Closing(gone)[o]
      BY <2>1, <2>3
    <2>. QED
      BY <2>3, <2>4 DEF Closed
  <1>4. ASSUME NEW k \in Jobs, HandlerEnds(k) PROVE FALSE
    BY <1>1, <1>4 DEF HandlerEnds, JobRecord
  <1>5. ASSUME NEW k \in Jobs, AllDone(k) PROVE FALSE
    BY <1>2, <1>5 DEF AllDone, CloseInvokers
  <1>6. Close => FALSE
    BY <1>2 DEF Close, CloseInvokers, TypeOK
  <1>7. UNCHANGED job => FALSE
    OBVIOUS
  <1>. QED
    BY <1>3, <1>4, <1>5, <1>6, <1>7
    DEF ProviderNext, providerVars, vars, Handler, Invoke, Replies, CannotEncode,
        Ready, Resent, CannotReply, FirstReply, ReplyEnds

LEMMA StillHeldKept ==
    ProviderInv /\ StillHeld /\ [ProviderNext]_providerVars => StillHeld'
  <1>. SUFFICES ASSUME ProviderInv, StillHeld, [ProviderNext]_providerVars PROVE StillHeld'
    OBVIOUS
  <1>1. life' = "closing" => ~NoneLeft(refs)'
    BY LooksAgain, Parts DEF StillHeld, providerVars
  <1>2. ASSUME NEW o \in Jobs, job'[o].state # "none" PROVE calling'[o].state # "none"
    <2>1. CASE job[o].state # "none"
      BY <2>1, CallsStay, CallsAssumption DEF StillHeld
    <2>2. CASE job[o].state = "none"
      <3>1. PICK r \in Requests : Invoke(r, o)
        BY <1>2, <2>2, JobsAreInvoked
      <3>2. calling \in [WorkCalls -> CallRecord]
        BY DEF ProviderInv, WorkInv, WorkTypeOK, CallRecord
      <3>. QED
        BY <3>1, <3>2, CallsAssumption DEF CallRecord, Invoke, HandleInvoking, CallWorks
    <2>. QED
      BY <2>1, <2>2
  <1>. QED
    BY <1>1, <1>2 DEF StillHeld

\* Of the wares at work the last one moves: it awaits none that is at work.
LEMMA LastMoves ==
    ASSUME WorkInv, NEW c \in WorkCalls, NEW k \in Positions, Running(c, k)
    PROVE  WareMoves(c)
  <1>. DEFINE T == {MaxSteps - i : i \in {h \in Positions : Running(c, h)}}
  <1>1. T \in SUBSET Nat /\ T # {}
    BY StepsAssumption DEF Positions
  <1>2. PICK m \in T : \A n \in T : m <= n
    BY <1>1, LeastElement
  <1>3. PICK i \in Positions : Running(c, i) /\ m = MaxSteps - i
    BY <1>2
  <1>4. \A h \in Positions : Running(c, h) => MaxSteps - i <= MaxSteps - h
    BY <1>2, <1>3
  <1>5. \A h \in Positions : Running(c, h) => h <= i
    BY <1>4, StepsAssumption DEF Positions
  <1>6. CASE awaits[c][i] = 0
    BY <1>3, <1>6 DEF WareMoves, Active, Running
  <1>7. CASE awaits[c][i] # 0
    <2>1. i < awaits[c][i] /\ awaits[c][i] \in 0 .. MaxSteps
      BY <1>7 DEF WorkInv, WorkTypeOK, Awaiting
    <2>2. awaits[c][i] \in Positions
      BY <1>3, <2>1, StepsAssumption DEF Positions
    <2>3. ~(awaits[c][i] <= i)
      BY <1>3, <2>1, StepsAssumption DEF Positions
    <2>. QED
      BY <1>3, <1>5, <1>7, <2>2, <2>3 DEF WareMoves, Running
  <1>. QED
    BY <1>6, <1>7

LEMMA HeldIsWork == ASSUME ProviderInv, StillHeld PROVE CloseHasWork
  <1>. SUFFICES ASSUME life = "closing" PROVE CloseHasWork
    BY DEF CloseHasWork
  <1>. USE DEF ProviderInv, HandlerInv
  <1>1. refs.invokers # 0 \/ refs.reply # 0
    BY DEF StillHeld, NoneLeft
  <1>2. CASE refs.reply # 0
    <2>1. SendingIn(loops) # {}
      BY <1>2, FS_EmptySet DEF Counted
    <2>2. PICK s \in Jobs \X (1 .. MaxLoops) : s[2] <= loops[s[1]]
      BY <2>1 DEF SendingIn
    <2>3. s[1] \in Jobs /\ s[2] \in 1 .. MaxLoops /\ loops[s[1]] \in 0 .. MaxLoops
      BY <2>2 DEF TypeOK
    <2>4. loops[s[1]] > 0
      BY <2>2, <2>3, JobsAssumption
    <2>. QED
      BY <2>3, <2>4 DEF CloseHasWork
  <1>3. CASE refs.invokers # 0
    <2>1. LivingIn(job) # {}
      BY <1>3, FS_EmptySet DEF Counted
    <2>2. PICK k \in Jobs : job[k].state \in {"invoking", "closing", "invoked"}
      BY <2>1 DEF LivingIn
    <2>3. job[k].state = "closing"
      BY <2>2 DEF Found
    <2>4. calling[k].state \in {"running", "returned", "threw"}
      BY <2>3, CallsAssumption DEF StillHeld, WorkInv, WorkTypeOK
    <2>5. ware[k][1] = "running" => WareMoves(k)
      BY LastMoves, CallsAssumption, StepsAssumption DEF Running, Positions
    <2>. QED
      BY <2>3, <2>4, <2>5 DEF CloseHasWork, IsOver
  <1>. QED
    BY <1>1, <1>2, <1>3

\* While InvokeHandler.close() waits for its references, one of them is held by
\* a send, a handler or a ware that can go on, however many there are, or by a
\* handler that threw what no ErrorPacket can encode.
THEOREM CloseHasWorkAlways == ProviderSpec => []CloseHasWork
  <1>1. ProviderInit => StillHeld
    BY DEF ProviderInit, Init, StillHeld
  <1>2. ProviderSpec => []StillHeld
    BY <1>1, StillHeldKept, ProviderInvAlways, PTL DEF ProviderSpec
  <1>3. ProviderInv /\ StillHeld => CloseHasWork
    BY HeldIsWork
  <1>. QED
    BY <1>2, <1>3, ProviderInvAlways, PTL
=============================================================================
