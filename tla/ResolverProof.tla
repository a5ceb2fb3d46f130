--------------------------- MODULE ResolverProof ---------------------------
(***************************************************************************)
(* Proofs about Resolver for any names, jigsaws, calls and bounds: what a  *)
(* caller is given is never empty; what the cache holds of a purged jigsaw *)
(* came from an answer that was asked for before its notification; and     *)
(* unless a query was dropped, the references close() waits for are the    *)
(* queries and requests that are not over, so that none is when it is.     *)
(***************************************************************************)
EXTENDS Resolver, SequenceLemmas, FiniteSetTheorems

Calling == [state : {"none", "awaiting", "returned", "threw"}, path : RegPaths,
            query : 0 .. MaxQueries, jigsaws : SUBSET Jigsaws]
Querying == [state : {"none", "asking", "sleeping", "resolved", "rejected"}, over : BOOLEAN,
             path : RegPaths, tries : 0 .. MaxTries, answer : Answer]
Cached == [state : {"none", "valid", "expired"}, answer : Answer]

\* The part of the types that the proofs need.
Typed ==
    /\ call \in [Calls -> Calling]
    /\ query \in [Queries -> Querying]
    /\ cache \in [RegPaths -> Cached]
    /\ purged \subseteq Jigsaws
    /\ queryings \in Seq(Queries)

\* An entry of queryings is a query that is not over, and the only one for its
\* name.
EntriesRun ==
    /\ \A i \in DOMAIN queryings :
         query[queryings[i]].state # "none" /\ ~query[queryings[i]].over
    /\ \A i, k \in DOMAIN queryings :
         query[queryings[i]].path = query[queryings[k]].path => i = k

Awaited(q) == \E c \in Calls : call[c].state = "awaiting" /\ call[c].query = q

\* Whoever waits for a query waits for one that was made.
AwaitsQuery ==
    \A c \in Calls : call[c].state = "awaiting" =>
      call[c].query \in Queries /\ query[call[c].query].state # "none"

\* The answer of a query that may still reach the cache is not empty, and
\* names a purged jigsaw only as a late one.
AnswersSound ==
    \A q \in Queries :
      query[q].state = "resolved" =>
        /\ query[q].answer.jigsaws # {}
        /\ ~query[q].over \/ Awaited(q) =>
             query[q].answer.jigsaws \cap purged \subseteq query[q].answer.late

CacheSound ==
    /\ \A p \in RegPaths : cache[p].state # "none" => cache[p].answer.jigsaws # {}
    /\ StaleOnlyIfLate

Inv == /\ Typed /\ EntriesRun /\ AwaitsQuery
       /\ AnswersSound /\ CacheSound /\ AnswersUsable

-----------------------------------------------------------------------------
(* Lemmas *)

\* Where the elements stem from when the head is dropped.
LEMMA TailStems ==
    ASSUME NEW S, NEW s \in Seq(S), s # <<>>
    PROVE  /\ Tail(s) \in Seq(S)
           /\ \A k \in DOMAIN Tail(s) : k + 1 \in DOMAIN s /\ Tail(s)[k] = s[k + 1]
  OBVIOUS

\* Where they stem from when one is added.
LEMMA AppendStems ==
    ASSUME NEW S, NEW s \in Seq(S), NEW e \in S
    PROVE  /\ Append(s, e) \in Seq(S)
           /\ \A k \in DOMAIN Append(s, e) :
                \/ k \in DOMAIN s /\ Append(s, e)[k] = s[k]
                \/ k = Len(s) + 1 /\ Append(s, e)[k] = e
  OBVIOUS
-----------------------------------------------------------------------------
\* The invariant holds at first.
LEMMA InitInv == ASSUME Init PROVE Inv
<1>1. AnyPath \in RegPaths  BY PathsAssumption DEF AnyPath
<1>2. Nothing \in Answer  BY DEF Nothing, Answer
<1>3. Typed
  BY <1>1, <1>2, BoundsAssumption DEF Init, Typed, Calling, Querying, Cached, NoEntry, Queries
<1> QED
  BY <1>3 DEF Init, Inv, EntriesRun, AwaitsQuery, AnswersSound, CacheSound, StaleOnlyIfLate,
              AnswersUsable, Nothing, NoEntry

-----------------------------------------------------------------------------
(* Every action keeps it *)

\* A call that is answered from the cache.
LEMMA ResolveCachedKeeps ==
    ASSUME Inv, NEW c \in Calls, NEW p \in RegPaths, ResolveCached(c, p)
    PROVE  Inv'
<1> USE DEF ResolveCached
<1>1. Typed'
  BY BoundsAssumption DEF Inv, Typed, Calling, Cached, Answer
<1>2. (EntriesRun /\ CacheSound)'
  BY DEF Inv, EntriesRun, CacheSound, StaleOnlyIfLate
<1>3. (AwaitsQuery /\ AnswersSound)'
  BY DEF Inv, Typed, AwaitsQuery, AnswersSound, Awaited
<1>4. AnswersUsable'
  BY DEF Inv, Typed, CacheSound, AnswersUsable
<1> QED
  BY <1>1, <1>2, <1>3, <1>4 DEF Inv

\* A call that joins a running query awaits one that is not over.
LEMMA JoinKeeps ==
    ASSUME Inv, NEW c \in Calls, NEW p \in RegPaths, Join(c, p)
    PROVE  Inv'
<1>1. PICK i \in DOMAIN queryings :
        call' = [call EXCEPT ![c] = [state |-> "awaiting", path |-> p,
                                     query |-> queryings[i], jigsaws |-> {}]]
  BY DEF Join, Running
<1>2. queryings[i] \in Queries
  BY DEF Inv, Typed
<1>3. query[queryings[i]].state # "none" /\ ~query[queryings[i]].over
  BY DEF Inv, EntriesRun
<1> USE DEF Join
<1>4. Typed'
  BY <1>1, <1>2 DEF Inv, Typed, Calling, Cached, Queries, NoEntry, Nothing, Answer
<1>5. EntriesRun'
  BY DEF Inv, EntriesRun
<1>6. AwaitsQuery'
  BY <1>1, <1>2, <1>3 DEF Inv, Typed, AwaitsQuery
<1>7. AnswersSound'
  BY <1>1, <1>2, <1>3 DEF Inv, Typed, AnswersSound, Awaited
<1>8. CacheSound'
  BY DEF Inv, Typed, CacheSound, StaleOnlyIfLate, NoEntry, Nothing
<1>9. AnswersUsable'
  BY <1>1 DEF Inv, Typed, AnswersUsable
<1> QED
  BY <1>4, <1>5, <1>6, <1>7, <1>8, <1>9 DEF Inv

\* A new query's entry is the only one for its name, the map full or not.
LEMMA StartQueryKeeps ==
    ASSUME Inv, NEW c \in Calls, NEW p \in RegPaths, NEW q \in Queries, StartQuery(c, p, q)
    PROVE  Inv'
<1> DEFINE kept == IF Len(queryings) >= Capacity THEN Tail(queryings) ELSE queryings
<1>1. queryings' = Append(kept, q)
  BY DEF StartQuery, SetQuerying
<1>2. /\ kept \in Seq(Queries)
      /\ \A k \in DOMAIN kept : \E i \in DOMAIN queryings : kept[k] = queryings[i]
      /\ \A k, l \in DOMAIN kept :
           query[kept[k]].path = query[kept[l]].path => k = l
  <2>1. CASE Len(queryings) >= Capacity
    <3>1. queryings \in Seq(Queries) /\ queryings # <<>> /\ kept = Tail(queryings)
      BY <2>1, CapacityAssumption DEF Inv, Typed
    <3>2. /\ kept \in Seq(Queries)
          /\ \A k \in DOMAIN kept : k + 1 \in DOMAIN queryings /\ kept[k] = queryings[k + 1]
          /\ \A k \in DOMAIN kept : k \in Nat
      BY <3>1, TailStems
    <3> HIDE DEF kept
    <3>3. ASSUME NEW k \in DOMAIN kept, NEW l \in DOMAIN kept,
                 query[kept[k]].path = query[kept[l]].path
          PROVE  k = l
      <4>1. k + 1 = l + 1
        BY <3>2, <3>3 DEF Inv, EntriesRun
      <4> QED
        BY <3>2, <4>1
    <3> QED
      BY <3>2, <3>3
  <2>2. CASE ~(Len(queryings) >= Capacity)
    BY <2>2 DEF Inv, Typed, EntriesRun
  <2> QED
    BY <2>1, <2>2
<1> HIDE DEF kept
<1>3. /\ queryings' \in Seq(Queries)
      /\ \A k \in DOMAIN queryings' :
           \/ k \in DOMAIN kept /\ queryings'[k] = kept[k]
           \/ k = Len(kept) + 1 /\ queryings'[k] = q
  BY <1>1, <1>2, AppendStems
<1>4. /\ query[q].state = "none"
      /\ query' = [query EXCEPT ![q] = [state |-> "asking", over |-> FALSE, path |-> p,
                                        tries |-> 1, answer |-> Nothing]]
      /\ call' = [call EXCEPT ![c] = [state |-> "awaiting", path |-> p, query |-> q,
                                      jigsaws |-> {}]]
      /\ cache' = [cache EXCEPT ![p] = NoEntry]
      /\ purged' = purged
      /\ \A i \in DOMAIN queryings : query[queryings[i]].path # p
  BY DEF StartQuery, MayQuery, Running
<1>5. /\ query \in [Queries -> Querying] /\ call \in [Calls -> Calling]
      /\ cache \in [RegPaths -> Cached]
  BY DEF Inv, Typed
<1>6. \A k \in DOMAIN kept :
        /\ kept[k] \in Queries
        /\ query[kept[k]].state # "none" /\ ~query[kept[k]].over
        /\ query[kept[k]].path # p
  BY <1>2, <1>4 DEF Inv, Typed, EntriesRun
<1>7. Typed'
  <2>1. query' \in [Queries -> Querying]
    BY <1>4, <1>5, BoundsAssumption DEF Querying, Nothing, Answer
  <2>2. call' \in [Calls -> Calling]
    BY <1>4, <1>5 DEF Calling, Queries
  <2>3. cache' \in [RegPaths -> Cached]
    BY <1>4, <1>5 DEF Cached, NoEntry, Nothing, Answer
  <2> QED
    BY <1>3, <1>4, <2>1, <2>2, <2>3 DEF Inv, Typed
<1>8. EntriesRun'
  <2>1. \A k \in DOMAIN kept : query'[kept[k]] = query[kept[k]]
    BY <1>4, <1>5, <1>6
  <2>2. query'[q].state = "asking" /\ ~query'[q].over /\ query'[q].path = p
    BY <1>4, <1>5
  <2>3. \A k \in DOMAIN queryings' :
          query'[queryings'[k]].state # "none" /\ ~query'[queryings'[k]].over
    BY <1>3, <1>6, <2>1, <2>2
  <2>4. ASSUME NEW k \in DOMAIN queryings', NEW l \in DOMAIN queryings',
               query'[queryings'[k]].path = query'[queryings'[l]].path
        PROVE  k = l
    BY <1>2, <1>3, <1>6, <2>1, <2>2, <2>4
  <2> QED
    BY <2>3, <2>4 DEF EntriesRun
<1>9. AwaitsQuery'
  BY <1>4, <1>5 DEF Inv, AwaitsQuery
<1>10. AnswersSound'
  BY <1>4, <1>5 DEF Inv, AnswersSound, Awaited
<1>11. CacheSound'
  BY <1>4, <1>5 DEF Inv, CacheSound, StaleOnlyIfLate, NoEntry, Nothing
<1>12. AnswersUsable'
  BY <1>4, <1>5 DEF Inv, AnswersUsable
<1> QED
  BY <1>7, <1>8, <1>9, <1>10, <1>11, <1>12 DEF Inv
\* A reply that settles a query is usable, and late about what it names of the
\* purged jigsaws.
LEMMA ReplyKeeps ==
    ASSUME Inv, NEW q \in Queries, NEW jigsaws \in SUBSET Jigsaws, Reply(q, jigsaws)
    PROVE  Inv'
<1> USE DEF Reply
<1>1. query[q] \in Querying
  BY DEF Inv, Typed
<1>2. Typed'
  BY <1>1 DEF Inv, Typed, Querying, Answer
<1>3. EntriesRun'
  BY DEF Inv, Typed, EntriesRun
<1>4. AwaitsQuery'
  BY DEF Inv, Typed, AwaitsQuery
<1>5. AnswersSound'
  BY <1>1 DEF Inv, Typed, AnswersSound, Awaited, Usable, Querying, Answer
<1>6. (CacheSound /\ AnswersUsable)'
  BY DEF Inv, CacheSound, StaleOnlyIfLate, AnswersUsable
<1> QED
  BY <1>2, <1>3, <1>4, <1>5, <1>6 DEF Inv

\* A request that fails has no answer.
LEMMA FailsKeeps ==
    ASSUME Inv, NEW q \in Queries, Fails(q)
    PROVE  Inv'
<1>1. PICK state \in {"sleeping", "rejected"} : query' = [query EXCEPT ![q].state = state]
  BY DEF Fails
<1> USE DEF Fails
<1>2. Typed'
  BY <1>1 DEF Inv, Typed, Querying
<1>3. (EntriesRun /\ AwaitsQuery)'
  BY <1>1 DEF Inv, Typed, EntriesRun, AwaitsQuery
<1>4. AnswersSound'
  BY <1>1 DEF Inv, Typed, AnswersSound, Awaited
<1>5. (CacheSound /\ AnswersUsable)'
  BY DEF Inv, CacheSound, StaleOnlyIfLate, AnswersUsable
<1> QED
  BY <1>2, <1>3, <1>4, <1>5 DEF Inv

\* The next round begins without an answer.
LEMMA WakeKeeps ==
    ASSUME Inv, NEW q \in Queries, Wake(q)
    PROVE  Inv'
<1>1. query[q] \in Querying /\ query \in [Queries -> Querying]
  BY DEF Inv, Typed
<1>2. CASE query[q].tries < MaxTries
  <2>1. query' = [query EXCEPT ![q].state = "asking", ![q].tries = @ + 1, ![q].answer = Nothing]
    BY <1>2 DEF Wake
  <2> USE DEF Wake
  <2>2. Typed'
    <3>1. query[q].tries + 1 \in 0 .. MaxTries
      BY <1>1, <1>2, BoundsAssumption DEF Querying
    <3> QED
      BY <1>1, <2>1, <3>1 DEF Inv, Typed, Querying, Nothing, Answer
  <2>3. (EntriesRun /\ AwaitsQuery)'
    BY <1>1, <2>1 DEF Inv, Typed, EntriesRun, AwaitsQuery
  <2>4. AnswersSound'
    BY <1>1, <2>1 DEF Inv, AnswersSound, Awaited
  <2>5. (CacheSound /\ AnswersUsable)'
    BY DEF Inv, CacheSound, StaleOnlyIfLate, AnswersUsable
  <2> QED
    BY <2>2, <2>3, <2>4, <2>5 DEF Inv
<1>3. CASE ~(query[q].tries < MaxTries)
  <2>1. query' = [query EXCEPT ![q].state = "rejected"]
    BY <1>3 DEF Wake
  <2> USE DEF Wake
  <2>2. Typed'
    BY <2>1 DEF Inv, Typed, Querying
  <2>3. (EntriesRun /\ AwaitsQuery)'
    BY <1>1, <2>1 DEF Inv, Typed, EntriesRun, AwaitsQuery
  <2>4. AnswersSound'
    BY <1>1, <2>1 DEF Inv, AnswersSound, Awaited
  <2>5. (CacheSound /\ AnswersUsable)'
    BY DEF Inv, CacheSound, StaleOnlyIfLate, AnswersUsable
  <2> QED
    BY <2>2, <2>3, <2>4, <2>5 DEF Inv
<1> QED
  BY <1>2, <1>3

\* The finally: the entry it takes out is its own, or it finds none.
LEMMA FinallyKeeps ==
    ASSUME Inv, NEW q \in Queries, Finally(q)
    PROVE  Inv'
<1>1. /\ query' = [query EXCEPT ![q].over = TRUE]
      /\ UNCHANGED <<call, cache, purged>>
  BY DEF Finally
<1>2. query \in [Queries -> Querying] /\ queryings \in Seq(Queries)
  BY DEF Inv, Typed
<1>3. \A o \in Queries : /\ query'[o].path = query[o].path /\ query'[o].state = query[o].state
                         /\ query'[o].answer = query[o].answer
                         /\ o # q => query'[o] = query[o]
  BY <1>1, <1>2
<1>4. queryings' \in Seq(Queries) /\ EntriesRun'
  <2>1. CASE \E i \in Running(query[q].path) : queryings' = RemoveAt(queryings, i)
    <3>1. PICK i \in DOMAIN queryings :
            query[queryings[i]].path = query[q].path /\ queryings' = RemoveAt(queryings, i)
      BY <2>1 DEF Running
    <3>2. queryings' \in Seq(Queries)
      BY <1>2, <3>1, RemoveAtShifts
    <3>3. PICK from \in [DOMAIN queryings' -> DOMAIN queryings \ {i}] :
            /\ \A k \in DOMAIN queryings' : queryings'[k] = queryings[from[k]]
            /\ \A k, l \in DOMAIN queryings' : from[k] = from[l] => k = l
      BY <1>2, <3>1, RemoveAtStems
    <3>4. ASSUME NEW k \in DOMAIN queryings'
          PROVE  /\ queryings'[k] \in Queries /\ queryings'[k] # q
                 /\ query'[queryings'[k]].state # "none" /\ ~query'[queryings'[k]].over
      <4>1. from[k] \in DOMAIN queryings /\ from[k] # i
        BY <3>3
      <4>2. queryings'[k] = queryings[from[k]]
        BY <3>3
      <4> QED
        BY <1>2, <1>3, <3>1, <4>1, <4>2 DEF Inv, EntriesRun
    <3>5. ASSUME NEW k \in DOMAIN queryings', NEW l \in DOMAIN queryings',
                 query'[queryings'[k]].path = query'[queryings'[l]].path
          PROVE  k = l
      <4>1. from[k] \in DOMAIN queryings /\ from[l] \in DOMAIN queryings
        BY <3>3
      <4>2. from[k] = from[l]
        BY <1>3, <3>3, <3>4, <3>5, <4>1 DEF Inv, EntriesRun
      <4> QED
        BY <3>3, <4>2
    <3> QED
      BY <3>2, <3>4, <3>5 DEF EntriesRun
  <2>2. CASE Running(query[q].path) = {} /\ queryings' = queryings
    <3>1. \A i \in DOMAIN queryings : queryings[i] \in Queries /\ queryings[i] # q
      BY <1>2, <2>2 DEF Running
    <3> QED
      BY <1>2, <1>3, <2>2, <3>1 DEF Inv, EntriesRun
  <2> QED
    BY <2>1, <2>2 DEF Finally
<1>5. Typed'
  BY <1>1, <1>4 DEF Inv, Typed, Querying
<1>6. AwaitsQuery'
  BY <1>1, <1>3 DEF Inv, AwaitsQuery
<1>7. AnswersSound'
  BY <1>1, <1>2, <1>3 DEF Inv, AnswersSound, Awaited
<1>8. (CacheSound /\ AnswersUsable)'
  BY <1>1 DEF Inv, CacheSound, StaleOnlyIfLate, AnswersUsable
<1> QED
  BY <1>4, <1>5, <1>6, <1>7, <1>8 DEF Inv
\* A call that goes on with its query's answer, and what it caches.
LEMMA ContinueKeeps ==
    ASSUME Inv, NEW c \in Calls, Continue(c)
    PROVE  Inv'
<1> DEFINE k == call[c]
           q == query[k.query]
<1>1. /\ k.state = "awaiting" /\ k \in Calling /\ k.query \in Queries /\ k.path \in RegPaths
      /\ q \in Querying
  BY DEF Inv, Typed, AwaitsQuery, Calling, Continue
<1>2. UNCHANGED <<query, queryings, purged>>
  BY DEF Continue
<1>3. EntriesRun'
  BY <1>2 DEF Inv, EntriesRun
<1>4. CASE /\ q.state = "resolved"
           /\ call' = [call EXCEPT ![c].state = "returned", ![c].jigsaws = q.answer.jigsaws]
           /\ cache' = IF cache[k.path].state = "none"
                       THEN [cache EXCEPT ![k.path] = [state |-> "valid", answer |-> q.answer]]
                       ELSE cache
  <2>1. /\ q.answer \in Answer /\ q.answer.jigsaws # {}
        /\ q.answer.jigsaws \cap purged \subseteq q.answer.late
    BY <1>1, <1>4 DEF Inv, AnswersSound, Awaited, Querying
  <2>2. Typed'
    BY <1>1, <1>2, <1>4, <2>1 DEF Inv, Typed, Calling, Cached, Answer
  <2>3. (AwaitsQuery /\ AnswersSound)'
    BY <1>1, <1>2, <1>4 DEF Inv, Typed, AwaitsQuery, AnswersSound, Awaited
  <2>4. CacheSound'
    BY <1>1, <1>2, <1>4, <2>1 DEF Inv, Typed, CacheSound, StaleOnlyIfLate
  <2>5. AnswersUsable'
    BY <1>1, <1>4, <2>1 DEF Inv, Typed, AnswersUsable
  <2> QED
    BY <1>3, <2>2, <2>3, <2>4, <2>5 DEF Inv
<1>5. CASE call' = [call EXCEPT ![c].state = "threw"] /\ cache' = cache
  <2>1. Typed'
    BY <1>1, <1>2, <1>5 DEF Inv, Typed, Calling
  <2>2. (AwaitsQuery /\ AnswersSound)'
    BY <1>1, <1>2, <1>5 DEF Inv, Typed, AwaitsQuery, AnswersSound, Awaited
  <2>3. (CacheSound /\ AnswersUsable)'
    BY <1>1, <1>2, <1>5 DEF Inv, Typed, CacheSound, StaleOnlyIfLate, AnswersUsable
  <2> QED
    BY <1>3, <2>1, <2>2, <2>3 DEF Inv
<1> QED
  BY <1>4, <1>5 DEF Continue

-----------------------------------------------------------------------------

\* A notification clears every entry of the cache, and counts as late for
\* every answer still to come from an earlier request.
LEMMA PurgedKeeps ==
    ASSUME Inv, NEW j \in Jigsaws, Purged(j)
    PROVE  Inv'
<1> DEFINE Late(q) == \/ query[q].state \in {"asking", "resolved"} /\ ~query[q].over
                      \/ Awaited(q)
<1>1. /\ UNCHANGED <<call, queryings>>
      /\ purged' = purged \cup {j}
      /\ cache' = [p \in RegPaths |-> Cleared(cache[p], j)]
      /\ query' = [q \in Queries |-> IF Late(q)
                     THEN [query[q] EXCEPT !.answer.late = @ \cup {j}] ELSE query[q]]
  BY DEF Purged, ClearedAll, Awaited
<1>2. /\ query \in [Queries -> Querying] /\ cache \in [RegPaths -> Cached]
      /\ queryings \in Seq(Queries)
  BY DEF Inv, Typed
<1>3. ASSUME NEW q \in Queries
      PROVE  /\ query'[q] \in Querying
             /\ query'[q].state = query[q].state /\ query'[q].over = query[q].over
             /\ query'[q].path = query[q].path
             /\ query'[q].answer.jigsaws = query[q].answer.jigsaws
             /\ query'[q].answer.late =
                  IF Late(q) THEN query[q].answer.late \cup {j} ELSE query[q].answer.late
  <2>1. query[q] \in Querying
    BY <1>2
  <2> HIDE DEF Late
  <2> QED
    BY <1>1, <2>1 DEF Querying, Answer
<1>4. ASSUME NEW p \in RegPaths
      PROVE  /\ cache'[p] \in Cached
             /\ cache'[p].state # "none" => cache'[p].answer.jigsaws # {}
             /\ cache'[p].answer.jigsaws \cap purged' \subseteq cache'[p].answer.late
  <2>1. /\ cache[p] \in Cached
        /\ cache[p].answer.jigsaws \cap purged \subseteq cache[p].answer.late
    BY <1>2 DEF Inv, CacheSound, StaleOnlyIfLate
  <2>2. CASE cache[p].answer.jigsaws \subseteq {j}
    BY <1>1, <2>2 DEF Cleared, NoEntry, Nothing, Cached, Answer
  <2>3. CASE ~(cache[p].answer.jigsaws \subseteq {j})
    <3>1. cache'[p] = [cache[p] EXCEPT !.answer.jigsaws = cache[p].answer.jigsaws \ {j}]
      BY <1>1, <2>3 DEF Cleared
    <3>2. /\ cache'[p] \in Cached /\ cache'[p].answer.late = cache[p].answer.late
          /\ cache'[p].answer.jigsaws = cache[p].answer.jigsaws \ {j}
      BY <2>1, <3>1 DEF Cached, Answer
    <3> QED
      BY <1>1, <2>1, <2>3, <3>2
  <2> QED
    BY <2>2, <2>3
<1>5. Typed'
  <2>1. query' \in [Queries -> Querying]
    BY <1>1, <1>3
  <2>2. cache' \in [RegPaths -> Cached]
    BY <1>1, <1>4
  <2> QED
    BY <1>1, <2>1, <2>2 DEF Inv, Typed
<1> HIDE DEF Late
<1>6. EntriesRun'
  BY <1>1, <1>2, <1>3 DEF Inv, EntriesRun
<1>7. AwaitsQuery'
  BY <1>1, <1>3 DEF Inv, AwaitsQuery
<1>8. AnswersSound'
  <2> SUFFICES ASSUME NEW q \in Queries, query'[q].state = "resolved"
               PROVE  /\ query'[q].answer.jigsaws # {}
                      /\ ~query'[q].over \/ Awaited(q)' =>
                           query'[q].answer.jigsaws \cap purged' \subseteq query'[q].answer.late
    BY DEF AnswersSound
  <2>1. Awaited(q)' <=> Awaited(q)
    BY <1>1 DEF Awaited
  <2> QED
    BY <1>1, <1>3, <2>1 DEF Inv, AnswersSound, Late
<1>9. CacheSound'
  BY <1>4 DEF CacheSound, StaleOnlyIfLate
<1>10. AnswersUsable'
  BY <1>1 DEF Inv, AnswersUsable
<1> QED
  BY <1>5, <1>6, <1>7, <1>8, <1>9, <1>10 DEF Inv

\* An entry that expires or is dropped.
LEMMA CacheAgesKeeps ==
    ASSUME Inv, NEW p \in RegPaths, CacheAges(p)
    PROVE  Inv'
<1>1. UNCHANGED <<call, query, queryings, purged>> /\ cache \in [RegPaths -> Cached]
  BY DEF CacheAges, tasks, Inv, Typed
<1>2. \E e \in Cached : /\ cache' = [cache EXCEPT ![p] = e]
                        /\ \/ e = NoEntry
                           \/ cache[p].state # "none" /\ e.answer = cache[p].answer
  <2>1. CASE cache' = [cache EXCEPT ![p] = NoEntry]
    BY <2>1 DEF NoEntry, Nothing, Cached, Answer
  <2>2. CASE cache' = [cache EXCEPT ![p].state = "expired"]
    <3>1. [cache[p] EXCEPT !.state = "expired"] \in Cached
      BY <1>1 DEF Cached
    <3> QED
      BY <1>1, <2>2, <3>1 DEF CacheAges, Cached
  <2> QED
    BY <2>1, <2>2 DEF CacheAges
<1>3. Typed'
  BY <1>1, <1>2 DEF Inv, Typed
<1>4. (EntriesRun /\ AwaitsQuery /\ AnswersSound /\ AnswersUsable)'
  BY <1>1 DEF Inv, EntriesRun, AwaitsQuery, AnswersSound, Awaited, AnswersUsable
<1>5. CacheSound'
  BY <1>1, <1>2 DEF Inv, CacheSound, StaleOnlyIfLate, NoEntry, Nothing
<1> QED
  BY <1>3, <1>4, <1>5 DEF Inv

\* The count of references and the steps of close() do not matter here.
LEMMA OthersKeep ==
    ASSUME Inv, UNCHANGED <<call, query, queryings, cache, purged>>
    PROVE  Inv'
  BY DEF Inv, Typed, EntriesRun, AwaitsQuery, AnswersSound, Awaited, CacheSound,
         StaleOnlyIfLate, AnswersUsable

\* Every step keeps the invariant.
LEMMA NextKeeps == ASSUME Inv, [Next]_vars PROVE Inv'
<1>1. CASE \E c \in Calls : ResolveAny(c)
  BY <1>1, ResolveCachedKeeps, JoinKeeps, StartQueryKeeps DEF ResolveAny
<1>2. CASE \E c \in Calls : Continue(c)
  BY <1>2, ContinueKeeps
<1>3. CASE \E q \in Queries : Asks(q)
  BY <1>3, ReplyKeeps, FailsKeeps DEF Asks
<1>4. CASE \E q \in Queries : Wake(q) \/ Finally(q)
  BY <1>4, WakeKeeps, FinallyKeeps
<1>5. CASE \E j \in Jigsaws : Purged(j)
  BY <1>5, PurgedKeeps
<1>6. CASE \E p \in RegPaths : CacheAges(p)
  BY <1>6, CacheAgesKeeps
<1>7. CASE RequestClosed \/ Close \/ Await \/ Closed \/ UNCHANGED vars
  BY <1>7, OthersKeep DEF RequestClosed, Close, Await, Closed, vars, tasks
<1> QED
  BY <1>1, <1>2, <1>3, <1>4, <1>5, <1>6, <1>7 DEF Next

-----------------------------------------------------------------------------
(* The theorems *)

\* The invariant holds in every reachable state.
THEOREM InvAlways == Spec => []Inv
  BY InitInv, NextKeeps, PTL DEF Spec

\* What resolveAny gives its callers is never empty: no emptied answer stays
\* in the cache and no empty reply of the registry settles a query.
THEOREM AnswersUsableAlways == Spec => []AnswersUsable
<1>1. Inv => AnswersUsable  BY DEF Inv
<1> QED  BY <1>1, InvAlways, PTL

\* A purged jigsaw stays in the cache only by an answer asked for before its
\* notification came, for any number of queries, dropped ones included.
THEOREM StaleOnlyIfLateAlways == Spec => []StaleOnlyIfLate
<1>1. Inv => StaleOnlyIfLate  BY DEF Inv, CacheSound
<1> QED  BY <1>1, InvAlways, PTL

-----------------------------------------------------------------------------
(* The count of references: one for each entry of queryings, each request    *)
(* that waits for its answer and each that is not closed yet.  No query but  *)
(* a dropped one runs without an entry.                                      *)
Live   == {q \in Queries : query[q].state # "none" /\ ~query[q].over}
Asking == {q \in Queries : query[q].state = "asking"}

Entered == \A q \in Live : \E i \in DOMAIN queryings : queryings[i] = q

Counted ==
    /\ life \in {"ready", "closing", "waiting", "closed"}
    /\ settled \in BOOLEAN /\ evicted \in BOOLEAN /\ ref \in Nat /\ closing \in Nat
    /\ Len(queryings) <= Capacity
    /\ Len(queryings) + Cardinality(Asking) + closing <= ref
    /\ ~evicted => ref = Cardinality(Live) + Cardinality(Asking) + closing /\ Entered
    /\ Asking \subseteq Live /\ \A q \in Queries : query[q].state = "sleeping" => q \in Live
    /\ settled /\ ~evicted => life # "ready" /\ ref = 0
    /\ life = "closed" => settled

LEMMA QueriesFinite ==
    /\ IsFiniteSet(Live) /\ IsFiniteSet(Asking)
    /\ Cardinality(Live) \in Nat /\ Cardinality(Asking) \in Nat
<1>1. IsFiniteSet(Queries)
  BY BoundsAssumption, FS_Interval DEF Queries
<1>2. IsFiniteSet(Live) /\ IsFiniteSet(Asking)
  BY <1>1, FS_Subset DEF Live, Asking
<1> QED
  BY <1>2, FS_CardinalityType

\* No reference, no query and no request
LEMMA NoRefs == ASSUME Counted, ~evicted, ref = 0 PROVE Live = {} /\ closing = 0
<1>1. Cardinality(Live) = 0 /\ closing = 0
  BY QueriesFinite DEF Counted
<1> QED
  BY <1>1, QueriesFinite, FS_EmptySet

LEMMA CountedInit == ASSUME Init PROVE Counted
<1>1. Live = {} /\ Asking = {} /\ queryings = <<>> /\ ref = 0 /\ closing = 0
  BY DEF Init, Live, Asking
<1>2. \A q \in Queries : query[q].state = "none"
  BY DEF Init
<1> QED
  <2>1. Cardinality(Live) = 0 /\ Cardinality(Asking) = 0 /\ Len(queryings) = 0
    BY <1>1, FS_EmptySet
  <2>2. life = "ready" /\ settled = FALSE /\ evicted = FALSE
    BY DEF Init
  <2>3. Entered
    BY <1>1 DEF Entered
  <2>4. /\ Len(queryings) <= Capacity
        /\ Len(queryings) + Cardinality(Asking) + closing <= ref
        /\ ref = Cardinality(Live) + Cardinality(Asking) + closing
    BY <1>1, <2>1, CapacityAssumption
  <2>5. Asking \subseteq Live /\ \A q \in Queries : query[q].state # "sleeping"
    BY <1>1, <1>2
  <2>6. ref \in Nat /\ closing \in Nat
    BY <1>1
  <2> QED
    BY <2>2, <2>3, <2>4, <2>5, <2>6 DEF Counted

\* The query's own reference and its first request's
LEMMA StartQueryCounts ==
    ASSUME Inv, Counted, NEW c \in Calls, NEW p \in RegPaths, NEW q \in Queries,
           StartQuery(c, p, q)
    PROVE  Counted'
<1> DEFINE full == Len(queryings) >= Capacity
           kept == IF full THEN Tail(queryings) ELSE queryings
<1>1. /\ life = "ready" /\ life' = life /\ closing' = closing
      /\ ref' = ref + 2 /\ settled' = settled
      /\ queryings' = Append(kept, q) /\ evicted' = (evicted \/ full)
      /\ query[q].state = "none"
      /\ query' = [query EXCEPT ![q] = [state |-> "asking", over |-> FALSE, path |-> p,
                                        tries |-> 1, answer |-> Nothing]]
  BY DEF StartQuery, SetQuerying, SetRef, Started, Counted
<1>2. /\ queryings \in Seq(Queries) /\ query \in [Queries -> Querying]
  BY DEF Inv, Typed
<1>3. /\ queryings' \in Seq(Queries)
      /\ Len(queryings') <= Capacity /\ Len(queryings') <= Len(queryings) + 1
      /\ Len(queryings') \in Nat
  <2>1. kept \in Seq(Queries) /\ Len(kept) < Capacity /\ Len(kept) <= Len(queryings)
    <3>1. CASE full
      <4>1. queryings # <<>>
        BY <1>2, <3>1, CapacityAssumption
      <4>2. Tail(queryings) \in Seq(Queries) /\ Len(Tail(queryings)) = Len(queryings) - 1
        BY <1>2, <4>1, HeadTailProperties
      <4> QED
        BY <1>2, <3>1, <4>2, CapacityAssumption DEF Counted
    <3>2. CASE ~full
      BY <1>2, <3>2, CapacityAssumption
    <3> QED
      BY <3>1, <3>2
  <2> HIDE DEF kept, full
  <2>2. Len(queryings') = Len(kept) + 1 /\ Len(kept) \in Nat
    BY <1>1, <2>1
  <2> QED
    BY <1>1, <1>2, <2>1, <2>2, CapacityAssumption
<1>4. Live' = Live \cup {q} /\ Asking' = Asking \cup {q} /\ q \notin Live /\ q \notin Asking
  BY <1>1, <1>2 DEF Live, Asking
<1>5. /\ Cardinality(Live') = Cardinality(Live) + 1
      /\ Cardinality(Asking') = Cardinality(Asking) + 1
  BY <1>4, QueriesFinite, FS_AddElement
<1>6. ~evicted' => Entered'
  <2>1. ASSUME ~full, Entered PROVE Entered'
    <3>1. queryings' = Append(queryings, q)
      BY <1>1, <2>1
    <3>2. /\ \A i \in DOMAIN queryings : i \in DOMAIN queryings' /\ queryings'[i] = queryings[i]
          /\ Len(queryings) + 1 \in DOMAIN queryings' /\ queryings'[Len(queryings) + 1] = q
      BY <1>2, <3>1
    <3> QED
      BY <1>4, <2>1, <3>2 DEF Entered
  <2> QED
    BY <1>1, <2>1 DEF Counted
<1>7. \A o \in Queries : query'[o].state = "sleeping" => o \in Live'
  BY <1>1, <1>2, <1>4 DEF Counted
<1>8. Len(queryings') + Cardinality(Asking') + closing' <= ref'
  BY <1>1, <1>2, <1>3, <1>5, QueriesFinite DEF Counted
<1>9. ~evicted' => ref' = Cardinality(Live') + Cardinality(Asking') + closing'
  BY <1>1, <1>5, QueriesFinite DEF Counted
<1> HIDE DEF full
<1> QED
  BY <1>1, <1>3, <1>4, <1>6, <1>7, <1>8, <1>9 DEF Counted

\* A request that is answered or fails is then one that is not closed.
LEMMA AsksCounts ==
    ASSUME Inv, Counted, NEW q \in Queries, Asks(q)
    PROVE  Counted'
<1>1. query[q].state = "asking" /\ closing' = closing + 1
      /\ UNCHANGED <<life, ref, settled, queryings, evicted>>
  BY DEF Asks, Fails, Reply
<1>2. PICK state \in {"sleeping", "rejected", "resolved"} :
        query'[q].state = state /\ query'[q].over = query[q].over
        /\ \A o \in Queries : o # q => query'[o] = query[o]
  <2>1. query \in [Queries -> Querying]
    BY DEF Inv, Typed
  <2>2. CASE Fails(q)
    BY <2>1, <2>2 DEF Fails, Querying
  <2>3. ASSUME NEW jigsaws \in SUBSET Jigsaws, Reply(q, jigsaws)
        PROVE  /\ query'[q].state = "resolved" /\ query'[q].over = query[q].over
               /\ \A o \in Queries : o # q => query'[o] = query[o]
    BY <2>1, <2>3 DEF Reply, Querying
  <2> QED
    BY <2>2, <2>3 DEF Asks
<1>3. q \in Live /\ q \in Asking
  BY <1>1 DEF Counted, Asking
<1>4. Live' = Live /\ Asking' = Asking \ {q}
  BY <1>1, <1>2, <1>3 DEF Live, Asking
<1>5. Cardinality(Asking') = Cardinality(Asking) - 1 /\ Cardinality(Asking) > 0
  BY <1>3, <1>4, QueriesFinite, FS_RemoveElement, FS_EmptySet
<1>6. \A o \in Queries : query'[o].state = "sleeping" => o \in Live'
  BY <1>2, <1>3, <1>4 DEF Counted
<1>7. Len(queryings) \in Nat /\ Len(queryings') = Len(queryings)
  BY <1>1 DEF Inv, Typed
<1>8. /\ Cardinality(Live') = Cardinality(Live)
      /\ Cardinality(Asking') + closing' = Cardinality(Asking) + closing /\ closing' \in Nat
  BY <1>1, <1>4, <1>5, QueriesFinite DEF Counted
<1>9. Entered' <=> Entered
  BY <1>1, <1>4 DEF Entered
<1>10. /\ Len(queryings') + Cardinality(Asking') + closing' <= ref'
       /\ ~evicted => ref' = Cardinality(Live') + Cardinality(Asking') + closing'
  <2>1. /\ closing \in Nat /\ ref \in Nat /\ ref' = ref
        /\ Len(queryings) + Cardinality(Asking) + closing <= ref
        /\ ~evicted => ref = Cardinality(Live) + Cardinality(Asking) + closing
    BY <1>1 DEF Counted
  <2>2. Len(queryings') + (Cardinality(Asking') + closing') <= ref'
    <3>1. Len(queryings) + (Cardinality(Asking) + closing) <= ref
      BY <2>1, <1>7, QueriesFinite
    <3> QED
      BY <3>1, <2>1, <1>7, <1>8
  <2>3. ASSUME ~evicted
        PROVE  ref' = Cardinality(Live') + (Cardinality(Asking') + closing')
    <3>1. ref = Cardinality(Live) + (Cardinality(Asking) + closing)
      BY <2>1, <2>3, QueriesFinite
    <3> QED
      BY <3>1, <2>1, <1>8
  <2>4. Cardinality(Live') \in Nat /\ closing' \in Nat /\ Len(queryings') \in Nat
    BY <1>7, <1>8, QueriesFinite
  <2>5. Cardinality(Asking') \in Nat
    BY <1>5, QueriesFinite
  <2> QED
    BY <2>2, <2>3, <2>4, <2>5
<1> QED
  BY <1>1, <1>4, <1>6, <1>7, <1>8, <1>9, <1>10 DEF Counted

LEMMA WakeCounts ==
    ASSUME Inv, Counted, NEW q \in Queries, Wake(q)
    PROVE  Counted'
<1>1. query[q].state = "sleeping" /\ UNCHANGED <<life, queryings, closing, evicted>>
      /\ query \in [Queries -> Querying] /\ q \in Live
  BY DEF Wake, Inv, Typed, Counted
<1>2. Len(queryings) \in Nat
  BY DEF Inv, Typed
<1>3. CASE query[q].tries < MaxTries
  <2>1. /\ query' = [query EXCEPT ![q].state = "asking", ![q].tries = @ + 1, ![q].answer = Nothing]
        /\ SetRef(ref + 1)
    BY <1>3 DEF Wake
  <2>2. query'[q].state = "asking" /\ query'[q].over = query[q].over
        /\ \A o \in Queries : o # q => query'[o] = query[o]
    BY <1>1, <2>1 DEF Querying
  <2>3. Live' = Live /\ Asking' = Asking \cup {q} /\ q \notin Asking
    BY <1>1, <2>2 DEF Live, Asking
  <2>4. Cardinality(Asking') = Cardinality(Asking) + 1
    BY <2>3, QueriesFinite, FS_AddElement
  <2>5. ref' = ref + 1 /\ settled' = settled
    BY <2>1 DEF SetRef, Counted
  <2>6. ~(settled /\ ~evicted)
    BY <1>1, NoRefs DEF Counted
  <2>7. \A o \in Queries : query'[o].state = "sleeping" => o \in Live'
    BY <2>2, <2>3 DEF Counted
  <2> QED
    <3>1. Entered' <=> Entered
      BY <1>1, <2>3 DEF Entered
    <3>2. /\ ref' \in Nat
          /\ Len(queryings') + Cardinality(Asking') + closing' <= ref'
          /\ ~evicted => ref' = Cardinality(Live') + Cardinality(Asking') + closing'
      <4>1. /\ Cardinality(Live') = Cardinality(Live) /\ closing' = closing
            /\ Len(queryings') = Len(queryings)
        BY <1>1, <2>3
      <4>2. /\ ref \in Nat /\ closing \in Nat
            /\ Len(queryings) + Cardinality(Asking) + closing <= ref
            /\ ~evicted => ref = Cardinality(Live) + Cardinality(Asking) + closing
        BY DEF Counted
      <4> QED
        BY <4>1, <4>2, <1>2, <2>4, <2>5, QueriesFinite
    <3> QED
      BY <1>1, <2>3, <2>5, <2>6, <2>7, <3>1, <3>2 DEF Counted
<1>4. CASE ~(query[q].tries < MaxTries)
  <2>1. query' = [query EXCEPT ![q].state = "rejected"] /\ UNCHANGED <<ref, settled>>
    BY <1>4 DEF Wake
  <2>2. query'[q].state = "rejected" /\ query'[q].over = query[q].over
        /\ \A o \in Queries : o # q => query'[o] = query[o]
    BY <1>1, <2>1 DEF Querying
  <2>3. Live' = Live /\ Asking' = Asking
    BY <1>1, <2>2 DEF Live, Asking
  <2>4. \A o \in Queries : query'[o].state = "sleeping" => o \in Live'
    BY <2>2, <2>3 DEF Counted
  <2> QED
    BY <1>1, <2>1, <2>3, <2>4 DEF Counted, Entered
<1> QED
  BY <1>3, <1>4

\* The finally gives back the reference of a query that has its entry, and
\* without an eviction it has one: no other query can take it out.
LEMMA FinallyCounts ==
    ASSUME Inv, Counted, NEW q \in Queries, Finally(q)
    PROVE  Counted'
<1>1. /\ query[q].state \in {"resolved", "rejected"} /\ ~query[q].over
      /\ query' = [query EXCEPT ![q].over = TRUE]
      /\ UNCHANGED <<life, closing, evicted>>
  BY DEF Finally
<1>2. query \in [Queries -> Querying] /\ queryings \in Seq(Queries) /\ Len(queryings) \in Nat
  BY DEF Inv, Typed
<1>3. query'[q].state = query[q].state /\ query'[q].over
      /\ \A o \in Queries : o # q => query'[o] = query[o]
  BY <1>1, <1>2 DEF Querying
<1>4. Live' = Live \ {q} /\ Asking' = Asking /\ q \in Live
  BY <1>1, <1>3 DEF Live, Asking
<1>5. Cardinality(Live') = Cardinality(Live) - 1
  BY <1>4, QueriesFinite, FS_RemoveElement
<1>6. ~(settled /\ ~evicted)
  BY <1>4, NoRefs DEF Counted
<1>7. /\ \A o \in Queries : query'[o].state = "sleeping" => o \in Live'
      /\ Asking' \subseteq Live'
  BY <1>1, <1>3, <1>4 DEF Counted, Asking
<1>8. ASSUME NEW i \in Running(query[q].path), queryings' = RemoveAt(queryings, i), SetRef(ref - 1)
      PROVE  Counted'
  <2>1. i \in 1 .. Len(queryings) /\ query[queryings[i]].path = query[q].path
    BY <1>2 DEF Running
  <2>2. /\ Len(queryings') = Len(queryings) - 1 /\ DOMAIN queryings' = 1 .. Len(queryings) - 1
        /\ \A j \in 1 .. Len(queryings) - 1 :
             queryings'[j] = IF j < i THEN queryings[j] ELSE queryings[j + 1]
    <3>1. i \in 1 .. Len(queryings) /\ queryings' = RemoveAt(queryings, i)
      BY <1>8, <2>1
    <3>2. queryings \in Seq(Queries)
      BY <1>2
    <3> DEFINE rest == RemoveAt(queryings, i)
    <3>3. /\ Len(rest) = Len(queryings) - 1 /\ DOMAIN rest = 1 .. Len(queryings) - 1
          /\ \A j \in 1 .. Len(queryings) - 1 :
               rest[j] = IF j < i THEN queryings[j] ELSE queryings[j + 1]
      BY <3>1, <3>2, RemoveAtShifts
    <3> QED
      BY <3>1, <3>3
  <2>3. ref' = ref - 1 /\ ref - 1 \in Nat
        /\ settled' = (settled \/ (life \in {"closing", "waiting"} /\ ref' = 0))
    <3>1. /\ ref \in Nat /\ closing \in Nat
          /\ Len(queryings) + Cardinality(Asking) + closing <= ref
      BY DEF Counted
    <3>2. Len(queryings) >= 1
      BY <1>2, <2>1
    <3>3. ref >= 1
      BY <1>2, <3>1, <3>2, QueriesFinite
    <3> QED
      BY <1>8, <3>1, <3>3 DEF SetRef
  <2>4. ASSUME ~evicted PROVE Entered'
    <3>1. ASSUME NEW o \in Live, o # q PROVE \E j \in DOMAIN queryings' : queryings'[j] = o
      <4>1. PICK k \in DOMAIN queryings : queryings[k] = o
        BY <2>4 DEF Counted, Entered
      <4>2. PICK l \in DOMAIN queryings : queryings[l] = q
        BY <1>4, <2>4 DEF Counted, Entered
      <4>3. l = i
        BY <2>1, <4>2, <1>2 DEF Inv, EntriesRun
      <4>4. k # i /\ k \in 1 .. Len(queryings)
        BY <3>1, <4>1, <4>2, <4>3, <1>2
      <4>5. CASE k < i
        <5>1. k \in DOMAIN queryings' /\ queryings'[k] = o
          BY <4>1, <4>4, <4>5, <2>1, <2>2, <1>2
        <5> QED
          BY <5>1
      <4>6. CASE k > i
        <5>1. k - 1 \in DOMAIN queryings' /\ queryings'[k - 1] = o
          BY <4>1, <4>4, <4>6, <2>1, <2>2, <1>2
        <5> QED
          BY <5>1
      <4> QED
        BY <4>4, <4>5, <4>6, <2>1, <1>2
    <3> QED
      BY <1>4, <3>1 DEF Entered
  <2>5. ~evicted => ref' = Cardinality(Live') + Cardinality(Asking') + closing'
    BY <1>1, <1>4, <1>5, <2>3, QueriesFinite DEF Counted
  <2>6. Len(queryings') <= Capacity /\ Len(queryings') + Cardinality(Asking') + closing' <= ref'
    BY <1>1, <1>2, <1>4, <2>2, <2>3, QueriesFinite, CapacityAssumption DEF Counted
  <2> QED
    BY <1>1, <1>6, <1>7, <2>3, <2>4, <2>5, <2>6 DEF Counted
<1>9. ASSUME Running(query[q].path) = {}, UNCHANGED <<queryings, ref, settled>>
      PROVE  Counted'
  <2>1. evicted
    BY <1>2, <1>4, <1>9 DEF Counted, Entered, Running
  <2> QED
    BY <1>1, <1>4, <1>7, <1>9, <2>1 DEF Counted
<1> QED
  BY <1>8, <1>9 DEF Finally

LEMMA RequestClosedCounts ==
    ASSUME Inv, Counted, RequestClosed
    PROVE  Counted'
<1>1. /\ closing > 0 /\ closing' = closing - 1
      /\ ref' = ref - 1 /\ settled' = (settled \/ (life \in {"closing", "waiting"} /\ ref' = 0))
      /\ UNCHANGED <<life, query, queryings, evicted>>
  BY DEF RequestClosed, SetRef
<1>2. Live' = Live /\ Asking' = Asking /\ (Entered' <=> Entered)
  BY <1>1 DEF Live, Asking, Entered
<1>3. Len(queryings) \in Nat
  BY DEF Inv, Typed
<1>4. ~(settled /\ ~evicted)
  BY <1>1, NoRefs DEF Counted
<1> QED
  BY <1>1, <1>2, <1>3, <1>4, QueriesFinite DEF Counted

\* What neither makes nor ends a query or a request, and close().
LEMMA OthersCount ==
    ASSUME Inv, Counted, UNCHANGED <<ref, queryings, closing, evicted>>,
           \A q \in Queries : query'[q].state = query[q].state /\ query'[q].over = query[q].over,
           \/ UNCHANGED <<life, settled>>
           \/ Close \/ Await \/ Closed
    PROVE  Counted'
<1>1. Live' = Live /\ Asking' = Asking /\ (Entered' <=> Entered)
  BY DEF Live, Asking, Entered
<1> QED
  <2>1. \A q \in Queries : query'[q].state = "sleeping" => q \in Live'
    BY <1>1 DEF Counted
  <2>2. CASE UNCHANGED <<life, settled>>
    BY <1>1, <2>1, <2>2 DEF Counted
  <2>3. CASE Close
    BY <1>1, <2>1, <2>3 DEF Counted, Close
  <2>4. CASE Await
    BY <1>1, <2>1, <2>4 DEF Counted, Await, SetRef
  <2>5. CASE Closed
    BY <1>1, <2>1, <2>5 DEF Counted, Closed
  <2> QED
    BY <2>2, <2>3, <2>4, <2>5

LEMMA NextCounts == ASSUME Inv, Counted, [Next]_vars PROVE Counted'
<1>1. ASSUME NEW c \in Calls, NEW p \in RegPaths, NEW q \in Queries, StartQuery(c, p, q)
      PROVE  Counted'
  BY <1>1, StartQueryCounts
<1>2. ASSUME NEW c \in Calls, NEW p \in RegPaths, ResolveCached(c, p) \/ Join(c, p)
      PROVE  Counted'
  BY <1>2, OthersCount DEF ResolveCached, Join
<1>3. ASSUME NEW c \in Calls, Continue(c) PROVE Counted'
  BY <1>3, OthersCount DEF Continue
<1>4. ASSUME NEW q \in Queries, Asks(q) \/ Wake(q) \/ Finally(q) PROVE Counted'
  BY <1>4, AsksCounts, WakeCounts, FinallyCounts
<1>5. ASSUME NEW j \in Jigsaws, Purged(j) PROVE Counted'
  <2>1. \A q \in Queries : query'[q].state = query[q].state /\ query'[q].over = query[q].over
    BY <1>5 DEF Purged, Inv, Typed, Querying
  <2> QED
    BY <1>5, <2>1, OthersCount DEF Purged
<1>6. ASSUME NEW p \in RegPaths, CacheAges(p) PROVE Counted'
  BY <1>6, OthersCount DEF CacheAges, tasks
<1>7. CASE RequestClosed
  BY <1>7, RequestClosedCounts
<1>8. CASE Close \/ Await \/ Closed
  <2>1. UNCHANGED <<ref, queryings, closing, evicted, query>>
    BY <1>8 DEF Close, Await, Closed, SetRef, tasks
  <2> QED
    BY <1>8, <2>1, OthersCount
<1>9. CASE UNCHANGED vars
  BY <1>9, OthersCount DEF vars, tasks
<1> QED
  BY <1>1, <1>2, <1>3, <1>4, <1>5, <1>6, <1>7, <1>8, <1>9 DEF Next, ResolveAny

LEMMA CountedAlways == Spec => []Counted
  BY InitInv, NextKeeps, CountedInit, NextCounts, PTL DEF Spec

\* The references and the map stay within their bounds: no count below 0, no
\* map above its size (AsyncReference.ts, LimitedMap.ts).
THEOREM TypeCorrect == Spec => []TypeOK
<1>1. Inv /\ Counted => TypeOK
  BY DEF Inv, Typed, Counted, TypeOK, Calling, Querying, Cached
<1> QED
  BY <1>1, InvAlways, CountedAlways, PTL

\* The count is exact as long as no running query was dropped from queryings.
THEOREM RefsCountAlways == Spec => []RefsCount
<1>1. Counted => RefsCount
  BY DEF Counted, RefsCount, Live, Asking
<1> QED
  BY <1>1, CountedAlways, PTL

\* close() returns when no query runs any more and every request is closed
\* (RegistryResolver.ts, close()).
THEOREM QuietWhenClosedAlways == Spec => []QuietWhenClosed
<1>1. ASSUME Inv, Counted PROVE QuietWhenClosed
  <2> SUFFICES ASSUME life = "closed", ~evicted
               PROVE  closing = 0 /\ \A q \in Queries : query[q].state \in {"none", "resolved", "rejected"}
    BY DEF QuietWhenClosed
  <2>1. Live = {} /\ closing = 0
    BY <1>1, NoRefs DEF Counted
  <2>2. \A q \in Queries : query[q].state \notin {"asking", "sleeping"}
    BY <1>1, <2>1 DEF Counted, Asking
  <2> QED
    BY <1>1, <2>1, <2>2 DEF Inv, Typed, Querying
<1> QED
  BY <1>1, InvAlways, CountedAlways, PTL

-----------------------------------------------------------------------------
(* What close() waits for *)

\* close() has looked at the count since it was last changed.
Told == life = "waiting" /\ ref = 0 => settled

\* While close() waits, a query or a request can go on, or close() itself,
\* unless a query was dropped.
CloseHasWork ==
    life = "waiting" /\ ~evicted =>
      \/ settled \/ closing > 0
      \/ \E q \in Queries :
           \/ query[q].state \in {"asking", "sleeping"}
           \/ query[q].state \in {"resolved", "rejected"} /\ ~query[q].over

LEMMA ToldKept == Told /\ [Next]_vars => Told'
<1> SUFFICES ASSUME Told, [Next]_vars PROVE Told'
  OBVIOUS
<1>1. ASSUME NEW n, SetRef(n), life' = "waiting" => life \in {"closing", "waiting"} PROVE Told'
  BY <1>1 DEF SetRef, Told
<1>2. CASE UNCHANGED <<life, ref, settled>>
  BY <1>2 DEF Told
<1>3. CASE RequestClosed \/ Await
  BY <1>1, <1>3 DEF RequestClosed, Await
<1>4. ASSUME NEW q \in Queries, Wake(q) \/ Finally(q) PROVE Told'
  BY <1>1, <1>2, <1>4 DEF Wake, Finally
<1>5. ASSUME NEW c \in Calls, NEW p \in RegPaths, NEW q \in Queries, StartQuery(c, p, q)
      PROVE  Told'
  BY <1>1, <1>5 DEF StartQuery
<1>6. CASE Close \/ Closed
  BY <1>6 DEF Close, Closed, Told
<1> QED
  BY <1>2, <1>3, <1>4, <1>5, <1>6
  DEF Next, ResolveAny, ResolveCached, Join, Continue, Asks, Reply, Fails, Purged, CacheAges, vars

\* RegistryResolver.close() never waits for references that have been given back:
\* a query, its sleep, its finally or a request has still to end, however many
\* there were.
THEOREM CloseHasWorkAlways == Spec => []CloseHasWork
<1>1. Init => Told
  BY DEF Init, Told
<1>2. Spec => []Told
  BY <1>1, ToldKept, PTL DEF Spec
<1>3. ASSUME Inv, Counted, Told PROVE CloseHasWork
  <2> SUFFICES ASSUME life = "waiting", ~evicted, ~settled, ~(closing > 0),
                      \A q \in Queries : ~(query[q].state \in {"resolved", "rejected"} /\ ~query[q].over)
               PROVE  \E q \in Queries : query[q].state \in {"asking", "sleeping"}
    BY DEF CloseHasWork
  <2>1. ref # 0 /\ closing = 0
    BY <1>3 DEF Told, Counted
  <2>2. Live # {} \/ Asking # {}
    BY <1>3, <2>1, QueriesFinite, FS_EmptySet DEF Counted
  <2>3. CASE Asking # {}
    BY <2>3 DEF Asking
  <2>4. CASE Live # {}
    BY <1>3, <2>4 DEF Live, Inv, Typed, Querying
  <2> QED
    BY <2>2, <2>3, <2>4
<1> QED
  BY <1>2, <1>3, InvAlways, CountedAlways, PTL
=============================================================================
