--------------------------- MODULE RegistryProof ---------------------------
(***************************************************************************)
(* Proofs about the registry: the bounded map under its recent clients, a  *)
(* jigsaw's registration with it, and its tree of names and notification   *)
(* loops; for every size of the map, number of packets under way, set of   *)
(* jigsaws and choice of their names.                                      *)
(***************************************************************************)
EXTENDS LimitedMap, RegistryUpdater, Registry, SequenceLemmas

-----------------------------------------------------------------------------
(* LimitedMap: the array of keys and the hash                              *)

\* Removing one position of an injective sequence removes exactly that element.
LEMMA RemoveAtInjective ==
    ASSUME NEW S, NEW s \in Seq(S), NEW i \in 1 .. Len(s), IsInjective(s)
    PROVE  /\ IsInjective(RemoveAt(s, i))
           /\ Range(RemoveAt(s, i)) = Range(s) \ {s[i]}
<1> DEFINE r == RemoveAt(s, i)
<1>1. /\ r \in Seq(S)
      /\ Len(r) = Len(s) - 1
      /\ \A j \in 1 .. Len(s) - 1 : r[j] = IF j < i THEN s[j] ELSE s[j + 1]
  BY RemoveAtShifts
<1>2. DOMAIN s = 1 .. Len(s) /\ DOMAIN r = 1 .. Len(s) - 1
  BY <1>1
<1> HIDE DEF r
<1>3. IsInjective(r)
  <2> SUFFICES ASSUME NEW m \in 1 .. Len(s) - 1, NEW n \in 1 .. Len(s) - 1,
                      r[m] = r[n]
               PROVE  m = n
    BY <1>2, Zenon DEF IsInjective
  <2> DEFINE at(x) == IF x < i THEN x ELSE x + 1
  <2>1. at(m) \in 1 .. Len(s) /\ at(n) \in 1 .. Len(s)
    OBVIOUS
  <2>2. s[at(m)] = s[at(n)]
    BY <1>1
  <2>3. at(m) = at(n)
    BY <1>2, <2>1, <2>2, Zenon DEF IsInjective
  <2> QED
    BY <2>3
<1>4. ASSUME NEW j \in 1 .. Len(s), j # i
      PROVE  \E m \in 1 .. Len(s) - 1 : r[m] = s[j]
  <2>1. CASE j < i
    BY <1>1, <2>1
  <2>2. CASE j > i
    <3>1. j - 1 \in 1 .. Len(s) - 1 /\ ~(j - 1 < i) /\ (j - 1) + 1 = j
      BY <2>2
    <3> QED
      BY <1>1, <3>1
  <2> QED
    BY <1>4, <2>1, <2>2
<1>5. ASSUME NEW m \in 1 .. Len(s) - 1
      PROVE  \E j \in 1 .. Len(s) : j # i /\ r[m] = s[j]
  BY <1>1
<1>6. \A j \in 1 .. Len(s) : j # i => s[j] # s[i]
  BY <1>2, Zenon DEF IsInjective
<1>7. Range(r) = Range(s) \ {s[i]}
  <2>1. ASSUME NEW y \in Range(r)  PROVE y \in Range(s) \ {s[i]}
    BY <1>2, <1>5, <1>6, <2>1 DEF Range
  <2>2. ASSUME NEW y \in Range(s) \ {s[i]}  PROVE y \in Range(r)
    BY <1>2, <1>4, <2>2 DEF Range
  <2> QED
    BY <2>1, <2>2, Zenon
<1> QED
  BY <1>3, <1>7 DEF r

-----------------------------------------------------------------------------
\* What the data obeys on its own, in the middle of a sweep too; with the
\* types of gc and sweep it is the inductive invariant.
DataInv ==
    /\ keys \in Seq(Keys)
    /\ map \in [DOMAIN map -> Value] /\ DOMAIN map \subseteq Keys
    /\ newer \in [DOMAIN map -> SUBSET Keys]
    /\ Consistent
    /\ InsertionOrder

MapInv == MapTypeOK /\ Consistent /\ InsertionOrder

LEMMA DropKeepsDataInv ==
    ASSUME DataInv, NEW i \in 1 .. Len(keys), Drop(i)
    PROVE  DataInv'
<1>1. /\ keys \in Seq(Keys) /\ IsInjective(keys) /\ Range(keys) = DOMAIN map
      /\ Len(keys) \in Nat /\ DOMAIN keys = 1 .. Len(keys) /\ Len(keys) <= MaxSize
  BY LenProperties DEF DataInv, Consistent
<1> DEFINE rest == DOMAIN map \ {keys[i]}
<1>2. keys' = RemoveAt(keys, i) /\ map' = Restrict(map, rest) /\ newer' = Restrict(newer, rest)
  BY DEF Drop
<1>3. /\ keys' \in Seq(Keys)
      /\ Len(keys') = Len(keys) - 1
      /\ \A j \in 1 .. Len(keys) - 1 :
           keys'[j] = IF j < i THEN keys[j] ELSE keys[j + 1]
  BY <1>1, <1>2, RemoveAtShifts
<1>4. IsInjective(keys') /\ Range(keys') = rest
  BY <1>1, <1>2, RemoveAtInjective
<1>5. map' = [x \in rest |-> map[x]] /\ newer' = [x \in rest |-> newer[x]]
  BY <1>2 DEF Restrict
<1>6. DOMAIN map' = rest /\ map' \in [rest -> Value] /\ newer' \in [rest -> SUBSET Keys]
  BY <1>5 DEF DataInv
<1>7. Consistent'
  BY <1>1, <1>3, <1>4, <1>6, MaxSizeAssumption DEF Consistent
<1>8. InsertionOrder'
  <2> SUFFICES ASSUME NEW m \in 1 .. Len(keys) - 1, NEW n \in 1 .. Len(keys) - 1, m < n
               PROVE  keys'[n] \in newer'[keys'[m]]
    BY <1>3, Zenon, LenProperties DEF InsertionOrder
  <2> DEFINE at(x) == IF x < i THEN x ELSE x + 1
  <2>1. /\ at(m) \in 1 .. Len(keys) /\ at(n) \in 1 .. Len(keys) /\ at(m) < at(n)
        /\ keys'[m] = keys[at(m)] /\ keys'[n] = keys[at(n)]
    <3>1. m \in Nat /\ n \in Nat /\ i \in Nat /\ Len(keys) \in Nat /\ m >= 1 /\ n <= Len(keys) - 1
      BY <1>1
    <3>2. keys'[m] = keys[at(m)] /\ keys'[n] = keys[at(n)]
      BY <1>3
    <3>3. at(m) \in 1 .. Len(keys) /\ at(n) \in 1 .. Len(keys) /\ at(m) < at(n)
      BY <3>1
    <3> QED
      BY <3>2, <3>3
  <2>2. keys[at(n)] \in newer[keys[at(m)]]
    BY <1>1, <2>1, LenProperties, Zenon DEF DataInv, InsertionOrder
  <2>3. keys'[m] \in rest
    <3>1. m \in DOMAIN keys'
      BY <1>3, LenProperties
    <3> QED
      BY <1>4, <3>1 DEF Range
  <2> QED
    BY <1>5, <2>1, <2>2, <2>3
<1> QED
  BY <1>3, <1>6, <1>7, <1>8 DEF DataInv

LEMMA StoreKeepsDataInv ==
    ASSUME DataInv, NEW k \in Keys, NEW v \in Vals, Store(k, v)
    PROVE  DataInv'
<1>0. /\ keys \in Seq(Keys) /\ IsInjective(keys) /\ Range(keys) = DOMAIN map
      /\ Len(keys) \in Nat /\ DOMAIN keys = 1 .. Len(keys) /\ Len(keys) <= MaxSize
  BY LenProperties DEF DataInv, Consistent
<1>1. [val |-> v, age |-> 0] \in Value
  BY TtlAssumption DEF Value
<1>2. CASE k \in DOMAIN map
  <2>1. keys' = keys /\ newer' = newer
    BY <1>2 DEF Store
  <2>2. DOMAIN map' = DOMAIN map /\ map' \in [DOMAIN map -> Value]
    BY <1>1, <1>2 DEF Store, DataInv
  <2> QED
    BY <2>1, <2>2 DEF DataInv, Consistent, InsertionOrder
<1>3. CASE k \notin DOMAIN map
  <2> DEFINE full == Len(keys) >= MaxSize
             kept == IF full THEN Tail(keys) ELSE keys
             rest == IF full THEN DOMAIN map \ {keys[1]} ELSE DOMAIN map
             off  == IF full THEN 1 ELSE 0
  <2>1. /\ keys' = Append(kept, k)
        /\ map' = [x \in rest \cup {k} |->
                      IF x = k THEN [val |-> v, age |-> 0] ELSE map[x]]
        /\ newer' = [x \in rest \cup {k} |->
                      IF x = k THEN {} ELSE newer[x] \cup {k}]
    BY <1>3 DEF Store
  <2>2. /\ full => Len(keys) >= 1
        /\ off \in {0, 1} /\ (off = 1 <=> full)
    BY <1>0, MaxSizeAssumption
  <2>3. /\ kept \in Seq(Keys) /\ Len(kept) = Len(keys) - off /\ Len(kept) < MaxSize
        /\ \A j \in 1 .. Len(kept) : kept[j] = keys[j + off]
    BY <1>0, <2>2, MaxSizeAssumption
  <2> HIDE DEF kept, off
  <2>4. /\ keys' \in Seq(Keys) /\ Len(keys') = Len(kept) + 1
        /\ \A j \in 1 .. Len(kept) : keys'[j] = kept[j]
        /\ keys'[Len(kept) + 1] = k
    BY <2>1, <2>3
  <2>5. /\ Len(kept) \in Nat
        /\ DOMAIN kept = 1 .. Len(kept) /\ DOMAIN keys' = 1 .. Len(kept) + 1
    BY <2>3, <2>4, LenProperties
  <2>6. \A j \in 1 .. Len(kept) : /\ j + off \in 1 .. Len(keys)
                                  /\ kept[j] = keys[j + off]
    BY <1>0, <2>2, <2>3
  <2>7. \A j \in 1 .. Len(keys) : j - off \in 1 .. Len(kept) \/ (full /\ j = 1)
    BY <1>0, <2>2, <2>3
  <2>8. Range(kept) = rest
    <3>1. ASSUME NEW j \in 1 .. Len(kept)  PROVE kept[j] \in rest
      <4>1. kept[j] \in DOMAIN map
        BY <1>0, <2>6 DEF Range
      <4>2. full => keys[j + 1] # keys[1]
        <5> SUFFICES ASSUME full PROVE keys[j + 1] # keys[1]
          OBVIOUS
        <5>1. j + 1 \in 1 .. Len(keys) /\ 1 \in 1 .. Len(keys) /\ j + 1 # 1
          BY <2>6, <2>2, <1>0
        <5> QED
          BY <1>0, <5>1 DEF IsInjective
      <4> QED
        BY <4>1, <4>2, <2>2, <2>6
    <3>2. ASSUME NEW y \in rest  PROVE \E j \in 1 .. Len(kept) : kept[j] = y
      <4>1. PICK n \in 1 .. Len(keys) : keys[n] = y
        BY <1>0 DEF Range
      <4>2. n - off \in 1 .. Len(kept)
        BY <2>7, <4>1
      <4>3. kept[n - off] = keys[n]
        BY <2>2, <2>6, <4>2
      <4> QED
        BY <4>1, <4>2, <4>3
    <3> QED
      BY <3>1, <3>2, <2>5 DEF Range
  <2>9. k \notin Range(kept)
    BY <1>3, <2>8
  <2>10. IsInjective(kept)
    <3> SUFFICES ASSUME NEW m \in 1 .. Len(kept), NEW n \in 1 .. Len(kept), kept[m] = kept[n]
                 PROVE  m = n
      BY <2>5, Zenon DEF IsInjective
    <3>1. m + off = n + off
      BY <1>0, <2>6, Zenon DEF IsInjective
    <3> QED
      BY <3>1, <2>2, <2>5
  <2>11. IsInjective(keys') /\ Range(keys') = rest \cup {k}
    <3>1. \A j \in 1 .. Len(kept) : keys'[j] # k
      BY <2>4, <2>5, <2>9 DEF Range
    <3>2. IsInjective(keys')
      <4> SUFFICES ASSUME NEW m \in 1 .. Len(kept) + 1, NEW n \in 1 .. Len(kept) + 1,
                          keys'[m] = keys'[n]
                   PROVE  m = n
        BY <2>5, Zenon DEF IsInjective
      <4>1. \/ m = Len(kept) + 1 /\ n = Len(kept) + 1
            \/ m \in 1 .. Len(kept) /\ n \in 1 .. Len(kept)
        BY <2>4, <2>5, <3>1
      <4> QED
        BY <4>1, <2>4, <2>5, <2>10, Zenon DEF IsInjective
    <3>3. Range(keys') = rest \cup {k}
      <4>1. ASSUME NEW j \in 1 .. Len(kept) + 1  PROVE keys'[j] \in rest \cup {k}
        <5>1. j \in 1 .. Len(kept) \/ j = Len(kept) + 1
          BY <2>5
        <5> QED
          BY <5>1, <2>4, <2>5, <2>8 DEF Range
      <4>2. ASSUME NEW y \in rest \cup {k}  PROVE \E j \in 1 .. Len(kept) + 1 : keys'[j] = y
        <5>1. CASE y = k
          BY <5>1, <2>4, <2>5
        <5>2. CASE y \in rest
          <6>1. PICK j \in 1 .. Len(kept) : kept[j] = y
            BY <5>2, <2>5, <2>8 DEF Range
          <6>2. j \in 1 .. Len(kept) + 1
            BY <2>5
          <6> QED
            BY <6>1, <6>2, <2>4
        <5> QED
          BY <5>1, <5>2
      <4>3. Range(keys') \subseteq rest \cup {k}
        BY <4>1, <2>5, Zenon DEF Range
      <4>4. rest \cup {k} \subseteq Range(keys')
        BY <4>2, <2>5, Zenon DEF Range
      <4> QED
        BY <4>3, <4>4, Zenon
    <3> QED
      BY <3>2, <3>3
  <2>12. /\ DOMAIN map' = rest \cup {k} /\ map' \in [rest \cup {k} -> Value]
         /\ newer' \in [rest \cup {k} -> SUBSET Keys]
    <3>1. rest \subseteq DOMAIN map
      OBVIOUS
    <3> QED
      BY <1>1, <2>1, <3>1 DEF DataInv
  <2>13. Consistent'
    BY <2>3, <2>4, <2>5, <2>11, <2>12, MaxSizeAssumption DEF Consistent
  <2>14. InsertionOrder'
    <3> SUFFICES ASSUME NEW m \in 1 .. Len(kept) + 1, NEW n \in 1 .. Len(kept) + 1, m < n
                 PROVE  keys'[n] \in newer'[keys'[m]]
      BY <2>5, Zenon DEF InsertionOrder
    <3>1. m \in 1 .. Len(kept) /\ keys'[m] = kept[m] /\ kept[m] \in rest /\ kept[m] # k
      BY <2>4, <2>5, <2>8, <2>9 DEF Range
    <3>2. newer'[keys'[m]] = newer[kept[m]] \cup {k}
      BY <3>1, <2>1
    <3>3. CASE n = Len(kept) + 1
      BY <3>2, <3>3, <2>4
    <3>4. CASE n \in 1 .. Len(kept)
      <4>1. /\ m + off \in 1 .. Len(keys) /\ n + off \in 1 .. Len(keys) /\ m + off < n + off
            /\ kept[m] = keys[m + off] /\ kept[n] = keys[n + off]
        BY <3>1, <3>4, <2>2, <2>5, <2>6
      <4>2. keys[n + off] \in newer[keys[m + off]]
        BY <1>0, <4>1, Zenon DEF DataInv, InsertionOrder
      <4> QED
        BY <3>2, <3>4, <4>1, <4>2, <2>4
    <3> QED
      BY <3>3, <3>4, <2>5
  <2> QED
    BY <2>4, <2>12, <2>13, <2>14 DEF DataInv
<1> QED
  BY <1>2, <1>3

-----------------------------------------------------------------------------
LEMMA MapInvSplit ==
    MapInv <=> /\ DataInv
               /\ gc \in 0 .. GcLimit + 1
               /\ \/ sweep = Idle
                  \/ sweep \in [at : Nat \ {0}, removed : Nat, key : Keys, val : Vals]
  BY DEF MapInv, MapTypeOK, DataInv

LEMMA InitMapInv == MapInit => MapInv
<1> SUFFICES ASSUME MapInit PROVE MapInv
  OBVIOUS
<1>1. keys = <<>> /\ map = <<>> /\ newer = <<>> /\ gc = 0 /\ sweep = Idle
  BY DEF MapInit
<1>2. DOMAIN map = {} /\ DOMAIN keys = {} /\ Len(keys) = 0 /\ keys \in Seq(Keys)
  BY <1>1
<1>3. map \in [{} -> Value] /\ newer \in [{} -> SUBSET Keys]
  BY <1>1
<1> QED
  BY <1>1, <1>2, <1>3, MaxSizeAssumption, GcLimitAssumption
  DEF MapInv, MapTypeOK, Consistent, InsertionOrder, IsInjective, Range

LEMMA NextMapInv == MapInv /\ [MapNext]_mapVars => MapInv'
<1> SUFFICES ASSUME MapInv, [MapNext]_mapVars PROVE MapInv'
  OBVIOUS
<1> USE GcLimitAssumption, TtlAssumption
<1>0. /\ DataInv
      /\ gc \in 0 .. GcLimit + 1
      /\ \/ sweep = Idle
         \/ sweep \in [at : Nat \ {0}, removed : Nat, key : Keys, val : Vals]
  BY MapInvSplit
<1>1. ASSUME NEW k \in Keys, NEW v \in Vals, Set(k, v)  PROVE MapInv'
  <2>1. DataInv'
    BY <1>0, <1>1, StoreKeepsDataInv DEF Set
  <2>2. gc' \in 0 .. GcLimit + 1 /\ sweep' = Idle
    BY <1>0, <1>1 DEF Set
  <2> QED
    BY <2>1, <2>2 DEF MapInv, MapTypeOK, DataInv, Idle
<1>2. ASSUME NEW k \in Keys, NEW v \in Vals, SetWithGc(k, v)  PROVE MapInv'
  BY <1>0, <1>2 DEF SetWithGc, MapInv, MapTypeOK, Consistent, InsertionOrder
<1>3. CASE Sweep
  <2>1. sweep \in [at : Nat \ {0}, removed : Nat, key : Keys, val : Vals] /\ sweep.at \in 1 .. Len(keys)
    BY <1>0, <1>3 DEF Sweep, DataInv
  <2>2. /\ gc' = gc
        /\ sweep' \in [at : Nat \ {0}, removed : Nat, key : Keys, val : Vals]
    <3>1. /\ gc' = gc
          /\ \/ sweep' = [sweep EXCEPT !.at = @ + 1, !.removed = @ + 1]
             \/ sweep' = [sweep EXCEPT !.at = @ + 1]
      BY <1>3, Zenon DEF Sweep
    <3>2. sweep.at + 1 \in Nat \ {0} /\ sweep.removed + 1 \in Nat
      BY <2>1
    <3>3. sweep = [at |-> sweep.at, removed |-> sweep.removed,
                   key |-> sweep.key, val |-> sweep.val]
      BY <2>1
    <3>4. \E r \in {sweep.removed, sweep.removed + 1} :
            sweep' = [at |-> sweep.at + 1, removed |-> r, key |-> sweep.key, val |-> sweep.val]
      BY <3>1, <3>3
    <3> QED
      BY <2>1, <3>1, <3>2, <3>4
  <2>3. CASE isExpired(keys[sweep.at])
    <3>1. DataInv'
      BY <1>0, <1>3, <2>1, <2>3, DropKeepsDataInv DEF Sweep
    <3> QED
      BY <1>0, <2>2, <3>1 DEF MapInv, MapTypeOK, DataInv
  <2>4. CASE ~isExpired(keys[sweep.at])
    BY <1>0, <1>3, <2>2, <2>4 DEF Sweep, MapInv, MapTypeOK, Consistent, InsertionOrder, DataInv
  <2> QED
    BY <2>3, <2>4
<1>4. CASE SweepEnd
  <2>1. sweep.key \in Keys /\ sweep.val \in Vals
    BY <1>0, <1>4 DEF SweepEnd
  <2>2. DataInv'
    BY <1>0, <1>4, <2>1, StoreKeepsDataInv DEF SweepEnd
  <2> QED
    BY <1>0, <1>4, <2>2 DEF SweepEnd, MapInv, MapTypeOK, DataInv
<1>5. ASSUME NEW k \in Keys, Delete(k)  PROVE MapInv'
  <2>1. \E i \in 1 .. Len(keys) : keys[i] = k
    BY <1>0, <1>5, LenProperties DEF Delete, DataInv, Consistent, Range
  <2>2. Position(k) \in 1 .. Len(keys)
    BY <2>1 DEF Position
  <2>3. DataInv'
    BY <1>0, <1>5, <2>2, DropKeepsDataInv DEF Delete
  <2> QED
    BY <1>0, <1>5, <2>3 DEF Delete, MapInv, MapTypeOK, DataInv
<1>6. CASE Tick
  <2>1. keys' = keys /\ newer' = newer /\ gc' = gc /\ sweep' = sweep
    BY <1>6 DEF Tick
  <2>2. DOMAIN map' = DOMAIN map /\ map' \in [DOMAIN map -> Value]
    <3>1. \A k \in DOMAIN map :
            [map[k] EXCEPT !.age = IF @ > Ttl THEN @ ELSE @ + 1] \in Value
      BY <1>0 DEF DataInv, Value
    <3> QED
      BY <1>6, <3>1 DEF Tick
  <2> QED
    BY <1>0, <2>1, <2>2 DEF MapInv, MapTypeOK, DataInv, Consistent, InsertionOrder
<1>7. CASE UNCHANGED mapVars
  BY <1>7 DEF mapVars, MapInv, MapTypeOK, Consistent, InsertionOrder
<1> QED
  BY <1>1, <1>2, <1>3, <1>4, <1>5, <1>6, <1>7 DEF MapNext

\* The array of keys and the hash agree, each key once and never more than
\* maxsize of them, in every state of every call (LimitedMap.ts set, delete,
\* doGcCollect).
THEOREM ConsistentAlways == MapSpec => []Consistent
<1>1. MapInv => Consistent
  BY DEF MapInv
<1> QED
  BY <1>1, InitMapInv, NextMapInv, PTL DEF MapSpec

\* Every variable keeps its type: entries age within 0 .. Ttl+1, the GC
\* counter within 0 .. GcLimit+1.
THEOREM MapTypes == MapSpec => []MapTypeOK
<1>1. MapInv => MapTypeOK
  BY DEF MapInv
<1> QED
  BY <1>1, InitMapInv, NextMapInv, PTL DEF MapSpec

\* keys[0], the one an insertion into a full map evicts, is always the key
\* inserted first: all the others were inserted after it.
THEOREM InsertionOrderAlways == MapSpec => []InsertionOrder
<1>1. MapInv => InsertionOrder
  BY DEF MapInv
<1> QED
  BY <1>1, InitMapInv, NextMapInv, PTL DEF MapSpec

\* What a sweep has passed over and not removed, though it had expired.
Missed == {i \in DOMAIN keys : i < sweep.at /\ isExpired(keys[i])}

\* With the types it is inductive: times stand still while a sweep runs.
LEMMA SweepStep == ASSUME MapInv, SweepHalves, [MapNext]_mapVars PROVE SweepHalves'
<1> USE DEF MapInv
<1>1. CASE Sweep
  <2>1. keys \in Seq(Keys) /\ Len(keys) \in Nat /\ DOMAIN keys = 1 .. Len(keys)
    BY LenProperties DEF MapTypeOK
  <2>2. /\ sweep \in [at : Nat \ {0}, removed : Nat, key : Keys, val : Vals]
        /\ sweep # Idle /\ sweep.at \in Nat \ {0} /\ sweep.removed \in Nat
        /\ sweep.at <= Len(keys) /\ sweep.at \in 1 .. Len(keys)
    BY <1>1, <2>1 DEF Sweep, MapTypeOK
  <2>3. IsFiniteSet(Missed) /\ Cardinality(Missed) \in Nat /\ Cardinality(Missed) <= sweep.removed
    <3>1. IsFiniteSet(DOMAIN keys)
      <4>1. 1 \in Int /\ Len(keys) \in Int
        BY <2>1
      <4>2. IsFiniteSet(1 .. Len(keys))
        BY <4>1, FS_Interval, Zenon
      <4> QED
        BY <2>1, <4>2
    <3>2. Missed \in SUBSET DOMAIN keys
      BY DEF Missed
    <3>3. IsFiniteSet(Missed) /\ Cardinality(Missed) \in Nat
      BY <3>1, <3>2, FS_Subset, FS_CardinalityType
    <3> QED
      BY <2>2, <3>3 DEF SweepHalves, Missed
  <2>4. CASE isExpired(keys[sweep.at])
    <3>1. /\ Drop(sweep.at)
          /\ sweep' = [sweep EXCEPT !.at = @ + 1, !.removed = @ + 1]
      BY <1>1, <2>4 DEF Sweep
    <3>2. sweep'.at = sweep.at + 1 /\ sweep'.removed = sweep.removed + 1
      BY <2>2, <3>1
    <3>3. /\ DOMAIN keys' = 1 .. Len(keys) - 1
          /\ \A j \in 1 .. Len(keys) - 1 : keys'[j] = IF j < sweep.at THEN keys[j] ELSE keys[j + 1]
      <4>1. /\ keys' \in Seq(Keys) /\ Len(keys') = Len(keys) - 1
            /\ \A j \in 1 .. Len(keys) - 1 : keys'[j] = IF j < sweep.at THEN keys[j] ELSE keys[j + 1]
        BY <2>1, <2>2, <3>1, RemoveAtShifts DEF Drop
      <4> QED
        BY <4>1, LenProperties
    <3>4. Missed' \subseteq Missed \cup {sweep.at}
      <4> SUFFICES ASSUME NEW i \in Missed', i # sweep.at PROVE i \in Missed
        OBVIOUS
      <4>1. i \in DOMAIN keys' /\ i < sweep'.at /\ isExpired(keys[i])'
        BY DEF Missed
      <4>2. i \in 1 .. Len(keys) - 1 /\ i < sweep.at /\ i \in DOMAIN keys
        BY <2>1, <2>2, <3>2, <3>3, <4>1
      <4>3. keys'[i] = keys[i]
        BY <3>3, <4>2
      <4>4. keys[i] # keys[sweep.at]
        BY <2>1, <2>2, <4>2, Zenon DEF Consistent, IsInjective
      <4>5. keys[i] \in DOMAIN map \ {keys[sweep.at]}
        BY <4>2, <4>4 DEF Consistent, Range
      <4>6. map'[keys[i]] = map[keys[i]]
        BY <3>1, <4>5 DEF Drop, Restrict
      <4>7. isExpired(keys[i])
        BY <4>1, <4>3, <4>6 DEF isExpired
      <4> QED
        BY <4>2, <4>7 DEF Missed
    <3>5. Cardinality(Missed') <= sweep.removed + 1
      <4> DEFINE most == Missed \cup {sweep.at}
      <4>1. IsFiniteSet(most) /\ Cardinality(most) <= Cardinality(Missed) + 1 /\ Cardinality(most) \in Nat
        BY <2>3, FS_AddElement, FS_CardinalityType
      <4>2. Missed' \in SUBSET most
        BY <3>4
      <4> HIDE DEF most
      <4>3. Cardinality(Missed') <= Cardinality(most) /\ IsFiniteSet(Missed')
        BY <4>1, <4>2, FS_Subset
      <4>4. Cardinality(Missed') \in Nat
        BY <4>3, FS_CardinalityType
      <4> QED
        BY <2>2, <2>3, <4>1, <4>3, <4>4
    <3> QED
      BY <3>2, <3>5 DEF SweepHalves, Missed
  <2>5. CASE ~isExpired(keys[sweep.at])
    <3>1. keys' = keys /\ map' = map /\ sweep' = [sweep EXCEPT !.at = @ + 1]
      BY <1>1, <2>5 DEF Sweep
    <3>2. sweep'.at = sweep.at + 1 /\ sweep'.removed = sweep.removed
      BY <2>2, <3>1
    <3>3. \A i \in DOMAIN keys : i < sweep'.at /\ isExpired(keys[i]) => i < sweep.at
      BY <2>1, <2>2, <2>5, <3>2
    <3>4. \A i \in DOMAIN keys : i < sweep.at => i < sweep'.at
      BY <2>1, <2>2, <3>2
    <3>5. \A i \in DOMAIN keys : isExpired(keys[i])' <=> isExpired(keys[i])
      BY <3>1 DEF isExpired
    <3>6. Missed' = Missed
      BY <3>1, <3>3, <3>4, <3>5 DEF Missed
    <3> QED
      BY <2>3, <3>2, <3>6 DEF SweepHalves, Missed
  <2> QED
    BY <2>4, <2>5
<1>2. ASSUME NEW k \in Keys, NEW v \in Vals, SetWithGc(k, v) PROVE SweepHalves'
  <2>1. sweep'.at = 1 /\ sweep'.removed = 0 /\ DOMAIN keys' = 1 .. Len(keys) /\ Len(keys) \in Nat
    BY <1>2, LenProperties DEF SetWithGc, MapTypeOK
  <2>2. Missed' = {}
    BY <2>1 DEF Missed
  <2>3. Cardinality(Missed') = 0
    BY <2>2, FS_EmptySet
  <2> QED
    BY <2>1, <2>3 DEF SweepHalves, Missed
<1>3. CASE sweep' = Idle
  BY <1>3 DEF SweepHalves
<1>4. CASE UNCHANGED mapVars
  BY <1>4 DEF mapVars, SweepHalves, isExpired
<1> QED
  BY <1>1, <1>2, <1>3, <1>4 DEF MapNext, Set, SweepEnd, Delete, Tick

\* doGcCollect misses no more expired entries than it removes: a deletion hides
\* one neighbour from its cursor, and no more.
THEOREM SweepHalvesAlways == MapSpec => []SweepHalves
<1>1. MapInit => SweepHalves
  BY DEF MapInit, SweepHalves
<1>2. MapInv /\ SweepHalves /\ [MapNext]_mapVars => SweepHalves'
  BY SweepStep
<1> QED
  BY <1>1, <1>2, InitMapInv, NextMapInv, PTL DEF MapSpec

\* set() drops no entry but the oldest of a full map.
LEMMA StoreDrops ==
    ASSUME MapInv, NEW k \in Keys, NEW v \in Vals, Store(k, v),
           NEW gone \in DOMAIN map \ DOMAIN map'
    PROVE  \E x \in DOMAIN map' : /\ x \notin DOMAIN map
                                  /\ Cardinality(DOMAIN map') = MaxSize
                                  /\ DOMAIN map' \subseteq newer[gone] \cup {x}
<1> USE DEF MapInv
<1>1. /\ keys \in Seq(Keys) /\ IsInjective(keys) /\ Range(keys) = DOMAIN map
      /\ Len(keys) \in Nat /\ DOMAIN keys = 1 .. Len(keys) /\ Len(keys) <= MaxSize
      /\ MaxSize \in Nat \ {0}
  BY LenProperties, MaxSizeAssumption DEF MapTypeOK, Consistent
<1>2. k \notin DOMAIN map
  BY DEF Store
<1>3. Len(keys) \in Nat /\ MaxSize \in Nat \ {0} /\ Len(keys) <= MaxSize
  BY <1>1, Zenon
<1>4. CASE Len(keys) >= MaxSize
  <2> DEFINE rest == DOMAIN map \ {keys[1]}
  <2>1. DOMAIN map' = rest \cup {k}
    BY <1>2, <1>4 DEF Store
  <2>2. gone = keys[1] /\ 1 \in DOMAIN keys /\ Len(keys) = MaxSize
    <3>1. gone = keys[1]
      BY <2>1, Zenon
    <3>2. Len(keys) = MaxSize
      BY <1>3, <1>4
    <3>3. 1 \in 1 .. Len(keys)
      BY <1>3, <3>2
    <3> QED
      BY <1>1, <3>1, <3>2, <3>3, Zenon
  <2>3. rest \subseteq newer[gone]
    <3> SUFFICES ASSUME NEW y \in rest PROVE y \in newer[keys[1]]
      BY <2>2
    <3>1. PICK j \in DOMAIN keys : keys[j] = y
      BY <1>1 DEF Range
    <3>2. 1 < j
      BY <1>1, <3>1
    <3> QED
      BY <2>2, <3>1, <3>2, Zenon DEF InsertionOrder
  <2>4. IsFiniteSet(DOMAIN map) /\ Cardinality(DOMAIN map) = MaxSize
    BY <1>1, <2>2, InjectiveCardinality
  <2>5. keys[1] \in DOMAIN map
    BY <2>2
  <2>6. IsFiniteSet(rest) /\ Cardinality(rest) = MaxSize - 1 /\ k \notin rest
    BY <1>2, <2>4, <2>5, FS_RemoveElement
  <2> HIDE DEF rest
  <2>7. Cardinality(rest \cup {k}) = MaxSize
    <3>1. Cardinality(rest \cup {k}) = Cardinality(rest) + 1
      BY <2>6, FS_AddElement
    <3> QED
      BY <1>1, <2>6, <3>1
  <2> QED
    BY <1>2, <2>1, <2>3, <2>7
<1>5. CASE ~(Len(keys) >= MaxSize)
  <2>1. DOMAIN map' = DOMAIN map \cup {k}
    BY <1>2, <1>5 DEF Store
  <2> QED
    BY <2>1
<1> QED
  BY <1>4, <1>5

\* A fresh entry leaves by its owner's delete(), or pushed out by maxsize keys
\* set after it: never by the sweep, and never while a younger one stays.
THEOREM FreshLeavesAlways == MapSpec => FreshLeavesByOwnerOrEviction
<1> DEFINE A ==
      \A k \in DOMAIN map \ DOMAIN map' :
          \/ isExpired(k)
          \/ \E x \in DOMAIN map' : x \notin DOMAIN map
                /\ Cardinality(DOMAIN map') = MaxSize
                /\ DOMAIN map' \subseteq newer[k] \cup {x}
          \/ sweep = Idle /\ sweep' = Idle /\ gc' = gc
<1>1. ASSUME MapInv, [MapNext]_mapVars PROVE A
  <2>1. ASSUME NEW k \in Keys, NEW v \in Vals, Store(k, v) PROVE A
    BY <1>1, <2>1, StoreDrops
  <2>2. CASE Sweep
    <3>1. CASE isExpired(keys[sweep.at])
      <4>1. DOMAIN map' = DOMAIN map \ {keys[sweep.at]}
        BY <2>2, <3>1 DEF Sweep, Drop, Restrict
      <4> QED
        BY <3>1, <4>1
    <3>2. CASE ~isExpired(keys[sweep.at])
      BY <2>2, <3>2 DEF Sweep
    <3> QED
      BY <3>1, <3>2
  <2>3. CASE SweepEnd
    <3>1. sweep.key \in Keys /\ sweep.val \in Vals
      BY <1>1, <2>3 DEF SweepEnd, MapInv, MapTypeOK
    <3> QED
      BY <2>1, <2>3, <3>1 DEF SweepEnd
  <2>4. ASSUME NEW k \in Keys, Delete(k) PROVE A
    BY <2>4 DEF Delete
  <2>5. CASE Tick
    BY <2>5 DEF Tick
  <2>6. CASE UNCHANGED mapVars
    BY <2>6 DEF mapVars
  <2>7. ASSUME NEW k \in Keys, NEW v \in Vals, SetWithGc(k, v) PROVE A
    BY <2>7 DEF SetWithGc
  <2> QED
    BY <1>1, <2>1, <2>2, <2>3, <2>4, <2>5, <2>6, <2>7 DEF MapNext, Set
<1>2. MapInv /\ [MapNext]_mapVars => [A]_mapVars
  BY <1>1
<1> QED
  BY <1>2, InitMapInv, NextMapInv, PTL DEF MapSpec, FreshLeavesByOwnerOrEviction

-----------------------------------------------------------------------------
(* RegistryUpdater                                                         *)

\* ref counts the loop and the purge request.
RefsCount ==
    ref = (IF updater = "ended" THEN 0 ELSE 1) + (IF purge = "asking" \/ unclosed THEN 1 ELSE 0)

\* From close() on the loop is stopped; before it nothing is purged.
Stopped ==
    /\ life # "ready" => ~loop
    /\ life = "ready" => purge = "none" /\ purges = 0 /\ ~taken /\ ~unclosed
    /\ unclosed => purge = "over"
    /\ updater = "ended" => ~loop

\* After a purge that no update was racing, none is left to register the jigsaw.
Gone == taken /\ ~late => registered = "no" /\ updates = 0 /\ updater # "sending"

UpdaterInv == UpdaterTypeOK /\ RefsCount /\ Stopped /\ Gone

\* The invariant holds at first.
LEMMA UpdaterStarts == UpdaterInit => UpdaterInv
<1> SUFFICES ASSUME UpdaterInit PROVE UpdaterInv  OBVIOUS
<1> USE FlightAssumption DEF UpdaterInit
<1>1. UpdaterTypeOK
  <2>1. Flags  BY DEF Flags
  <2>2. Counts  BY DEF Counts
  <2> QED  BY <2>1, <2>2 DEF UpdaterTypeOK
<1>2. RefsCount  BY DEF Flags, Counts, RefsCount
<1>3. Stopped  BY DEF Flags, Counts, Stopped
<1>4. Gone  BY DEF Flags, Counts, Gone
<1> QED  BY <1>1, <1>2, <1>3, <1>4 DEF UpdaterInv

\* Every step keeps the invariant.
LEMMA UpdaterKeeps == ASSUME UpdaterInv, [UpdaterNext]_updaterVars PROVE UpdaterInv'
<1> USE FlightAssumption DEF UpdaterInv, UpdaterTypeOK, constant, network
<1>1. CASE UpdateSent
  <2> USE <1>1 DEF UpdateSent
  <2>1. UpdaterTypeOK'
    <3>1. Flags'  BY DEF Flags
    <3>2. Counts'  BY DEF Flags, Counts, RefsCount
    <3> QED  BY <3>1, <3>2
  <2>2. RefsCount'  BY DEF Flags, Counts, RefsCount
  <2>3. Stopped'  BY DEF Flags, Counts, Stopped
  <2>4. Gone'  BY DEF Flags, Counts, Gone
  <2> QED  BY <2>1, <2>2, <2>3, <2>4
<1>2. CASE UpdateFails
  <2> USE <1>2 DEF UpdateFails
  <2>1. UpdaterTypeOK'
    <3>1. Flags'  BY DEF Flags
    <3>2. Counts'  BY DEF Flags, Counts, RefsCount
    <3> QED  BY <3>1, <3>2
  <2>2. RefsCount'  BY DEF Flags, Counts, RefsCount
  <2>3. Stopped'  BY DEF Flags, Counts, Stopped
  <2>4. Gone'  BY DEF Flags, Counts, Gone
  <2> QED  BY <2>1, <2>2, <2>3, <2>4
<1>3. CASE Wake
  <2> USE <1>3 DEF Wake, Goes, SetRef
  <2>1. UpdaterTypeOK'
    <3>1. Flags'  BY DEF Flags
    <3>2. Counts'  BY DEF Flags, Counts, RefsCount
    <3> QED  BY <3>1, <3>2
  <2>2. RefsCount'  BY DEF Flags, Counts, RefsCount
  <2>3. Stopped'  BY DEF Flags, Counts, Stopped
  <2>4. Gone'  BY DEF Flags, Gone, Stopped
  <2> QED  BY <2>1, <2>2, <2>3, <2>4
<1>4. CASE Close
  <2> USE <1>4 DEF Close, LoopAfterClose, Asked
  <2>1. UpdaterTypeOK'
    <3>1. Flags'  BY DEF Flags
    <3>2. Counts'  BY DEF Flags, Counts, RefsCount
    <3> QED  BY <3>1, <3>2
  <2>2. RefsCount'  BY DEF Flags, Counts, RefsCount, Stopped
  <2>3. Stopped'  BY DEF Flags, Counts, Stopped
  <2>4. Gone'  BY DEF Flags, Counts, Gone
  <2> QED  BY <2>1, <2>2, <2>3, <2>4
<1>5. CASE PurgeSent
  <2> USE <1>5 DEF PurgeSent
  <2>1. UpdaterTypeOK'
    <3>1. Flags'  BY DEF Flags
    <3>2. Counts'  BY DEF Flags, Counts, RefsCount
    <3> QED  BY <3>1, <3>2
  <2>2. RefsCount'  BY DEF Flags, Counts, RefsCount
  <2>3. Stopped'  BY DEF Flags, Counts, Stopped
  <2>4. Gone'  BY DEF Flags, Counts, Gone
  <2> QED  BY <2>1, <2>2, <2>3, <2>4
<1>6. CASE PurgeOver
  <2> USE <1>6 DEF PurgeOver
  <2>1. UpdaterTypeOK'
    <3>1. Flags'  BY DEF Flags
    <3>2. Counts'  BY DEF Flags, Counts, RefsCount
    <3> QED  BY <3>1, <3>2
  <2>2. RefsCount'  BY DEF Flags, Counts, RefsCount
  <2>3. Stopped'  BY DEF Flags, Counts, Stopped
  <2>4. Gone'  BY DEF Flags, Counts, Gone
  <2> QED  BY <2>1, <2>2, <2>3, <2>4
<1>7. CASE RequestClosed
  <2> USE <1>7 DEF RequestClosed, SetRef
  <2>1. UpdaterTypeOK'
    <3>1. Flags'  BY DEF Flags
    <3>2. Counts'  BY DEF Flags, Counts, RefsCount
    <3> QED  BY <3>1, <3>2
  <2>2. RefsCount'  BY DEF Flags, Counts, RefsCount, Stopped
  <2>3. Stopped'  BY DEF Flags, Counts, Stopped
  <2>4. Gone'  BY DEF Flags, Counts, Gone
  <2> QED  BY <2>1, <2>2, <2>3, <2>4
<1>8. CASE Await
  <2> USE <1>8 DEF Await, SetRef
  <2>1. UpdaterTypeOK'
    <3>1. Flags'  BY DEF Flags
    <3>2. Counts'  BY DEF Flags, Counts, RefsCount
    <3> QED  BY <3>1, <3>2
  <2>2. RefsCount'  BY DEF Flags, Counts, RefsCount
  <2>3. Stopped'  BY DEF Flags, Counts, Stopped
  <2>4. Gone'  BY DEF Flags, Counts, Gone
  <2> QED  BY <2>1, <2>2, <2>3, <2>4
<1>9. CASE Closed
  <2> USE <1>9 DEF Closed
  <2>1. UpdaterTypeOK'
    <3>1. Flags'  BY DEF Flags
    <3>2. Counts'  BY DEF Flags, Counts, RefsCount
    <3> QED  BY <3>1, <3>2
  <2>2. RefsCount'  BY DEF Flags, Counts, RefsCount
  <2>3. Stopped'  BY DEF Flags, Counts, Stopped
  <2>4. Gone'  BY DEF Flags, Counts, Gone
  <2> QED  BY <2>1, <2>2, <2>3, <2>4
<1>10. CASE UpdateArrives
  <2> USE <1>10 DEF UpdateArrives
  <2>1. UpdaterTypeOK'
    <3>1. Flags'  BY DEF Flags
    <3>2. Counts'  BY DEF Flags, Counts, RefsCount
    <3> QED  BY <3>1, <3>2
  <2>2. RefsCount'  BY DEF Flags, Counts, RefsCount
  <2>3. Stopped'  BY DEF Flags, Counts, Stopped
  <2>4. Gone'  BY DEF Flags, Counts, Gone
  <2> QED  BY <2>1, <2>2, <2>3, <2>4
<1>11. CASE PurgeArrives
  <2> USE <1>11 DEF PurgeArrives
  <2>1. UpdaterTypeOK'
    <3>1. Flags'  BY DEF Flags
    <3>2. Counts'  BY DEF Flags, Counts, RefsCount
    <3> QED  BY <3>1, <3>2
  <2>2. RefsCount'  BY DEF Flags, Counts, RefsCount
  <2>3. Stopped'  BY DEF Flags, Counts, Stopped
  <2>4. Gone'
    <3>1. SUFFICES ASSUME ~late' PROVE updates = 0 /\ updater # "sending"
      BY DEF Gone
    <3>2. ~(updates > 0) /\ updater # "sending"  BY <3>1, Zenon
    <3> QED  BY <3>2 DEF Counts
  <2> QED  BY <2>1, <2>2, <2>3, <2>4
<1>12. CASE Lose
  <2> USE <1>12 DEF Lose
  <2>1. UpdaterTypeOK'
    <3>1. Flags'  BY DEF Flags
    <3>2. Counts'  BY DEF Flags, Counts, RefsCount
    <3> QED  BY <3>1, <3>2
  <2>2. RefsCount'  BY DEF Flags, Counts, RefsCount
  <2>3. Stopped'  BY DEF Flags, Counts, Stopped
  <2>4. Gone'  BY DEF Flags, Counts, Gone
  <2> QED  BY <2>1, <2>2, <2>3, <2>4
<1>13. CASE Aging
  <2> USE <1>13 DEF Aging
  <2>1. UpdaterTypeOK'
    <3>1. Flags'  BY DEF Flags
    <3>2. Counts'  BY DEF Flags, Counts, RefsCount
    <3> QED  BY <3>1, <3>2
  <2>2. RefsCount'  BY DEF Flags, Counts, RefsCount
  <2>3. Stopped'  BY DEF Flags, Counts, Stopped
  <2>4. Gone'  BY DEF Flags, Counts, Gone
  <2> QED  BY <2>1, <2>2, <2>3, <2>4
<1>14. CASE Expire
  <2> USE <1>14 DEF Expire
  <2>1. UpdaterTypeOK'
    <3>1. Flags'  BY DEF Flags
    <3>2. Counts'  BY DEF Flags, Counts, RefsCount
    <3> QED  BY <3>1, <3>2
  <2>2. RefsCount'  BY DEF Flags, Counts, RefsCount
  <2>3. Stopped'  BY DEF Flags, Counts, Stopped
  <2>4. Gone'  BY DEF Flags, Counts, Gone
  <2> QED  BY <2>1, <2>2, <2>3, <2>4
<1>15. CASE UNCHANGED updaterVars
  <2> USE <1>15 DEF updaterVars
  <2>1. UpdaterTypeOK'
    <3>1. Flags'  BY DEF Flags
    <3>2. Counts'  BY DEF Flags, Counts, RefsCount
    <3> QED  BY <3>1, <3>2
  <2>2. RefsCount'  BY DEF Flags, Counts, RefsCount
  <2>3. Stopped'  BY DEF Flags, Counts, Stopped
  <2>4. Gone'  BY DEF Flags, Counts, Gone
  <2> QED  BY <2>1, <2>2, <2>3, <2>4
<1> QED
  BY <1>1, <1>2, <1>3, <1>4, <1>5, <1>6, <1>7, <1>8, <1>9, <1>10, <1>11, <1>12, <1>13, <1>14, <1>15
     DEF UpdaterNext, Updating

\* The invariant holds in every reachable state.
THEOREM UpdaterInvAlways == UpdaterSpec => []UpdaterInv
  BY UpdaterStarts, UpdaterKeeps, PTL DEF UpdaterSpec

\* The count of references never goes below zero, and the rest of the types.
THEOREM UpdaterTypes == UpdaterSpec => []UpdaterTypeOK
<1>1. UpdaterInv => UpdaterTypeOK  BY DEF UpdaterInv
<1> QED  BY <1>1, UpdaterInvAlways, PTL

\* Nothing registers a jigsaw again once the registry has taken it out with no
\* update on its way.
THEOREM GoneUnlessLateAlways == UpdaterSpec => []GoneUnlessLate
<1>1. UpdaterInv => GoneUnlessLate  BY DEF UpdaterInv, Gone, GoneUnlessLate
<1> QED  BY <1>1, UpdaterInvAlways, PTL

\* Where the count of references has come to zero while closing, close() is told
\* of it, and the loop and the purge request are over for good.
Settling ==
    /\ life = "closing" => purge # "none"
    /\ life \in {"waiting", "closed"} => purge = "over"
    /\ life = "waiting" /\ ref = 0 => settled
    /\ life = "closed" => settled
    /\ settled => life # "ready" /\ purge = "over" /\ ref = 0

\* While close() waits, one of those it waits for can go on, or it can itself,
\* unless the loop has died.
UpdaterHasWork ==
    /\ life = "closing" => purge \in {"asking", "over"}
    /\ life = "waiting" => \/ settled \/ unclosed
                          \/ updater \in {"sending", "sleeping", "died"}

\* When close() has returned the loop has ended, and the purge and its request.
UpdaterOver == life = "closed" => updater = "ended" /\ purge = "over" /\ ~unclosed

\* A reference is given back, by the loop or the purge's request.
LEMMA SettlingGiven ==
    ASSUME UpdaterInv, Settling, SetRef(ref - 1), ref # 0,
           ref - 1 = 0 => purge # "asking", UNCHANGED <<life, purge>>
    PROVE  Settling'
<1> DEFINE m == ref - 1
<1>1. ref' = m /\ settled' = (settled \/ (life \in {"closing", "waiting"} /\ m = 0))
  BY DEF SetRef
<1>2. ~settled /\ life # "closed"  BY DEF Settling
<1>3. settled' <=> life \in {"closing", "waiting"} /\ m = 0  BY <1>1, <1>2, Zenon
<1>4. m = 0 => purge # "asking"  OBVIOUS
<1> HIDE DEF m
<1>5. purge \in {"none", "asking", "over"}  BY DEF UpdaterInv, UpdaterTypeOK
<1>6. life' = life /\ purge' = purge  OBVIOUS
<1> QED  BY <1>1, <1>2, <1>3, <1>4, <1>5, <1>6 DEF Settling

LEMMA SettlingKept == ASSUME UpdaterInv, Settling, [UpdaterNext]_updaterVars PROVE Settling'
<1> USE DEF UpdaterInv, UpdaterTypeOK, Flags, Counts, constant, network, Settling
<1>1. CASE Wake
  <2>1. CASE loop  BY <1>1, <2>1 DEF Wake, Goes
  <2>2. CASE ~loop
    <3>1. SetRef(ref - 1) /\ UNCHANGED <<life, purge>>  BY <1>1, <2>2 DEF Wake, Goes
    <3>2. ref # 0 /\ (ref - 1 = 0 => purge # "asking")  BY <1>1 DEF Wake, RefsCount
    <3> QED  BY <3>1, <3>2, SettlingGiven
  <2> QED  BY <2>1, <2>2
<1>2. CASE Close  BY <1>2 DEF Close, Asked, RefsCount, Stopped
<1>3. CASE PurgeOver  BY <1>3 DEF PurgeOver, RefsCount
<1>4. CASE RequestClosed
  <2>1. SetRef(ref - 1) /\ UNCHANGED <<life, purge>>  BY <1>4 DEF RequestClosed
  <2>2. ref # 0 /\ purge # "asking"  BY <1>4 DEF RequestClosed, RefsCount, Stopped
  <2> QED  BY <2>1, <2>2, SettlingGiven
<1>5. CASE Await  BY <1>5 DEF Await, SetRef
<1>6. CASE Closed  BY <1>6 DEF Closed
<1>7. CASE UNCHANGED <<life, ref, settled, purge>>  BY <1>7
<1>8. \/ UNCHANGED <<life, ref, settled, purge>>
      \/ Wake \/ Close \/ PurgeOver \/ RequestClosed \/ Await \/ Closed
  BY DEF UpdaterNext, Updating, UpdateSent, UpdateFails, PurgeSent, UpdateArrives, PurgeArrives,
         Lose, Aging, Expire, updaterVars
<1> QED  BY <1>1, <1>2, <1>3, <1>4, <1>5, <1>6, <1>7, <1>8

LEMMA SettlingAlways == UpdaterSpec => []Settling
<1>1. UpdaterInit => Settling  BY DEF UpdaterInit, Settling
<1> QED  BY <1>1, SettlingKept, UpdaterInvAlways, PTL DEF UpdaterSpec

\* RegistryUpdater.close() never waits for a reference that has been given back:
\* the loop, its purge or the purge's request has still to end.
THEOREM UpdaterHasWorkAlways == UpdaterSpec => []UpdaterHasWork
<1>1. UpdaterInv /\ Settling => UpdaterHasWork
  BY DEF UpdaterInv, UpdaterTypeOK, Flags, RefsCount, Settling, UpdaterHasWork
<1> QED  BY <1>1, SettlingAlways, UpdaterInvAlways, PTL

\* Nothing of a RegistryUpdater runs on after close() has returned.
THEOREM UpdaterOverAlways == UpdaterSpec => []UpdaterOver
<1>1. UpdaterInv /\ Settling => UpdaterOver
  BY DEF UpdaterInv, UpdaterTypeOK, Flags, RefsCount, Settling, UpdaterOver
<1> QED  BY <1>1, SettlingAlways, UpdaterInvAlways, PTL

-----------------------------------------------------------------------------
(* Registry                                                                *)

\* A name that removeNode has possibly left in the tree as an empty group.
Unreached(g) == \E e \in Entries : g \in Beyond(e)

\* The groups above every node are there, and no end node is above another node.
\* A group that no end node is under is one that removeNode did not come to.
Tree ==
    /\ UNION {Above(p) : p \in ends} \subseteq groups
    /\ \A g \in groups : Above(g) \subseteq groups
    /\ groups \cap ends = {}
    /\ \A p, q \in ends : IsPrefix(p, q) => p = q
    /\ \A g \in groups : (\E q \in ends : g \in Above(q)) \/ Unreached(g)

\* The clients set before a client are others, and are there; it comes after
\* all that they come after.
Ordered ==
    /\ IsFiniteSet(Clients)
    /\ \A c \in Clients :
         /\ recent[c] \subseteq Clients \ {c}
         /\ \A d \in recent[c] : recent[d] \subseteq recent[c]

Iterating == \A l \in loops : l.left \subseteq Clients

\* A walk has yet to come to every end node that has expired.
Walking == walk # {} => old \subseteq walk

RegistryInv == TypeOK /\ Tree /\ Ordered /\ Iterating /\ Walking /\ ToldOrToTell

(* The tree of names *)

LEMMA EntryPaths == \A p \in Entries : p \in Seq(Components) /\ p # <<>>
  BY PathAssumption DEF Entries

LEMMA AboveAre ==
    ASSUME NEW p \in Seq(Components)
    PROVE  \A h : h \in Above(p) <=>
             h \in Seq(Components) /\ h # <<>> /\ h # p /\ IsPrefix(h, p)
  BY PrefixesAre DEF Above

LEMMA NodePaths ==
    /\ \A p \in Paths : p \in Seq(Components) /\ p # <<>>
    /\ \A p \in Entries : p \in Paths /\ Above(p) \subseteq Paths
  <1>1. \A p \in Entries : \A h \in Above(p) : h \in Seq(Components) /\ h # <<>>
    BY EntryPaths, AboveAre
  <1>. QED
    BY <1>1, EntryPaths DEF Paths

LEMMA TreePaths ==
    ASSUME TypeOK
    PROVE  /\ \A p \in ends : p \in Entries /\ p \in Seq(Components) /\ p # <<>>
           /\ \A q \in groups \cup ends : q \in Seq(Components) /\ q # <<>>
  BY EntryPaths, NodePaths DEF TypeOK

\* Whatever is above an end node is in the tree, and is no end node.
LEMMA AboveEnds ==
    ASSUME TypeOK, Tree, NEW q \in ends, NEW h \in Seq(Components), h # <<>>, IsPrefix(h, q)
    PROVE  h = q \/ (h \in groups /\ h \notin ends /\ h \in Above(q))
  <1>1. q \in Seq(Components)
    BY TreePaths
  <1>2. h # q => h \in Above(q)
    BY <1>1, AboveAre
  <1>. QED
    BY <1>2 DEF Tree

\* What removeNode does not come to has nothing above it that it comes to.
LEMMA UnreachedAbove ==
    ASSUME NEW c \in Seq(Components), NEW g \in Seq(Components), g # <<>>, IsPrefix(g, c),
           Unreached(c)
    PROVE  Unreached(g)
  <1>1. PICK e \in Entries : c \in Beyond(e)
    BY DEF Unreached
  <1>2. /\ e \in Seq(Components) /\ c \in Above(e) /\ Len(c) + MaxLevels <= Len(e)
    BY <1>1, EntryPaths DEF Beyond
  <1>3. IsPrefix(c, e) /\ c # <<>>
    BY <1>2, AboveAre
  <1>4. IsPrefix(g, e) /\ Len(g) <= Len(c)
    BY <1>2, <1>3, PrefixOrder, PrefixByPosition
  <1>5. Len(g) \in Nat /\ Len(c) \in Nat /\ Len(e) \in Nat /\ MaxLevels \in Nat \ {0}
    BY <1>2, LenProperties, LimitAssumption
  <1>6. Len(g) + MaxLevels <= Len(e) /\ Len(g) # Len(e)
    BY <1>2, <1>4, <1>5
  <1>7. g \in Above(e)
    BY <1>2, <1>4, <1>6, AboveAre
  <1>. QED
    BY <1>6, <1>7 DEF Beyond, Unreached

\* The node whose removal takes an end node out with the groups that it alone
\* was under.
Alone(p, g) == \A h \in Above(p) : IsPrefix(g, h) => \A c, d \in Children(h) : c = d

LEMMA TopIs ==
    ASSUME TypeOK, NEW p \in ends
    PROVE  /\ Top(p) = p \/ (Top(p) \in Above(p) /\ Alone(p, Top(p)))
           /\ Top(p) \in Seq(Components) /\ Top(p) # <<>> /\ IsPrefix(Top(p), p)
           /\ \A g \in Above(p) \ Beyond(p) : Alone(p, g) => IsPrefix(Top(p), g)
  <1>. DEFINE out == {p} \cup {g \in Above(p) \ Beyond(p) : Alone(p, g)}
              T == {Len(g) : g \in out}
  <1>1. p \in Seq(Components) /\ p # <<>>
    BY TreePaths
  <1>2. \A g \in out : g \in Seq(Components) /\ g # <<>> /\ IsPrefix(g, p)
    BY <1>1, AboveAre, PrefixOrder
  <1>3. T \in SUBSET Nat /\ T # {}
    <2>1. p \in out
      OBVIOUS
    <2>2. \A g \in out : Len(g) \in Nat
      BY <1>2, LenProperties
    <2>. HIDE DEF out
    <2>. QED
      BY <2>1, <2>2
  <1>4. PICK m \in T : \A n \in T : m <= n
    BY <1>3, LeastElement
  <1>5. PICK c \in out : Len(c) = m
    BY <1>4
  <1>6. \A d \in out : IsPrefix(c, d)
    <2>. SUFFICES ASSUME NEW d \in out PROVE IsPrefix(c, d)
      OBVIOUS
    <2>1. Len(c) <= Len(d)
      BY <1>4, <1>5
    <2>2. /\ c \in Seq(Components) /\ d \in Seq(Components)
          /\ IsPrefix(c, p) /\ IsPrefix(d, p)
      BY <1>2
    <2>. QED
      BY <1>1, <2>1, <2>2, PrefixOrder
  <1>7. Top(p) = CHOOSE c_1 \in out : \A d \in out : IsPrefix(c_1, d)
    BY DEF Top, Alone
  <1>8. Top(p) \in out /\ \A d \in out : IsPrefix(Top(p), d)
    <2>. HIDE DEF out
    <2>. QED
      BY <1>6, <1>7
  <1>. QED
    BY <1>2, <1>8

\* Under it there is no other end node.
LEMMA NoOther ==
    ASSUME TypeOK, Tree, NEW p \in ends, NEW q \in ends, q # p
    PROVE  ~IsPrefix(Top(p), q)
  <1>. SUFFICES ASSUME IsPrefix(Top(p), q) PROVE FALSE
    OBVIOUS
  <1>. DEFINE t == Top(p)
  <1>1. p \in Seq(Components) /\ q \in Seq(Components)
    BY TreePaths
  <1>2. ~IsPrefix(p, q) /\ ~IsPrefix(q, p)
    BY DEF Tree
  <1>3. /\ t \in Seq(Components) /\ t # <<>> /\ IsPrefix(t, p)
        /\ t \in Above(p) /\ Alone(p, t)
    BY <1>2, TopIs
  <1>. HIDE DEF t
  <1>4. PICK n \in Nat : /\ n < Len(p) /\ n < Len(q) /\ p[n + 1] # q[n + 1]
                         /\ \A i \in 1 .. n : p[i] = q[i]
    BY <1>1, <1>2, Parting
  <1>. DEFINE h == SubSeq(p, 1, n)
              c == SubSeq(p, 1, n + 1)
              d == SubSeq(q, 1, n + 1)
  <1>5. /\ n \in 0 .. Len(p) /\ n + 1 \in 0 .. Len(p) /\ n + 1 \in 0 .. Len(q)
        /\ Len(p) \in Nat /\ Len(q) \in Nat /\ Len(t) \in Nat \ {0}
    BY <1>1, <1>3, <1>4, LenProperties, EmptySeq
  <1>6. /\ h \in Seq(Components) /\ Len(h) = n /\ \A i \in 1 .. n : h[i] = p[i]
        /\ c \in Seq(Components) /\ Len(c) = n + 1 /\ \A i \in 1 .. n + 1 : c[i] = p[i]
        /\ d \in Seq(Components) /\ Len(d) = n + 1 /\ \A i \in 1 .. n + 1 : d[i] = q[i]
        /\ IsPrefix(h, p) /\ IsPrefix(c, p) /\ IsPrefix(d, q)
    BY <1>1, <1>5, FirstElements, FirstIsPrefix
  <1>. HIDE DEF h, c, d
  <1>7. Len(t) <= n
    <2>. SUFFICES ASSUME n + 1 <= Len(t) PROVE FALSE
      BY <1>5
    <2>1. n + 1 \in 1 .. Len(t)
      BY <1>5
    <2>2. t[n + 1] = p[n + 1] /\ t[n + 1] = q[n + 1]
      BY <1>1, <1>3, <2>1, PrefixByPosition DEF t
    <2>. QED
      BY <1>4, <2>2
  <1>8. IsPrefix(t, h) /\ h # <<>> /\ h # p
    <2>1. IsPrefix(t, h)
      BY <1>1, <1>3, <1>6, <1>7, PrefixOrder
    <2>2. Len(h) # 0 /\ Len(h) # Len(p)
      BY <1>4, <1>5, <1>6, <1>7
    <2>. QED
      BY <2>1, <2>2, <1>6, EmptySeq
  <1>9. h \in Above(p)
    BY <1>1, <1>6, <1>8, AboveAre
  <1>10. c # <<>> /\ d # <<>> /\ c # d /\ c # h /\ d # h
    <2>1. Len(c) # 0 /\ Len(d) # 0 /\ Len(c) # Len(h) /\ Len(d) # Len(h)
      BY <1>6
    <2>2. c[n + 1] # d[n + 1]
      BY <1>4, <1>6
    <2>. QED
      BY <1>6, <2>1, <2>2, EmptySeq
  <1>11. Front(c) = h /\ Front(d) = h
    <2>1. (n + 1) - 1 = n /\ \A i \in 1 .. n : i \in 1 .. n + 1
      OBVIOUS
    <2>2. /\ Front(c) \in Seq(Components) /\ Len(Front(c)) = n
          /\ \A i \in 1 .. n : Front(c)[i] = c[i]
      BY <1>6, <1>10, <2>1, FrontIsPrefix
    <2>3. /\ Front(d) \in Seq(Components) /\ Len(Front(d)) = n
          /\ \A i \in 1 .. n : Front(d)[i] = d[i]
      BY <1>6, <1>10, <2>1, FrontIsPrefix
    <2>4. ASSUME NEW i \in 1 .. n PROVE Front(c)[i] = h[i] /\ Front(d)[i] = h[i]
      <3>1. c[i] = p[i] /\ d[i] = q[i] /\ h[i] = p[i] /\ p[i] = q[i]
        BY <1>4, <1>6, <2>1, Zenon
      <3>. QED
        BY <2>2, <2>3, <3>1, Zenon
    <2>. QED
      BY <1>6, <2>2, <2>3, <2>4, SameSequence
  <1>12. c \in groups \cup ends /\ d \in groups \cup ends
    BY <1>6, <1>10, AboveEnds
  <1>13. c \in Children(h) /\ d \in Children(h)
    BY <1>11, <1>12 DEF Children, Parent
  <1>. QED
    BY <1>3, <1>8, <1>9, <1>10, <1>13 DEF Alone

\* What stays of the groups above it is above another end node.
LEMMA AnotherUnder ==
    ASSUME TypeOK, Tree, NEW p \in ends, NEW g \in Above(p), ~IsPrefix(Top(p), g),
           ~Unreached(g)
    PROVE  \E q \in ends : q # p /\ g \in Above(q)
  <1>1. p \in Seq(Components)
    BY TreePaths
  <1>2. g \in Seq(Components) /\ g # <<>> /\ IsPrefix(g, p)
    BY <1>1, AboveAre
  <1>3. ~Alone(p, g)
    <2>1. g \notin Beyond(p)
      BY DEF Unreached, TypeOK
    <2>. QED
      BY <2>1, TopIs
  <1>4. PICK h \in Above(p) : IsPrefix(g, h) /\ \E c, d \in Children(h) : c # d
    BY <1>3 DEF Alone
  <1>5. h \in Seq(Components) /\ h # <<>> /\ IsPrefix(h, p)
    BY <1>1, <1>4, AboveAre
  <1>6. \A c \in Children(h) :
          /\ c \in groups \cup ends /\ c \in Seq(Components) /\ c # <<>>
          /\ Len(c) = Len(h) + 1 /\ IsPrefix(h, c) /\ Len(h) \in Nat
    <2>. SUFFICES ASSUME NEW c \in Children(h)
                  PROVE  /\ c \in groups \cup ends /\ c \in Seq(Components) /\ c # <<>>
                         /\ Len(c) = Len(h) + 1 /\ IsPrefix(h, c) /\ Len(h) \in Nat
      OBVIOUS
    <2>1. c \in groups \cup ends /\ Front(c) = h
      BY DEF Children, Parent
    <2>2. c \in Seq(Components) /\ c # <<>>
      BY <2>1, TreePaths
    <2>3. Len(h) = Len(c) - 1 /\ IsPrefix(h, c) /\ Len(c) \in Nat \ {0}
      BY <2>1, <2>2, FrontIsPrefix
    <2>. QED
      BY <2>1, <2>2, <2>3
  <1>7. PICK c \in Children(h) : ~IsPrefix(c, p)
    <2>1. PICK c, d \in Children(h) : c # d
      BY <1>4
    <2>2. Len(c) = Len(d) /\ Len(c) <= Len(d) /\ c \in Seq(Components) /\ d \in Seq(Components)
      BY <1>6, <2>1
    <2>3. IsPrefix(c, p) /\ IsPrefix(d, p) => IsPrefix(c, d)
      BY <1>1, <2>2, PrefixOrder
    <2>4. IsPrefix(c, d) => c = d
      BY <2>2, PrefixOrder
    <2>. QED
      BY <2>1, <2>3, <2>4
  <1>8. PICK q \in ends : IsPrefix(c, q)
    <2>1. c \in groups \cup ends /\ c \in Seq(Components)
      BY <1>6
    <2>2. CASE c \in ends
      BY <2>1, <2>2, PrefixOrder
    <2>3. CASE c \in groups
      <3>1. IsPrefix(g, c)
        BY <1>2, <1>4, <1>5, <1>6, PrefixOrder
      <3>2. ~Unreached(c)
        BY <1>2, <2>1, <3>1, UnreachedAbove
      <3>3. PICK q \in ends : c \in Above(q)
        BY <2>3, <3>2 DEF Tree
      <3>. QED
        BY <3>3, AboveAre, TreePaths
    <2>. QED
      BY <2>1, <2>2, <2>3
  <1>9. q # p /\ q \in Seq(Components)
    BY <1>7, <1>8, TreePaths
  <1>10. IsPrefix(g, q)
    <2>1. c \in Seq(Components) /\ IsPrefix(h, c)
      BY <1>6, <1>7
    <2>2. IsPrefix(g, c)
      BY <1>2, <1>4, <1>5, <2>1, PrefixOrder
    <2>. QED
      BY <1>2, <1>8, <1>9, <2>1, <2>2, PrefixOrder
  <1>11. g # q
    <2>1. IsPrefix(h, q) /\ c \in Seq(Components) /\ Len(c) = Len(h) + 1 /\ Len(h) \in Nat
      BY <1>5, <1>6, <1>7, <1>8, <1>9, PrefixOrder
    <2>2. Len(g) <= Len(h) /\ Len(c) <= Len(q) /\ Len(g) \in Nat /\ Len(q) \in Nat
      BY <1>2, <1>4, <1>5, <1>8, <1>9, <2>1, PrefixByPosition, LenProperties
    <2>. QED
      BY <2>1, <2>2
  <1>. QED
    BY <1>2, <1>9, <1>10, <1>11, AboveAre

\* removeEndNode takes out the end node and the groups it alone was under.
LEMMA Removed ==
    ASSUME TypeOK, Tree, NEW p \in ends, RemoveEndNode(p)
    PROVE  ends' = ends \ {p} /\ old' = old \ {p} /\ Tree' /\ groups' \subseteq groups
  <1>. DEFINE below == {q \in groups \cup ends : IsPrefix(Top(p), q)}
  <1>1. groups' = groups \ below /\ ends' = ends \ below /\ old' = old \ below
    BY DEF RemoveEndNode
  <1>2. below \cap ends = {p}
    BY TopIs, NoOther
  <1>3. ends' = ends \ {p} /\ old' = old \ {p}
    BY <1>1, <1>2 DEF TypeOK
  <1>. HIDE DEF below
  <1>4. groups' \subseteq groups /\ ends' \subseteq ends
    BY <1>1
  <1>5. UNION {Above(q) : q \in ends'} \subseteq groups'
    <2>. SUFFICES ASSUME NEW q \in ends', NEW g \in Above(q) PROVE g \in groups'
      OBVIOUS
    <2>1. q \in ends /\ q # p /\ q \in Seq(Components)
      BY <1>3, TreePaths
    <2>2. g \in groups /\ g \in Seq(Components) /\ IsPrefix(g, q)
      BY <2>1, AboveAre DEF Tree
    <2>3. ~IsPrefix(Top(p), g)
      <3>1. Top(p) \in Seq(Components)
        BY TopIs
      <3>. QED
        BY <2>1, <2>2, <3>1, NoOther, PrefixOrder
    <2>. QED
      BY <1>1, <2>2, <2>3 DEF below
  <1>6. \A g \in groups' : Above(g) \subseteq groups'
    <2>. SUFFICES ASSUME NEW g \in groups', NEW h \in Above(g) PROVE h \in groups'
      OBVIOUS
    <2>1. g \in groups /\ ~IsPrefix(Top(p), g) /\ g \in Seq(Components)
      BY <1>1, TreePaths DEF below
    <2>2. h \in groups /\ h \in Seq(Components) /\ IsPrefix(h, g)
      BY <2>1, AboveAre DEF Tree
    <2>3. ~IsPrefix(Top(p), h)
      <3>1. Top(p) \in Seq(Components)
        BY TopIs
      <3>. QED
        BY <2>1, <2>2, <3>1, PrefixOrder
    <2>. QED
      BY <1>1, <2>2, <2>3 DEF below
  <1>7. ASSUME NEW g \in groups', ~Unreached(g) PROVE \E q \in ends' : g \in Above(q)
    <2>1. g \in groups /\ ~IsPrefix(Top(p), g)
      BY <1>1 DEF below
    <2>2. PICK q \in ends : g \in Above(q)
      BY <1>7, <2>1 DEF Tree
    <2>3. CASE q = p
      BY <1>3, <1>7, <2>1, <2>2, <2>3, AnotherUnder
    <2>4. CASE q # p
      BY <1>3, <2>2, <2>4
    <2>. QED
      BY <2>3, <2>4
  <1>8. Tree'
    <2>1. groups' \cap ends' = {}
      BY <1>4 DEF Tree
    <2>2. \A q, r \in ends' : IsPrefix(q, r) => q = r
      BY <1>4 DEF Tree
    <2>. QED
      BY <1>5, <1>6, <1>7, <2>1, <2>2 DEF Tree, Unreached
  <1>. QED
    BY <1>3, <1>4, <1>8

(* recent_clients *)

RecentType ==
    /\ recent \in [Clients -> SUBSET Jigsaws] /\ Clients \subseteq Jigsaws
    /\ Cardinality(Clients) <= MaxClients

\* Of any of the clients one is the oldest.
LEMMA OldestThere ==
    ASSUME Ordered, NEW cs \in SUBSET Clients, cs # {}
    PROVE  Oldest(cs) # {} /\ Oldest(cs) \subseteq cs
  <1>. DEFINE T == {Cardinality(recent[c]) : c \in cs}
  <1>1. \A c \in Clients : IsFiniteSet(recent[c]) /\ Cardinality(recent[c]) \in Nat
    <2>. SUFFICES ASSUME NEW c \in Clients
                  PROVE  IsFiniteSet(recent[c]) /\ Cardinality(recent[c]) \in Nat
      OBVIOUS
    <2>1. recent[c] \in SUBSET Clients
      BY DEF Ordered
    <2>. QED
      BY <2>1, FS_Subset, FS_CardinalityType DEF Ordered
  <1>2. T \in SUBSET Nat /\ T # {}
    BY <1>1
  <1>3. PICK m \in T : \A n \in T : m <= n
    BY <1>2, LeastElement
  <1>4. PICK c \in cs : Cardinality(recent[c]) = m
    BY <1>3
  <1>5. ASSUME NEW d \in recent[c] \cap cs PROVE FALSE
    <2>1. recent[d] \in SUBSET (recent[c] \ {d})
      BY <1>5 DEF Ordered
    <2>2. /\ IsFiniteSet(recent[c] \ {d})
          /\ Cardinality(recent[c] \ {d}) = Cardinality(recent[c]) - 1
      BY <1>1, <1>4, <1>5, FS_RemoveElement
    <2>3. Cardinality(recent[d]) <= Cardinality(recent[c] \ {d})
      BY <2>1, <2>2, FS_Subset
    <2>4. m <= Cardinality(recent[d])
      BY <1>3, <1>5
    <2>. QED
      BY <1>1, <1>4, <1>5, <2>2, <2>3, <2>4
  <1>. QED
    BY <1>4, <1>5 DEF Oldest

\* A set() on recent_clients, with the sweep, the eviction and the iterators.
LEMMA RecentSet ==
    ASSUME TypeOK, Ordered, Iterating, ToldOrToTell, NEW j \in Jigsaws, SetRecent(j)
    PROVE  RecentType' /\ Ordered' /\ loops' \subseteq Loop /\ Iterating' /\ ToldOrToTell'
  <1>1. PICK swept \in SUBSET Clients :
      LET kept == Clients \ swept
          new  == {j} \ kept
          gone == IF new # {} /\ IsFull(kept) THEN swept \cup Oldest(kept) ELSE swept
          stay == Clients \ gone
      IN  /\ recent' = [c \in stay \cup new |->
                           IF c \in new THEN stay ELSE recent[c] \cap stay]
          /\ loops' = {Shown(l, gone, new) : l \in loops}
    BY DEF SetRecent
  <1>. DEFINE kept == Clients \ swept
              new  == {j} \ kept
              gone == IF new # {} /\ IsFull(kept) THEN swept \cup Oldest(kept) ELSE swept
              stay == Clients \ gone
  <1>2. /\ recent' = [c \in stay \cup new |->
                           IF c \in new THEN stay ELSE recent[c] \cap stay]
        /\ loops' = {Shown(l, gone, new) : l \in loops}
        /\ Clients' = stay \cup new
    BY <1>1 DEF Clients
  <1>3. /\ IsFiniteSet(Clients) /\ IsFiniteSet(kept) /\ IsFiniteSet(stay)
        /\ Cardinality(Clients) \in Nat /\ Cardinality(kept) \in Nat /\ Cardinality(stay) \in Nat
        /\ Cardinality(kept) <= Cardinality(Clients)
    BY FS_Subset, FS_CardinalityType DEF Ordered
  <1>4. /\ stay \subseteq Clients /\ stay \subseteq kept /\ new \subseteq {j}
        /\ (new = {} \/ (new = {j} /\ j \notin stay))
    OBVIOUS
  <1>5. new # {} => Cardinality(stay) + 1 <= MaxClients
    <2>. SUFFICES ASSUME new # {} PROVE Cardinality(stay) + 1 <= MaxClients
      OBVIOUS
    <2>1. CASE IsFull(kept)
      <3>1. stay = kept \ Oldest(kept)
        BY <2>1
      <3>2. kept # {}
        <4>1. Cardinality(kept) # 0
          BY <1>3, <2>1, LimitAssumption DEF IsFull
        <4>. QED
          BY <4>1, FS_EmptySet
      <3>3. PICK o \in kept : o \in Oldest(kept)
        BY <3>2, OldestThere
      <3>4. stay \in SUBSET (kept \ {o})
        BY <3>1, <3>3
      <3>5. IsFiniteSet(kept \ {o}) /\ Cardinality(kept \ {o}) = Cardinality(kept) - 1
        BY <1>3, <3>3, FS_RemoveElement
      <3>6. Cardinality(stay) <= Cardinality(kept) - 1
        <4>. DEFINE others == kept \ {o}
        <4>. HIDE DEF others, stay, kept
        <4>1. Cardinality(stay) <= Cardinality(others)
          BY <3>4, <3>5, FS_Subset DEF others
        <4>. QED
          BY <3>5, <4>1 DEF others
      <3>7. Cardinality(kept) <= MaxClients
        BY <1>3, LimitAssumption DEF TypeOK
      <3>. HIDE DEF kept, stay
      <3>. QED
        BY <1>3, <3>6, <3>7, LimitAssumption
    <2>2. CASE ~IsFull(kept)
      <3>1. stay = kept
        BY <2>2
      <3>2. ~(Cardinality(kept) >= MaxClients)
        BY <2>2 DEF IsFull
      <3>. HIDE DEF kept, stay
      <3>. QED
        BY <1>3, <3>1, <3>2, LimitAssumption
    <2>. QED
      BY <2>1, <2>2
  <1>. HIDE DEF kept, new, gone, stay
  <1>6. IsFiniteSet(Clients') /\ Cardinality(Clients') <= MaxClients
    <2>1. CASE new = {}
      <3>1. Clients' = stay /\ stay \in SUBSET Clients
        BY <1>2, <1>4, <2>1
      <3>2. Cardinality(stay) <= Cardinality(Clients)
        BY <1>3, <3>1, FS_Subset
      <3>. QED
        BY <1>3, <3>1, <3>2, LimitAssumption DEF TypeOK
    <2>2. CASE new = {j} /\ j \notin stay
      <3>1. Clients' = stay \cup {j}
        BY <1>2, <2>2
      <3>2. IsFiniteSet(stay \cup {j}) /\ Cardinality(stay \cup {j}) = Cardinality(stay) + 1
        BY <1>3, <2>2, FS_AddElement
      <3>3. Cardinality(stay) + 1 <= MaxClients
        BY <1>5, <2>2
      <3>. QED
        BY <3>1, <3>2, <3>3
    <2>. QED
      BY <1>4, <2>1, <2>2
  <1>7. \A c \in Clients' :
          \/ c \in new /\ c \notin stay /\ recent'[c] = stay
          \/ c \in stay /\ c \notin new /\ recent'[c] = recent[c] \cap stay
    BY <1>2, <1>4
  <1>8. RecentType'
    <2>1. Clients' \subseteq Jigsaws
      BY <1>2, <1>4 DEF TypeOK
    <2>2. recent' \in [Clients' -> SUBSET Jigsaws]
      <3>1. \A c \in Clients' : recent'[c] \in SUBSET Jigsaws
        BY <1>4, <1>7 DEF TypeOK
      <3>. QED
        BY <1>2, <3>1
    <2>. QED
      BY <1>6, <2>1, <2>2 DEF RecentType
  <1>9. Ordered'
    <2>. SUFFICES ASSUME NEW c \in Clients'
                  PROVE  /\ recent'[c] \subseteq Clients' \ {c}
                         /\ \A d \in recent'[c] : recent'[d] \subseteq recent'[c]
      BY <1>6 DEF Ordered
    <2>1. CASE c \in new /\ c \notin stay /\ recent'[c] = stay
      BY <1>2, <1>7, <2>1
    <2>2. CASE c \in stay /\ c \notin new /\ recent'[c] = recent[c] \cap stay
      <3>1. /\ recent[c] \subseteq Clients \ {c}
            /\ \A d \in recent[c] : recent[d] \subseteq recent[c]
        BY <1>4, <2>2 DEF Ordered
      <3>2. ASSUME NEW d \in recent'[c] PROVE recent'[d] \subseteq recent'[c]
        <4>1. d \in recent[c] /\ d \in stay /\ d \in Clients' /\ d \notin new
          BY <1>2, <1>4, <2>2, <3>2
        <4>2. recent'[d] = recent[d] \cap stay
          BY <1>7, <4>1
        <4>. QED
          BY <2>2, <3>1, <4>1, <4>2
      <3>. QED
        BY <1>2, <2>2, <3>1, <3>2
    <2>. QED
      BY <1>7, <2>1, <2>2
  <1>10. \A l \in loops :
           /\ l \in Loop /\ Shown(l, gone, new) \in Loop
           /\ Shown(l, gone, new).told = l.told
           /\ Shown(l, gone, new).left = (l.left \ gone) \cup new
    <2>1. new \subseteq Jigsaws
      BY <1>4
    <2>. QED
      BY <2>1 DEF Shown, Loop, TypeOK
  <1>11. Clients' = (Clients \ gone) \cup new
    BY <1>2 DEF stay
  <1>12. loops' \subseteq Loop
    BY <1>2, <1>10
  <1>13. Iterating'
    BY <1>2, <1>10, <1>11 DEF Iterating
  <1>14. ToldOrToTell'
    BY <1>2, <1>10, <1>11 DEF ToldOrToTell
  <1>. QED
    BY <1>8, <1>9, <1>12, <1>13, <1>14

\* A notification loop begins with the oldest client, and has the others left.
LEMMA LoopStarts ==
    ASSUME TypeOK, Ordered, Iterating, ToldOrToTell, NEW p \in Entries, StartLoop(p),
           UNCHANGED recent
    PROVE  loops' \subseteq Loop /\ Iterating' /\ ToldOrToTell'
  <1>. DEFINE l == [gone |-> p, left |-> Clients \ Oldest(Clients), told |-> Oldest(Clients)]
  <1>1. loops' \subseteq loops \cup {l} /\ Clients' = Clients
    BY DEF StartLoop, Clients
  <1>2. l \in Loop
    BY DEF Loop, Oldest, TypeOK
  <1>3. l.left \subseteq Clients /\ Clients \subseteq l.told \cup l.left
    OBVIOUS
  <1>. HIDE DEF l
  <1>4. loops' \subseteq Loop
    BY <1>1, <1>2 DEF TypeOK
  <1>5. Iterating' /\ ToldOrToTell'
    BY <1>1, <1>3 DEF Iterating, ToldOrToTell
  <1>. QED
    BY <1>4, <1>5

LEMMA NotifyKeeps == ASSUME RegistryInv, NEW l \in loops, Notify(l) PROVE RegistryInv'
  <1>. USE DEF RegistryInv
  <1>. DEFINE next == Oldest(l.left)
              m == [l EXCEPT !.left = @ \ next, !.told = @ \cup next]
  <1>1. UNCHANGED <<groups, ends, old, walk, recent>> /\ loops' \subseteq loops \cup {m}
    BY DEF Notify, treeVars
  <1>2. l \in Loop /\ next \subseteq l.left
    BY DEF TypeOK, Oldest
  <1>. HIDE DEF next
  <1>3. m \in Loop /\ m.left = l.left \ next /\ m.told = l.told \cup next
    BY <1>2 DEF Loop
  <1>. HIDE DEF m
  <1>4. Clients' = Clients
    BY <1>1 DEF Clients
  <1>5. TypeOK'
    <2>1. loops' \subseteq Loop
      BY <1>1, <1>3 DEF TypeOK
    <2>. QED
      BY <1>1, <1>4, <2>1 DEF TypeOK
  <1>6. Tree' /\ Ordered' /\ Walking'
    BY <1>1, <1>4 DEF Tree, Ordered, Walking
  <1>7. Iterating'
    BY <1>1, <1>3, <1>4 DEF Iterating
  <1>8. ToldOrToTell'
    BY <1>1, <1>2, <1>3, <1>4 DEF ToldOrToTell
  <1>. QED
    BY <1>5, <1>6, <1>7, <1>8

(* The registry's steps *)

LEMMA RegistryStarts == Init => RegistryInv
  <1>. SUFFICES ASSUME Init PROVE RegistryInv
    OBVIOUS
  <1>1. Clients = {} /\ recent \in [{} -> SUBSET Jigsaws]
    BY DEF Init, Clients
  <1>2. IsFiniteSet(Clients) /\ Cardinality(Clients) <= MaxClients
    BY <1>1, FS_EmptySet, LimitAssumption
  <1>3. TypeOK
    BY <1>1, <1>2 DEF Init, TypeOK
  <1>4. Tree
    BY DEF Init, Tree
  <1>5. Ordered /\ Iterating /\ Walking /\ ToldOrToTell
    BY <1>1, <1>2 DEF Init, Ordered, Iterating, Walking, ToldOrToTell
  <1>. QED
    BY <1>3, <1>4, <1>5 DEF RegistryInv

\* addNode keeps end nodes from being above one another.
LEMMA Added ==
    ASSUME TypeOK, Tree, NEW p \in Entries, p \notin ends, CanAdd(p),
           ends' = ends \cup {p}, groups' = groups \cup Above(p)
    PROVE  Tree' /\ groups' \subseteq Paths /\ ends' \subseteq Entries
  <1>1. p \in Seq(Components) /\ p # <<>> /\ Above(p) \subseteq Paths
    BY EntryPaths, NodePaths
  <1>2. UNION {Above(q) : q \in ends'} \subseteq groups'
    BY DEF Tree
  <1>3. ASSUME NEW q \in ends PROVE ~IsPrefix(p, q) /\ ~IsPrefix(q, p)
    <2>1. q \in Seq(Components) /\ q # <<>> /\ q # p
      BY TreePaths
    <2>2. ~IsPrefix(q, p)
      BY <1>1, <2>1, AboveAre DEF CanAdd
    <2>3. ~IsPrefix(p, q)
      BY <1>1, <2>1, AboveEnds DEF CanAdd
    <2>. QED
      BY <2>2, <2>3
  <1>4. \A g \in groups' : Above(g) \subseteq groups'
    <2>1. ASSUME NEW g \in Above(p), NEW h \in Above(g) PROVE h \in Above(p)
      <3>1. g \in Seq(Components) /\ g # p /\ IsPrefix(g, p)
        BY <1>1, AboveAre
      <3>2. h \in Seq(Components) /\ h # <<>> /\ h # g /\ IsPrefix(h, g)
        BY <2>1, <3>1, AboveAre
      <3>3. IsPrefix(h, p) /\ h # p
        BY <1>1, <3>1, <3>2, PrefixOrder
      <3>. QED
        BY <1>1, <3>2, <3>3, AboveAre
    <2>. QED
      BY <2>1 DEF Tree
  <1>5. groups' \cap ends' = {}
    <2>1. p \notin Above(p)
      BY <1>1, AboveAre
    <2>. QED
      BY <2>1 DEF Tree, CanAdd
  <1>6. \A g \in groups' : (\E q \in ends' : g \in Above(q)) \/ Unreached(g)
    BY DEF Tree
  <1>7. \A q, r \in ends' : IsPrefix(q, r) => q = r
    BY <1>3 DEF Tree
  <1>8. Tree'
    BY <1>2, <1>4, <1>5, <1>6, <1>7 DEF Tree, Unreached
  <1>. QED
    BY <1>1, <1>8 DEF TypeOK

LEMMA UpdateKeeps == ASSUME RegistryInv, NEW j \in Jigsaws, Update(j) PROVE RegistryInv'
  <1>. USE DEF RegistryInv
  <1>. DEFINE p == PathOf[j]
  <1>1. RecentType' /\ Ordered' /\ loops' \subseteq Loop /\ Iterating' /\ ToldOrToTell'
    BY RecentSet DEF Update
  <1>2. walk = {} /\ walk' = {}
    BY DEF Update
  <1>3. Tree' /\ groups' \subseteq Paths /\ ends' \subseteq Entries /\ old' \subseteq ends'
    <2>1. CASE p \in ends /\ old' = old \ {p} /\ UNCHANGED <<groups, ends>>
      BY <2>1 DEF TypeOK, Tree
    <2>2. CASE /\ p \notin ends \cup {<<>>} /\ CanAdd(p)
               /\ ends' = ends \cup {p} /\ groups' = groups \cup Above(p) /\ UNCHANGED old
      <3>1. p \in Entries
        BY <2>2 DEF Entries
      <3>. QED
        BY <2>2, <3>1, Added DEF TypeOK
    <2>3. CASE UNCHANGED treeVars
      BY <2>3 DEF treeVars, TypeOK, Tree
    <2>. QED
      BY <2>1, <2>2, <2>3 DEF Update
  <1>4. TypeOK'
    BY <1>1, <1>2, <1>3 DEF TypeOK, RecentType
  <1>. QED
    BY <1>1, <1>2, <1>3, <1>4 DEF Walking

\* An end node is taken out, and a loop of notifications begins unless the tree
\* has thrown.
LEMMA NodeLeaves ==
    ASSUME RegistryInv, NEW p \in ends, RemoveNode(p), UNCHANGED recent,
           walk' \subseteq Entries
    PROVE  /\ TypeOK' /\ Tree' /\ Ordered' /\ Iterating' /\ ToldOrToTell'
           /\ ends' = ends \ {p} /\ old' = old \ {p}
  <1>. USE DEF RegistryInv
  <1>1. p \in Entries
    BY DEF TypeOK
  <1>2. loops' \subseteq Loop /\ Iterating' /\ ToldOrToTell'
    <2>1. CASE StartLoop(p)
      BY <1>1, <2>1, LoopStarts
    <2>2. CASE UNCHANGED loops
      BY <2>2 DEF TypeOK, Iterating, ToldOrToTell, Clients
    <2>. QED
      BY <2>1, <2>2 DEF RemoveNode
  <1>3. ends' = ends \ {p} /\ old' = old \ {p} /\ Tree' /\ groups' \subseteq groups
    BY Removed DEF RemoveNode
  <1>4. Clients' = Clients
    BY DEF Clients
  <1>5. TypeOK' /\ Ordered'
    BY <1>2, <1>3, <1>4 DEF TypeOK, Ordered
  <1>. QED
    BY <1>2, <1>3, <1>5

LEMMA PurgeKeeps == ASSUME RegistryInv, NEW p \in Entries, Purge(p) PROVE RegistryInv'
  <1>1. p \in ends /\ RemoveNode(p) /\ UNCHANGED <<walk, recent>> /\ walk = {}
    BY DEF Purge
  <1>2. /\ TypeOK' /\ Tree' /\ Ordered' /\ Iterating' /\ ToldOrToTell'
    BY <1>1, NodeLeaves DEF RegistryInv, TypeOK
  <1>. QED
    BY <1>1, <1>2 DEF RegistryInv, Walking

LEMMA AgeKeeps == ASSUME RegistryInv, NEW p \in Entries, Age(p) PROVE RegistryInv'
  <1>1. /\ walk = {} /\ p \in ends \ old /\ old' = old \cup {p}
        /\ UNCHANGED <<groups, ends, walk, recent, loops>> /\ Clients' = Clients
    BY DEF Age, Clients
  <1>. QED
    BY <1>1 DEF RegistryInv, TypeOK, Tree, Ordered, Iterating, Walking, ToldOrToTell

LEMMA StartSweepKeeps == RegistryInv /\ StartSweep => RegistryInv'
  <1>. SUFFICES ASSUME RegistryInv, StartSweep PROVE RegistryInv'
    OBVIOUS
  <1>1. walk' = ends /\ UNCHANGED <<groups, ends, old, recent, loops>> /\ Clients' = Clients
    BY DEF StartSweep, treeVars, Clients
  <1>. QED
    BY <1>1 DEF RegistryInv, TypeOK, Tree, Ordered, Iterating, Walking, ToldOrToTell

\* What a step of the walk does.
LEMMA Walked ==
    ASSUME RegistryInv, NEW p \in Entries, SweepNode(p)
    PROVE  /\ RegistryInv'
           /\ p \in walk
           /\ walk' = walk \ {p} \/ (walk' = {} /\ p \in old /\ Throws(p))
           /\ \/ p \in old /\ p \in ends /\ ends' = ends \ {p} /\ old' = old \ {p}
              \/ p \notin old /\ UNCHANGED <<ends, old>>
  <1>. USE DEF RegistryInv
  <1>1. /\ p \in walk /\ walk' \subseteq Entries /\ UNCHANGED recent
        /\ walk' = walk \ {p} \/ (walk' = {} /\ p \in old /\ Throws(p))
    BY DEF SweepNode, TypeOK
  <1>2. CASE p \in old
    <2>1. p \in ends /\ RemoveNode(p)
      BY <1>2 DEF SweepNode
    <2>2. /\ TypeOK' /\ Tree' /\ Ordered' /\ Iterating' /\ ToldOrToTell'
          /\ ends' = ends \ {p} /\ old' = old \ {p}
      BY <1>1, <2>1, NodeLeaves
    <2>3. Walking'
      BY <1>1, <2>2 DEF Walking
    <2>. QED
      BY <1>1, <1>2, <2>1, <2>2, <2>3
  <1>3. CASE p \notin old
    <2>1. UNCHANGED <<groups, ends, old, loops>> /\ Clients' = Clients
      BY <1>1, <1>3 DEF SweepNode, treeVars, Clients
    <2>2. TypeOK' /\ Tree' /\ Ordered' /\ Iterating' /\ ToldOrToTell'
      BY <1>1, <2>1 DEF TypeOK, Tree, Ordered, Iterating, ToldOrToTell
    <2>3. Walking'
      BY <1>1, <1>3, <2>1 DEF Walking
    <2>. QED
      BY <1>1, <1>3, <2>1, <2>2, <2>3
  <1>. QED
    BY <1>2, <1>3

LEMMA RegistryStutters == RegistryInv /\ UNCHANGED vars => RegistryInv'
  <1>. SUFFICES ASSUME RegistryInv, UNCHANGED vars PROVE RegistryInv'
    OBVIOUS
  <1>1. UNCHANGED <<groups, ends, old, walk, recent, loops>> /\ Clients' = Clients
    BY DEF vars, treeVars, Clients
  <1>. QED
    BY <1>1 DEF RegistryInv, TypeOK, Tree, Ordered, Iterating, Walking, ToldOrToTell

LEMMA RegistryStep == RegistryInv /\ [Next]_vars => RegistryInv'
  BY UpdateKeeps, PurgeKeeps, AgeKeeps, Walked, NotifyKeeps, StartSweepKeeps, RegistryStutters
  DEF Next

\* The invariant of DomainHandler, its storage and its NameTree.
THEOREM RegistryInvAlways == Spec => []RegistryInv
  BY RegistryStarts, RegistryStep, PTL DEF Spec

\* The variables of the registry keep their types; recent_clients keeps its
\* bound, whatever its sweep takes out.
THEOREM RegistryTypes == Spec => []TypeOK
  <1>1. RegistryInv => TypeOK
    BY DEF RegistryInv
  <1>. QED
    BY <1>1, RegistryInvAlways, PTL

\* handlePurgeEvent notifies every client that is there when it ends, though
\* clients come and go between its rounds.
THEOREM ToldOrToTellAlways == Spec => []ToldOrToTell
  <1>1. RegistryInv => ToldOrToTell
    BY DEF RegistryInv
  <1>. QED
    BY <1>1, RegistryInvAlways, PTL

\* queryNode finds a name as long as a jigsaw is registered under it, however
\* names run through one another: removeNode takes no group out that is needed,
\* and leaves none that is emptied within the MaxLevels levels it goes up.
THEOREM LookupsExactAlways == Spec => []LookupsExact
  <1>1. ASSUME TypeOK, Tree, NEW p \in Paths
        PROVE  /\ (\E q \in ends : IsPrefix(p, q)) => queryNode(p).found
               /\ queryNode(p).found => \/ \E q \in ends : IsPrefix(p, q)
                                        \/ \E e \in Entries : p \in Beyond(e)
               /\ queryNode(p).jigsaws = {q \in ends : q = p \/ Parent(q) = p}
    <2>1. p \in Seq(Components) /\ p # <<>>
      BY NodePaths
    <2>2. \A q \in ends : q \in Seq(Components) /\ q # <<>>
      BY <1>1, TreePaths
    <2>3. /\ (\E q \in ends : IsPrefix(p, q)) => hasNode(p)
          /\ hasNode(p) => (\E q \in ends : IsPrefix(p, q)) \/ Unreached(p)
      <3>1. ASSUME p \in groups PROVE (\E q \in ends : IsPrefix(p, q)) \/ Unreached(p)
        <4>1. CASE Unreached(p)
          BY <4>1
        <4>2. CASE \E q \in ends : p \in Above(q)
          BY <2>2, <4>2, AboveAre
        <4>. QED
          BY <1>1, <3>1, <4>1, <4>2 DEF Tree
      <3>2. ASSUME p \in ends PROVE \E q \in ends : IsPrefix(p, q)
        BY <2>1, <3>2, PrefixOrder
      <3>3. ASSUME NEW q \in ends, IsPrefix(p, q) PROVE p \in groups \cup ends
        BY <1>1, <2>1, <3>3, AboveEnds
      <3>. QED
        BY <3>1, <3>2, <3>3 DEF hasNode
    <2>4. ASSUME NEW q \in ends, Parent(q) = p PROVE p \in groups /\ p \notin ends
      <3>1. /\ Len(p) = Len(q) - 1 /\ IsPrefix(p, q) /\ Len(q) \in Nat \ {0}
        BY <2>2, <2>4, FrontIsPrefix DEF Parent
      <3>2. p # q
        BY <3>1
      <3>. QED
        BY <1>1, <2>1, <3>1, <3>2, AboveEnds
    <2>5. (IF p \in ends THEN {p} ELSE {q \in ends : p \in groups /\ Parent(q) = p})
            = {q \in ends : q = p \/ Parent(q) = p}
      BY <2>4
    <2>. QED
      BY <2>3, <2>5 DEF queryNode, Unreached
  <1>2. RegistryInv => LookupsExact
    BY <1>1 DEF RegistryInv, LookupsExact
  <1>. QED
    BY <1>2, RegistryInvAlways, PTL

\* clearExpiredNodes takes out every jigsaw that has expired and no other,
\* though it removes nodes from the tree that it walks over.
THEOREM SweepExactAlways == Spec => SweepExact
  <1>. DEFINE Cut == \E p \in ends \ ends' : Throws(p)
              A == walk # {} => /\ ends \ old \subseteq ends'
                                /\ walk' = {} => old' = {} \/ Cut
  <1>1. ASSUME RegistryInv, [Next]_vars PROVE A
    <2>. USE DEF RegistryInv
    <2>. SUFFICES ASSUME walk # {}
                  PROVE  ends \ old \subseteq ends' /\ (walk' = {} => old' = {} \/ Cut)
      OBVIOUS
    <2>1. ASSUME NEW p \in Entries, SweepNode(p)
          PROVE  ends \ old \subseteq ends' /\ (walk' = {} => old' = {} \/ Cut)
      <3>1. /\ walk' = walk \ {p} \/ (walk' = {} /\ p \in old /\ Throws(p))
            /\ p \in walk
            /\ \/ p \in old /\ p \in ends /\ ends' = ends \ {p} /\ old' = old \ {p}
               \/ p \notin old /\ UNCHANGED <<ends, old>>
        BY <1>1, <2>1, Walked
      <3>2. old \subseteq walk
        BY <1>1 DEF Walking
      <3>3. CASE walk' = walk \ {p}
        BY <3>1, <3>2, <3>3
      <3>4. CASE walk' = {} /\ p \in old /\ Throws(p)
        BY <3>1, <3>4
      <3>. QED
        BY <3>1, <3>3, <3>4
    <2>2. CASE UNCHANGED vars
      BY <2>2 DEF vars, treeVars
    <2>. QED
      BY <1>1, <2>1, <2>2 DEF Next, Update, Purge, Age, StartSweep, Notify
  <1>2. RegistryInv /\ [Next]_vars => [A]_vars
    BY <1>1
  <1>. QED
    BY <1>2, RegistryInvAlways, PTL DEF Spec, SweepExact

\* An update, purge or sweep of the NameTree changes the entry it is about and
\* no other, as in a flat directory of paths.
THEOREM ImplementsDirectoryAlways == Spec => ImplementsDirectory
  <1>1. Init => Flat!Init
    BY DEF Init, Flat!Init
  <1>2. ASSUME RegistryInv, [Next]_vars PROVE [Flat!Next]_Flat!vars
    <2>. USE DEF RegistryInv
    <2>1. ASSUME NEW p \in ends PROVE Flat!Free(p)
      BY <1>2 DEF Flat!Free, Flat!IsStrictPrefix, Flat!IsPrefix, Tree, IsPrefix
    <2>2. ASSUME NEW j \in Jigsaws, Update(j) PROVE Flat!Next \/ UNCHANGED <<ends, old>>
      <3>. DEFINE p == PathOf[j]
      <3>1. CASE p \in ends /\ old' = old \ {p} /\ UNCHANGED <<groups, ends>>
        <4>1. Flat!Update(p)
          BY <2>1, <3>1 DEF Flat!Update
        <4>. QED
          BY <1>2, <3>1, <4>1 DEF Flat!Next, TypeOK
      <3>2. CASE /\ p \notin ends \cup {<<>>} /\ CanAdd(p)
                 /\ ends' = ends \cup {p} /\ groups' = groups \cup Above(p) /\ UNCHANGED old
        <4>1. p \in Entries
          BY <3>2 DEF Entries
        <4>2. Tree' /\ ends' \subseteq Entries
          BY <1>2, <3>2, <4>1, Added
        <4>3. \A q \in ends : ~IsPrefix(p, q) /\ ~IsPrefix(q, p)
          BY <3>2, <4>2 DEF Tree
        <4>4. Flat!Free(p)
          BY <4>3 DEF Flat!Free, Flat!IsStrictPrefix, Flat!IsPrefix, IsPrefix
        <4>5. old' = old \ {p}
          BY <1>2, <3>2 DEF TypeOK
        <4>. QED
          BY <3>2, <4>1, <4>4, <4>5 DEF Flat!Next, Flat!Update
      <3>3. CASE UNCHANGED treeVars
        BY <3>3 DEF treeVars
      <3>. QED
        BY <2>2, <3>1, <3>2, <3>3 DEF Update
    <2>3. ASSUME NEW p \in Entries, p \in ends, ends' = ends \ {p}, old' = old \ {p}
          PROVE  Flat!Next
      BY <2>3 DEF Flat!Next, Flat!Leave
    <2>4. ASSUME NEW p \in Entries, Purge(p) PROVE Flat!Next
      <3>1. p \in ends /\ RemoveEndNode(p)
        BY <2>4 DEF Purge, RemoveNode
      <3>. QED
        BY <1>2, <2>3, <3>1, Removed
    <2>5. ASSUME NEW p \in Entries, Age(p) PROVE Flat!Next
      BY <2>5 DEF Age, Flat!Next, Flat!Age
    <2>6. ASSUME NEW p \in Entries, SweepNode(p) PROVE Flat!Next \/ UNCHANGED <<ends, old>>
      BY <1>2, <2>3, <2>6, Walked
    <2>7. ASSUME NEW l \in loops, Notify(l) PROVE UNCHANGED <<ends, old>>
      BY <2>7 DEF Notify, treeVars
    <2>8. CASE StartSweep
      BY <2>8 DEF StartSweep, treeVars, Flat!vars
    <2>9. CASE UNCHANGED vars
      BY <2>9 DEF vars, treeVars, Flat!vars
    <2>. QED
      BY <1>2, <2>2, <2>4, <2>5, <2>6, <2>7, <2>8, <2>9 DEF Next, Flat!vars
  <1>. QED
    BY <1>1, <1>2, RegistryInvAlways, PTL DEF Spec, ImplementsDirectory, Flat!Spec
=============================================================================
