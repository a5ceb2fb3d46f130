----------------------------- MODULE LimitedMap -----------------------------
(***************************************************************************)
(* src/utils/LimitedMap.ts: the bounded, expiring map under the packet     *)
(* builders, the invokers of a provider, the running queries and the query *)
(* cache.  An insertion-ordered array `keys` and a hash `map` hold the     *)
(* same keys; a full map evicts keys[0]; every (GcLimit+2)-th set first    *)
(* sweeps the expired entries out.  The sweep deletes from `keys` while a  *)
(* for..of runs over it, so a deletion moves the next key under a cursor   *)
(* that has already passed: that key is not looked at.                     *)
(*                                                                         *)
(* A call is synchronous.  The sweep is unrolled into one step per         *)
(* iteration only to keep the loop as the code has it: while it runs no    *)
(* other operation is enabled and time stands still.                       *)
(***************************************************************************)
EXTENDS Naturals, Sequences, SequencesExt

CONSTANTS Keys,     \* the keys callers use
          Vals,     \* the values callers store
          MaxSize,  \* the constructor's size: 500, 100 or 1000 in the program
          GcLimit,  \* 10 in checkGc
          Ttl       \* 20 s in Value.isExpired, in clock ticks

ASSUME MaxSizeAssumption == MaxSize \in Nat \ {0}
ASSUME GcLimitAssumption == GcLimit \in Nat
ASSUME TtlAssumption     == Ttl \in Nat

VARIABLES keys,     \* the array of keys, oldest insertion first
          map,      \* key -> Value: what it holds and how old it is
          gc,       \* gc_counter
          sweep,    \* the set whose sweep is running, or Idle
          newer     \* history: key -> the keys inserted after it

mapVars == <<keys, map, gc, sweep, newer>>

Idle == [at |-> 0]

Value == [val : Vals, age : 0 .. Ttl + 1]      \* age stops at Ttl+1: expired

MapTypeOK ==
    /\ keys \in Seq(Keys)
    /\ map \in [DOMAIN map -> Value] /\ DOMAIN map \subseteq Keys
    /\ gc \in 0 .. GcLimit + 1
    /\ \/ sweep = Idle
       \/ sweep \in [at : Nat \ {0}, removed : Nat, key : Keys, val : Vals]
    /\ newer \in [DOMAIN map -> SUBSET Keys]

MapInit ==
    /\ keys = <<>>
    /\ map = <<>>
    /\ gc = 0
    /\ sweep = Idle
    /\ newer = <<>>

-----------------------------------------------------------------------------
isExpired(k) == map[k].age > Ttl

Position(k) == CHOOSE i \in 1 .. Len(keys) : keys[i] = k

\* delete(key) of a key that is present; of an absent one it throws and
\* changes nothing.
Drop(i) ==
    LET rest == DOMAIN map \ {keys[i]}
    IN  /\ keys' = RemoveAt(keys, i)
        /\ map' = Restrict(map, rest)
        /\ newer' = Restrict(newer, rest)

\* Fault: a full map evicts the last key instead of keys[0].
Store_EvictsNewest(k, v) ==
    /\ k \notin DOMAIN map
    /\ LET full == Len(keys) >= MaxSize
           rest == IF full THEN DOMAIN map \ {Last(keys)} ELSE DOMAIN map
       IN  /\ keys' = Append(IF full THEN Front(keys) ELSE keys, k)
           /\ map' = [x \in rest \cup {k} |->
                         IF x = k THEN [val |-> v, age |-> 0] ELSE map[x]]
           /\ newer' = [x \in rest \cup {k} |->
                         IF x = k THEN {} ELSE newer[x] \cup {k}]

\* set(key, value) past checkGc: overwrite in place when the value differs
\* (the same value leaves even the age alone), else push, evicting keys[0]
\* from a full map.
Store(k, v) ==
    IF k \in DOMAIN map
    THEN /\ map' = IF map[k].val # v
                   THEN [map EXCEPT ![k] = [val |-> v, age |-> 0]] ELSE map
         /\ UNCHANGED <<keys, newer>>
    ELSE LET full == Len(keys) >= MaxSize
             rest == IF full THEN DOMAIN map \ {keys[1]} ELSE DOMAIN map
         IN  /\ keys' = Append(IF full THEN Tail(keys) ELSE keys, k)
             /\ map' = [x \in rest \cup {k} |->
                           IF x = k THEN [val |-> v, age |-> 0] ELSE map[x]]
             /\ newer' = [x \in rest \cup {k} |->
                           IF x = k THEN {} ELSE newer[x] \cup {k}]

-----------------------------------------------------------------------------
Set(k, v) ==
    /\ sweep = Idle
    /\ gc <= GcLimit
    /\ gc' = gc + 1
    /\ Store(k, v)
    /\ UNCHANGED sweep

\* Fault: the sweep starts at the second key.
SetWithGc_FromSecond(k, v) ==
    /\ sweep = Idle
    /\ gc > GcLimit
    /\ gc' = 0
    /\ sweep' = [at |-> 2, removed |-> 0, key |-> k, val |-> v]
    /\ UNCHANGED <<keys, map, newer>>

SetWithGc(k, v) ==
    /\ sweep = Idle
    /\ gc > GcLimit
    /\ gc' = 0
    /\ sweep' = [at |-> 1, removed |-> 0, key |-> k, val |-> v]
    /\ UNCHANGED <<keys, map, newer>>

\* One iteration of `for (let key of this.keys)`: the cursor moves on by one
\* whether or not the array shrank under it.
Sweep ==
    /\ sweep # Idle
    /\ sweep.at <= Len(keys)
    /\ IF isExpired(keys[sweep.at])
       THEN /\ Drop(sweep.at)
            /\ sweep' = [sweep EXCEPT !.at = @ + 1, !.removed = @ + 1]
       ELSE /\ sweep' = [sweep EXCEPT !.at = @ + 1]
            /\ UNCHANGED <<keys, map, newer>>
    /\ UNCHANGED gc

SweepEnd ==
    /\ sweep # Idle
    /\ sweep.at > Len(keys)
    /\ Store(sweep.key, sweep.val)
    /\ sweep' = Idle
    /\ UNCHANGED gc

Delete(k) ==
    /\ sweep = Idle
    /\ k \in DOMAIN map
    /\ Drop(Position(k))
    /\ UNCHANGED <<gc, sweep>>

Tick ==
    /\ sweep = Idle
    /\ map' = [k \in DOMAIN map |->
                 [map[k] EXCEPT !.age = IF @ > Ttl THEN @ ELSE @ + 1]]
    /\ UNCHANGED <<keys, gc, sweep, newer>>

MapNext ==
    \/ \E k \in Keys, v \in Vals : Set(k, v) \/ SetWithGc(k, v)
    \/ Sweep
    \/ SweepEnd
    \/ \E k \in Keys : Delete(k)
    \/ Tick

MapSpec == MapInit /\ [][MapNext]_mapVars

-----------------------------------------------------------------------------
(* Properties *)

\* The array and the hash hold the same keys, each key once, and never more
\* than `maxsize` of them, at every point of every call: length() counts the
\* map's entries, indexOf finds what has() reports, and the sweep never meets
\* "this map behave unexpected condition".
Consistent ==
    /\ IsInjective(keys)
    /\ Range(keys) = DOMAIN map
    /\ Len(keys) <= MaxSize

\* keys is in order of insertion: whatever stands behind a key was inserted
\* after it, however often values were replaced in place meanwhile.
InsertionOrder ==
    \A i, j \in DOMAIN keys : i < j => keys[j] \in newer[keys[i]]

\* What a sweep misses, it misses because it removed the neighbour: behind
\* the cursor no more expired entries survive than were removed.  A sweep thus
\* at least halves the expired entries; that it removes them all is false.
SweepHalves ==
    sweep # Idle =>
        LET passed == {i \in DOMAIN keys : i < sweep.at /\ isExpired(keys[i])}
        IN  Cardinality(passed) <= sweep.removed

\* A fresh entry leaves the map in two ways only: its owner deletes it, or
\* MaxSize keys inserted after it push it out.  The sweep never takes one, and
\* no younger entry survives at its cost.
FreshLeavesByOwnerOrEviction ==
    [][\A k \in DOMAIN map \ DOMAIN map' :
          \/ isExpired(k)
          \/ \E x \in DOMAIN map' : x \notin DOMAIN map
                /\ Cardinality(DOMAIN map') = MaxSize
                /\ DOMAIN map' \subseteq newer[k] \cup {x}
          \/ sweep = Idle /\ sweep' = Idle /\ gc' = gc]_mapVars
=============================================================================
