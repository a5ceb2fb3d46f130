------------------------- MODULE NetComponentProof -------------------------
(***************************************************************************)
(* Proofs about NetComponent, for any signs, packets and handlers and any  *)
(* sizes of packets and of the queue: type correctness, that a batch fits  *)
(* its buffer and meets a socket that is ready, and that a packet's        *)
(* handlers are called in order and none is passed over.                   *)
(***************************************************************************)
EXTENDS NetComponent, SequenceLemmas, FiniteSetTheorems

(* The map: the array of a sign holds the references that are plugged under  *)
(* it, oldest first, and is its alone; an array that left the map is empty.  *)
Sorted(q) == \A i, j \in DOMAIN q : i < j => q[i] < q[j]

Holds(s) ==
    /\ at[s] <= refid
    /\ at[s] # 0 => list[at[s]] # <<>>
    /\ \A t \in Signs : at[t] = at[s] /\ at[s] # 0 => t = s
    /\ \A r \in Refs : r \in plugged /\ signOf[r] = s <=>
                         at[s] # 0 /\ \E i \in DOMAIN list[at[s]] : list[at[s]][i] = r

MapInv ==
    /\ plugged \subseteq 1 .. refid
    /\ plugRef = Cardinality(plugged)
    /\ \A a \in Refs : Sorted(list[a])
    /\ \A a \in Refs : (\A s \in Signs : at[s] # a) => list[a] = <<>>
    /\ \A s \in Signs : Holds(s)

(* The loop of a packet: what is due to be called is ahead of the key, and   *)
(* so are only references later than the one that is being called.           *)
Ahead(g, k) ==
    \A r \in g.due : \E j \in DOMAIN list[g.array] :
      k <= j /\ j <= g.keys /\ list[g.array][j] = r

OfSign(g, s) ==
    /\ g.router > 0
    /\ g.array \in 1 .. refid
    /\ list[g.array] = <<>> \/ at[s] = g.array

Goes(g, s) ==
    IF g.calling
    THEN /\ OfSign(g, s)
         /\ g.ref <= refid
         /\ \A j \in DOMAIN list[g.array] : j > g.key => list[g.array][j] > g.ref
         /\ ~g.excused => Ahead(g, g.key + 1)
    ELSE g.router > 0 /\ ~g.excused => g.due = {}

LoopInv == \A p \in Packets : Goes(going[p], SignAt(p, going[p].router))

RouterInv == RouterTypeOK /\ MapInv /\ LoopInv

(* The timer's batch, and the closing of the three in their order.           *)
BatchInv ==
    /\ MinSize * batch.count <= batch.sum
    /\ batch.count > 0 => MinSize * (batch.count - 1) <= MaxPending

OrderInv ==
    /\ closing \in {"open", "router", "client", "socket", "done"}
    /\ ~Idle => timer /\ socket = "ready"
    /\ queue # <<>> => socket # "starting"
    /\ closing = "open" => socket \in {"starting", "ready"}
    /\ closing = "router" => socket = "ready"
    /\ closing = "client" => socket = "ready" /\ ~timer
    /\ closing \in {"socket", "done"} => ~timer

ClientInv == ClientTypeOK /\ BatchInv /\ OrderInv

IInv ==
    /\ RouterInv /\ ClientInv
    /\ emitting \in BOOLEAN

-----------------------------------------------------------------------------
(* The loop of a packet *)

LEMMA LoopGoes ==
  ASSUME RouterTypeOK, MapInv, NEW g \in Going, NEW s \in Signs, NEW k \in Nat \ {0},
         OfSign(g, s), ~g.excused => Ahead(g, k)
  PROVE  /\ Loop(g, k) \in Going
         /\ Goes(Loop(g, k), s)
         /\ Loop(g, k).router = g.router
         /\ Loop(g, k).calling => /\ k \in DOMAIN list[g.array]
                                  /\ Loop(g, k).ref = list[g.array][k]
                                  /\ Loop(g, k).ref \in plugged
                                  /\ signOf[Loop(g, k).ref] = s
  <1>. DEFINE q == list[g.array]
              h == Loop(g, k)
  <1>1. g.array \in Refs /\ q \in Seq(Refs) /\ refid \in 0 .. MaxRefs
    BY RefsAssumption DEF OfSign, RouterTypeOK, Refs
  <1>2. CASE k <= g.keys /\ k \in DOMAIN q
    <2>1. h = [g EXCEPT !.calling = TRUE, !.key = k, !.ref = q[k], !.due = @ \ {q[k]}]
      BY <1>2 DEF Loop
    <2>2. q[k] \in Refs /\ q[k] \in plugged /\ signOf[q[k]] = s
      <3>1. q # <<>> /\ q[k] \in Refs
        BY <1>1, <1>2
      <3>2. at[s] = g.array /\ at[s] # 0
        BY <3>1, <1>1 DEF OfSign, Refs
      <3>. QED
        BY <1>2, <3>1, <3>2 DEF MapInv, Holds
    <2>3. h \in Going
      <3>1. h = [router |-> g.router, calling |-> TRUE, array |-> g.array, keys |-> g.keys, key |-> k,
                 ref |-> q[k], due |-> g.due \ {q[k]}, excused |-> g.excused]
        BY <2>1 DEF Going
      <3>. QED
        BY <3>1, <2>2, RefsAssumption DEF Going, Refs
    <2>4. h.calling /\ h.array = g.array /\ h.keys = g.keys /\ h.key = k /\ h.ref = q[k]
          /\ h.due = g.due \ {q[k]} /\ h.excused = g.excused /\ h.router = g.router
      BY <2>1 DEF Going
    <2>5. \A j \in DOMAIN q : j > k => q[j] > q[k]
      BY <1>1, <1>2 DEF MapInv, Sorted
    <2>6. ~h.excused => Ahead(h, k + 1)
      <3>. SUFFICES ASSUME ~h.excused, NEW r \in h.due
                    PROVE  \E j \in DOMAIN q : k + 1 <= j /\ j <= g.keys /\ q[j] = r
        BY <2>4 DEF Ahead
      <3>1. PICK j \in DOMAIN q : k <= j /\ j <= g.keys /\ q[j] = r
        BY <2>4 DEF Ahead
      <3>2. j # k /\ j \in Nat
        BY <3>1, <2>4, <1>1
      <3>. QED
        BY <3>1, <3>2
    <2>7. q[k] <= refid
      <3>1. \A r \in plugged : r <= refid
        BY <1>1, RefsAssumption DEF MapInv
      <3>. QED
        BY <3>1, <2>2
    <2>. QED
      BY <2>2, <2>3, <2>4, <2>5, <2>6, <2>7, <1>2 DEF Goes, OfSign
  <1>3. CASE ~(k <= g.keys /\ k \in DOMAIN q)
    <2>1. h = [g EXCEPT !.calling = FALSE]
      BY <1>3 DEF Loop
    <2>2. h \in Going /\ ~h.calling /\ h.due = g.due /\ h.excused = g.excused
          /\ h.router = g.router
      BY <2>1 DEF Going
    <2>3. ASSUME ~g.excused, NEW r \in g.due PROVE FALSE
      <3>1. PICK j \in DOMAIN q : k <= j /\ j <= g.keys /\ q[j] = r
        BY <2>3 DEF Ahead
      <3>2. DOMAIN q = 1 .. Len(q) /\ Len(q) \in Nat /\ g.keys \in Nat
        BY <1>1 DEF Going
      <3>. QED
        BY <3>1, <3>2, <1>3
    <2>. QED
      BY <2>2, <2>3 DEF Goes
  <1>. QED
    BY <1>2, <1>3

LEMMA NotYetIsGoing == NotYet \in Going
  BY RefsAssumption DEF NotYet, Going, Refs

LEMMA WithArray ==
  ASSUME NEW g \in Going, NEW a \in 0 .. MaxRefs, NEW n \in Nat, NEW due \in SUBSET Refs
  PROVE  [g EXCEPT !.array = a, !.keys = n, !.due = due] \in Going
  BY DEF Going

LEMMA BeginsGoes ==
  ASSUME RouterTypeOK, MapInv, NEW p \in Packets, NEW n \in {1, 2}
  PROVE  /\ Begins(p, n) \in Going
         /\ Goes(Begins(p, n), SignAt(p, n))
         /\ Begins(p, n).router = n
         /\ Begins(p, n).calling => /\ Begins(p, n).ref \in plugged
                                    /\ signOf[Begins(p, n).ref] = SignAt(p, n)
  <1>. DEFINE s == SignAt(p, n)
              a == at[s]
              due == {r \in plugged : signOf[r] = s}
              e == [NotYet EXCEPT !.router = n]
              g == [e EXCEPT !.array = a, !.keys = Keys(list[a]), !.due = due]
  <1>0. s \in Signs /\ a \in 0 .. MaxRefs
    BY PacketsAssumption DEF SignAt, RouterTypeOK
  <1>1. /\ e \in Going /\ e.router = n
        /\ ~e.calling /\ e.due = {} /\ ~e.excused
    <2>1. e \in Going /\ e.router = n
      BY NotYetIsGoing DEF Going
    <2>2. e.calling = NotYet.calling /\ e.due = NotYet.due /\ e.excused = NotYet.excused
      BY NotYetIsGoing DEF Going
    <2>. QED
      BY <2>1, <2>2 DEF NotYet
  <1>2. CASE a = 0
    <2>1. Begins(p, n) = e
      BY <1>2 DEF Begins
    <2>. QED
      BY <1>1, <2>1 DEF Goes
  <1>3. CASE a # 0
    <2>1. Begins(p, n) = Loop(g, 1)
      BY <1>3 DEF Begins
    <2>2. a \in Refs /\ list[a] \in Seq(Refs)
      BY <1>0, <1>3, RefsAssumption DEF RouterTypeOK, Refs
    <2>3. /\ g.router = n /\ g.array = a /\ g.keys = Len(list[a])
          /\ g.due = due /\ ~g.excused
      BY <1>1 DEF Going, Keys
    <2>4. g \in Going
      <3>1. due \in SUBSET Refs /\ Keys(list[a]) \in Nat
        BY <2>2 DEF RouterTypeOK, Keys
      <3>. HIDE DEF e, a, due
      <3>. QED
        BY <3>1, <1>0, <1>1, WithArray
    <2>5. OfSign(g, s)
      BY <2>3, <1>0, <2>2 DEF OfSign, MapInv, Holds, RouterTypeOK, Refs
    <2>6. Ahead(g, 1)
      <3>. SUFFICES ASSUME NEW r \in plugged, signOf[r] = s
                    PROVE  \E j \in DOMAIN list[a] : 1 <= j /\ j <= Len(list[a]) /\ list[a][j] = r
        BY <2>3 DEF Ahead
      <3>1. r \in Refs
        BY DEF RouterTypeOK
      <3>2. PICK j \in DOMAIN list[a] : list[a][j] = r
        BY <3>1, <1>0 DEF MapInv, Holds
      <3>. QED
        BY <3>2, <2>2
    <2>7. g.router = n
      BY <2>3
    <2>. HIDE DEF g, s, e, a
    <2>. QED
      BY <1>0, <2>1, <2>4, <2>5, <2>6, <2>7, LoopGoes DEF s
  <1>. QED
    BY <1>2, <1>3

-----------------------------------------------------------------------------
(* Plugs and unplugs *)

LEMMA RefsFinite == IsFiniteSet(Refs)
  BY RefsAssumption, FS_Interval DEF Refs

LEMMA ListedArePlugged ==
  ASSUME RouterTypeOK, MapInv, NEW a \in Refs, NEW i \in DOMAIN list[a]
  PROVE  list[a][i] \in plugged /\ list[a][i] <= refid
  <1>1. list[a] \in Seq(Refs) /\ list[a] # <<>> /\ list[a][i] \in Refs
    BY DEF RouterTypeOK
  <1>2. PICK s \in Signs : at[s] = a
    BY <1>1 DEF MapInv
  <1>3. at[s] # 0
    BY <1>2 DEF Refs
  <1>4. list[a][i] \in plugged
    BY <1>1, <1>2, <1>3 DEF MapInv, Holds
  <1>5. \A r \in plugged : r <= refid
    BY RefsAssumption DEF MapInv, RouterTypeOK
  <1>. QED
    BY <1>4, <1>5

LEMMA SortedRemoval ==
  ASSUME NEW q \in Seq(Refs), Sorted(q), NEW i \in DOMAIN q
  PROVE  /\ Sorted(RemoveAt(q, i))
         /\ \A x : (\E k \in DOMAIN RemoveAt(q, i) : RemoveAt(q, i)[k] = x) <=>
                   x # q[i] /\ \E k \in DOMAIN q : q[k] = x
  <1>. DEFINE n == Len(q)
              u == RemoveAt(q, i)
  <1>1. i \in 1 .. n /\ DOMAIN q = 1 .. n /\ n \in Nat /\ \A k \in 1 .. n : q[k] \in Nat
    <2>1. Refs \subseteq Nat
      BY RefsAssumption DEF Refs
    <2>2. \A k \in 1 .. n : q[k] \in Refs
      BY ElementOfSeq
    <2>3. i \in 1 .. n /\ DOMAIN q = 1 .. n /\ n \in Nat
      OBVIOUS
    <2>. QED
      BY <2>1, <2>2, <2>3, Zenon
  <1>2. u \in Seq(Refs) /\ Len(u) = n - 1
        /\ \A k \in 1 .. n - 1 : u[k] = IF k < i THEN q[k] ELSE q[k + 1]
    BY <1>1, RemoveAtShifts
  <1>3. DOMAIN u = 1 .. n - 1
    BY <1>1, <1>2
  <1>. DEFINE from(k) == IF k < i THEN k ELSE k + 1
  <1>a. \A k \in DOMAIN u : from(k) \in DOMAIN q /\ from(k) # i /\ u[k] = q[from(k)]
    BY <1>1, <1>2, <1>3
  <1>b. \A k, l \in DOMAIN u : k < l => from(k) < from(l)
    BY <1>1, <1>3
  <1>c. \A k, l \in DOMAIN q : k # l => q[k] # q[l]
    BY <1>1 DEF Sorted
  <1>. HIDE DEF u, n, from
  <1>4. Sorted(u)
    BY <1>a, <1>b DEF Sorted
  <1>5. ASSUME NEW k \in DOMAIN u
        PROVE  u[k] # q[i] /\ \E l \in DOMAIN q : q[l] = u[k]
    BY <1>a, <1>c
  <1>6. ASSUME NEW k \in DOMAIN q, q[k] # q[i]
        PROVE  \E l \in DOMAIN u : u[l] = q[k]
    <2>1. CASE k < i
      <3>1. k \in DOMAIN u /\ u[k] = q[k]
        BY <2>1, <1>1, <1>2, <1>3
      <3>. QED
        BY <3>1
    <2>2. CASE k > i
      <3>1. k - 1 \in DOMAIN u /\ u[k - 1] = q[k]
        BY <2>2, <1>1, <1>2, <1>3
      <3>. QED
        BY <3>1
    <2>. QED
      BY <1>1, <1>6, <2>1, <2>2
  <1>. QED
    BY <1>4, <1>5, <1>6 DEF u

LEMMA PlugStep ==
  ASSUME RouterInv, NEW s \in Signs, Plug(s)
  PROVE  RouterInv'
  <1>. DEFINE r == refid + 1
              a == IF at[s] = 0 THEN r ELSE at[s]
  <1>0. RouterTypeOK /\ MapInv /\ LoopInv
    BY DEF RouterInv
  <1>1. /\ refid \in Nat /\ r \in Refs /\ a \in Refs /\ refid' = r
        /\ list \in [Refs -> Seq(Refs)] /\ at \in [Signs -> 0 .. MaxRefs]
        /\ signOf \in [Refs -> Signs] /\ plugged \subseteq Refs
    BY <1>0, RefsAssumption DEF RouterTypeOK, Refs, Plug
  <1>2. /\ signOf' = [signOf EXCEPT ![r] = s]
        /\ plugged' = plugged \cup {r}
        /\ plugRef' = plugRef + 1
        /\ at' = [at EXCEPT ![s] = a]
        /\ list' = [list EXCEPT ![a] = Append(@, r)]
        /\ going' = going
    BY DEF Plug
  <1>3. /\ \A x \in plugged : x \in Nat /\ x <= refid
        /\ \A t \in Signs : at[t] \in Nat /\ at[t] <= refid
        /\ \A b \in Refs : \A i \in DOMAIN list[b] : list[b][i] \in plugged
    BY <1>0, <1>1, RefsAssumption, ListedArePlugged DEF MapInv, Holds, Refs
  <1>4. /\ at[s] = 0 => list[a] = <<>>
        /\ \A t \in Signs \ {s} : at[t] # a
        /\ a <= r
    BY <1>0, <1>1, <1>3 DEF MapInv, Holds
  <1>5. /\ list'[a] \in Seq(Refs) /\ DOMAIN list[a] = 1 .. Len(list[a]) /\ Len(list[a]) \in Nat
        /\ DOMAIN list'[a] = 1 .. Len(list[a]) + 1
        /\ \A i \in DOMAIN list[a] : list'[a][i] = list[a][i]
        /\ list'[a][Len(list[a]) + 1] = r
        /\ \A b \in Refs : b # a => list'[b] = list[b]
    <2>1. list[a] \in Seq(Refs) /\ list'[a] = Append(list[a], r)
          /\ \A b \in Refs : b # a => list'[b] = list[b]
      BY <1>1, <1>2
    <2>2. DOMAIN list[a] = 1 .. Len(list[a]) /\ Len(list[a]) \in Nat
      BY <2>1, LenProperties
    <2>3. /\ Append(list[a], r) \in Seq(Refs) /\ Len(Append(list[a], r)) = Len(list[a]) + 1
          /\ \A i \in 1 .. Len(list[a]) : Append(list[a], r)[i] = list[a][i]
          /\ Append(list[a], r)[Len(list[a]) + 1] = r
      BY <1>1, <2>1, AppendProperties
    <2>4. DOMAIN Append(list[a], r) = 1 .. Len(list[a]) + 1
      BY <2>3, LenProperties
    <2>. QED
      BY <2>1, <2>2, <2>3, <2>4
  <1>6. \A t \in Signs : at'[t] = IF t = s THEN a ELSE at[t]
    BY <1>1, <1>2
  <1>7. \A x \in Refs : signOf'[x] = IF x = r THEN s ELSE signOf[x]
    BY <1>1, <1>2
  <1>t. plugRef' = Cardinality(plugged')
    <2>1. r \notin plugged
      BY <1>1, <1>3
    <2>2. IsFiniteSet(plugged)
      BY <1>1, RefsFinite, FS_Subset
    <2>. QED
      BY <2>1, <2>2, <1>0, <1>2, FS_AddElement DEF MapInv
  <1>8. RouterTypeOK'
    <2>1. at' \in [Signs -> 0 .. MaxRefs] /\ list' \in [Refs -> Seq(Refs)]
      BY <1>1, <1>2, <1>5, RefsAssumption DEF Refs
    <2>. QED
      BY <2>1, <1>0, <1>1, <1>2, RefsAssumption DEF RouterTypeOK, Refs, Plug
  <1>. HIDE DEF r, a
  <1>9. MapInv'
    <2>1. plugged' \subseteq 1 .. refid'
      BY <1>1, <1>2, <1>0 DEF MapInv, r
    <2>2. ASSUME NEW b \in Refs PROVE Sorted(list[b])'
      <3>1. Sorted(list[b])
        BY <1>0 DEF MapInv
      <3>2. CASE b # a
        BY <3>1, <3>2, <1>5 DEF Sorted
      <3>3. CASE b = a
        <4>1. \A i \in DOMAIN list[a] : list[a][i] < r
          <5>1. \A x \in plugged : x < r
            BY <1>1, <1>3 DEF r
          <5>. QED
            BY <5>1, <1>1, <1>3
        <4>. QED
          BY <3>1, <3>3, <4>1, <1>5 DEF Sorted
      <3>. QED
        BY <3>2, <3>3
    <2>3. ASSUME NEW b \in Refs, \A t \in Signs : at'[t] # b PROVE list'[b] = <<>>
      <3>1. b # a /\ \A t \in Signs : at[t] # b
        BY <2>3, <1>6 DEF a, Refs
      <3>. QED
        BY <3>1, <1>0, <1>5 DEF MapInv
    <2>4. ASSUME NEW t \in Signs PROVE Holds(t)'
      <3>. Holds(t) /\ Holds(s)
        BY <1>0 DEF MapInv
      <3>1. at'[t] <= refid'
        <4>1. at[t] <= refid /\ at[t] \in Nat /\ (at'[t] = at[t] \/ at'[t] = a)
          BY <1>3, <1>6
        <4>2. a <= r /\ a \in Nat /\ r \in Nat /\ refid' = r
          BY <1>1, <1>4, RefsAssumption DEF Refs
        <4>. QED
          BY <4>1, <4>2, <1>1 DEF r
      <3>2. at'[t] # 0 => list'[at'[t]] # <<>>
        BY <1>1, <1>5, <1>6 DEF Holds, Refs
      <3>3. \A v \in Signs : at'[v] = at'[t] /\ at'[t] # 0 => v = t
        BY <1>4, <1>6 DEF Holds
      <3>4. ASSUME NEW x \in Refs
            PROVE  x \in plugged' /\ signOf'[x] = t <=>
                     at'[t] # 0 /\ \E i \in DOMAIN list'[at'[t]] : list'[at'[t]][i] = x
        <4>1. r \notin plugged
          BY <1>1, <1>3 DEF r
        <4>2. CASE t # s
          <5>1. at'[t] = at[t] /\ (at[t] # 0 => list'[at[t]] = list[at[t]] /\ at[t] \in Refs)
            BY <4>2, <1>1, <1>4, <1>5, <1>6 DEF Refs
          <5>2. CASE x = r
            BY <5>1, <5>2, <4>1, <4>2, <1>3, <1>7
          <5>3. CASE x # r
            BY <5>1, <5>3, <1>2, <1>7 DEF Holds
          <5>. QED
            BY <5>2, <5>3
        <4>3. CASE t = s
          <5>1. at'[s] = a /\ a # 0
            BY <1>1, <1>6 DEF Refs
          <5>2. CASE x = r
            BY <5>1, <5>2, <4>3, <1>2, <1>5, <1>7
          <5>3. CASE x # r
            <6>1. x \in plugged' /\ signOf'[x] = s <=> x \in plugged /\ signOf[x] = s
              BY <5>3, <1>2, <1>7
            <6>2. (\E i \in DOMAIN list'[a] : list'[a][i] = x) <=>
                  (\E i \in DOMAIN list[a] : list[a][i] = x)
              BY <5>3, <1>5
            <6>3. x \in plugged /\ signOf[x] = s <=> \E i \in DOMAIN list[a] : list[a][i] = x
              BY <1>4 DEF Holds, a
            <6>. QED
              BY <4>3, <5>1, <6>1, <6>2, <6>3
          <5>. QED
            BY <5>2, <5>3
        <4>. QED
          BY <4>2, <4>3
      <3>. QED
        BY <3>1, <3>2, <3>3, <3>4 DEF Holds
    <2>. QED
      BY <1>t, <2>1, <2>2, <2>3, <2>4 DEF MapInv
  <1>10. LoopInv'
    <2>. SUFFICES ASSUME NEW p \in Packets PROVE Goes(going[p], SignAt(p, going[p].router))'
      BY DEF LoopInv
    <2>. DEFINE g == going[p]
                v == SignAt(p, g.router)
    <2>1. Goes(g, v) /\ g' = g /\ v \in Signs /\ g \in Going
      BY <1>0, <1>2, PacketsAssumption DEF LoopInv, SignAt, RouterTypeOK
    <2>2. CASE ~g.calling
      BY <2>1, <2>2 DEF Goes, SignAt
    <2>3. CASE g.calling
      <3>1. /\ OfSign(g, v) /\ g.array \in Refs /\ g.array <= refid /\ g.ref <= refid
            /\ g.ref \in Nat /\ g.key \in Nat
            /\ \A j \in DOMAIN list[g.array] : j > g.key => list[g.array][j] > g.ref
            /\ ~g.excused => Ahead(g, g.key + 1)
        BY <2>1, <2>3, <1>1, RefsAssumption DEF Goes, OfSign, Going, Refs
      <3>2. list'[g.array] = <<>> \/ at'[v] = g.array
        <4>1. CASE g.array # a
          <5>1. list'[g.array] = list[g.array]
            BY <3>1, <4>1, <1>5
          <5>2. at[v] = g.array => v # s
            BY <3>1, <4>1, <1>1 DEF a, Refs
          <5>. QED
            BY <3>1, <2>1, <5>1, <5>2, <1>6 DEF OfSign
        <4>2. CASE g.array = a
          <5>1. a = at[s] /\ a # 0
            BY <4>2, <3>1, <1>1 DEF a, r
          <5>2. list[a] # <<>>
            BY <5>1, <1>0 DEF MapInv, Holds
          <5>. QED
            BY <4>2, <5>1, <5>2, <3>1, <2>1, <1>6 DEF OfSign
        <4>. QED
          BY <4>1, <4>2
      <3>3. \A j \in DOMAIN list'[g.array] : j > g.key => list'[g.array][j] > g.ref
        <4>1. g.ref < r
          BY <3>1, <1>1 DEF r
        <4>2. CASE g.array # a
          BY <3>1, <4>2, <1>5
        <4>3. CASE g.array = a
          <5>. SUFFICES ASSUME NEW j \in DOMAIN list'[a], j > g.key
                        PROVE  list'[a][j] > g.ref
            BY <4>3
          <5>1. CASE j = Len(list[a]) + 1
            BY <4>1, <5>1, <1>5
          <5>2. CASE j \in DOMAIN list[a]
            BY <3>1, <4>3, <5>2, <1>5
          <5>. QED
            BY <5>1, <5>2, <1>5
        <4>. QED
          BY <4>2, <4>3
      <3>4. \A j \in DOMAIN list[g.array] : j \in DOMAIN list'[g.array]
                                           /\ list'[g.array][j] = list[g.array][j]
        BY <3>1, <1>5
      <3>5. ~g.excused => Ahead(g, g.key + 1)'
        BY <3>1, <3>4, <2>1 DEF Ahead
      <3>6. OfSign(g, v)'
        BY <3>1, <3>2, <2>1, <1>1 DEF OfSign, SignAt, r
      <3>7. (g.ref <= refid)'
        BY <3>1, <2>1, <1>1 DEF r
      <3>. QED
        BY <3>3, <3>5, <3>6, <3>7, <2>1, <2>3 DEF Goes
    <2>. QED
      BY <2>2, <2>3
  <1>. QED
    BY <1>8, <1>9, <1>10 DEF RouterInv

LEMMA UnplugStep ==
  ASSUME RouterInv, NEW r \in Refs, Unplug(r)
  PROVE  RouterInv'
  <1>. DEFINE s == signOf[r]
              a == at[s]
              q == list[a]
  <1>0. RouterTypeOK /\ MapInv /\ LoopInv
    BY DEF RouterInv
  <1>1. PICK i \in DOMAIN q :
          /\ q[i] = r
          /\ list' = [list EXCEPT ![a] = RemoveAt(@, i)]
          /\ at' = IF Len(q) = 1 THEN [at EXCEPT ![s] = 0] ELSE at
          /\ going' = [p \in Packets |-> Shifted(going[p], a, i, r)]
    BY DEF Unplug, Spliced
  <1>2. /\ r \in plugged /\ a # 0
        /\ plugged' = plugged \ {r} /\ plugRef' = plugRef - 1
        /\ refid' = refid /\ signOf' = signOf
    BY DEF Unplug
  <1>3. /\ s \in Signs /\ a \in Refs /\ a \in Nat /\ q \in Seq(Refs)
        /\ refid \in Nat /\ refid <= MaxRefs
        /\ list \in [Refs -> Seq(Refs)] /\ at \in [Signs -> 0 .. MaxRefs] /\ plugged \subseteq Refs
    <2>1. list \in [Refs -> Seq(Refs)] /\ at \in [Signs -> 0 .. MaxRefs] /\ plugged \subseteq Refs
          /\ s \in Signs
      BY <1>0 DEF RouterTypeOK
    <2>2. refid \in Nat /\ refid <= MaxRefs
      BY <1>0, RefsAssumption DEF RouterTypeOK
    <2>3. a \in Refs /\ a \in Nat
      BY <2>1, <1>2, RefsAssumption DEF Refs
    <2>. HIDE DEF s, a
    <2>. QED
      BY <2>1, <2>2, <2>3
  <1>. DEFINE u == RemoveAt(q, i)
  <1>4. /\ u \in Seq(Refs) /\ Len(u) = Len(q) - 1 /\ Len(q) \in Nat
        /\ DOMAIN u = 1 .. Len(q) - 1 /\ DOMAIN q = 1 .. Len(q) /\ i \in 1 .. Len(q)
        /\ \A j \in 1 .. Len(q) - 1 : u[j] = IF j < i THEN q[j] ELSE q[j + 1]
    <2>1. i \in 1 .. Len(q) /\ Len(q) \in Nat /\ DOMAIN q = 1 .. Len(q)
      BY <1>3
    <2>. HIDE DEF q
    <2>2. u \in Seq(Refs) /\ Len(u) = Len(q) - 1
          /\ \A j \in 1 .. Len(q) - 1 : u[j] = IF j < i THEN q[j] ELSE q[j + 1]
      BY <1>3, <2>1, RemoveAtShifts
    <2>. QED
      BY <2>1, <2>2
  <1>5. /\ Sorted(u)
        /\ \A x : (\E k \in DOMAIN u : u[k] = x) <=> x # r /\ \E k \in DOMAIN q : q[k] = x
    <2>1. Sorted(q)
      BY <1>0, <1>3 DEF MapInv
    <2>2. q \in Seq(Refs) /\ i \in DOMAIN q /\ q[i] = r
      BY <1>1, <1>3
    <2>. HIDE DEF q
    <2>3. /\ Sorted(u)
          /\ \A x : (\E k \in DOMAIN u : u[k] = x) <=> x # q[i] /\ \E k \in DOMAIN q : q[k] = x
      BY <2>1, <2>2, SortedRemoval
    <2>. QED
      BY <2>2, <2>3
  <1>6. list'[a] = u /\ \A b \in Refs : b # a => list'[b] = list[b]
    BY <1>1, <1>3
  <1>7. \A t \in Signs : at'[t] = IF t = s /\ Len(q) = 1 THEN 0 ELSE at[t]
    BY <1>1, <1>3
  <1>8. \A t \in Signs : at[t] = a => t = s
    BY <1>0, <1>2, <1>3 DEF MapInv, Holds
  <1>. HIDE DEF u, q, a, s
  <1>9. MapInv'
    <2>1. plugged' \subseteq 1 .. refid'
      BY <1>0, <1>2 DEF MapInv
    <2>2. plugRef' = Cardinality(plugged')
      <3>1. IsFiniteSet(plugged)
        BY <1>3, RefsFinite, FS_Subset
      <3>. QED
        BY <3>1, <1>0, <1>2, FS_RemoveElement DEF MapInv
    <2>3. ASSUME NEW b \in Refs PROVE Sorted(list[b])'
      BY <1>0, <1>5, <1>6 DEF MapInv, Sorted
    <2>4. ASSUME NEW b \in Refs, \A t \in Signs : at'[t] # b PROVE list'[b] = <<>>
      <3>1. CASE b = a
        <4>1. Len(q) = 1
          BY <2>4, <3>1, <1>3, <1>7 DEF a
        <4>. QED
          BY <3>1, <4>1, <1>4, <1>6
      <3>2. CASE b # a
        <4>1. \A t \in Signs : at[t] # b
          BY <2>4, <3>2, <1>7 DEF a
        <4>. QED
          BY <3>2, <4>1, <1>0, <1>6 DEF MapInv
      <3>. QED
        BY <3>1, <3>2
    <2>5. ASSUME NEW t \in Signs PROVE Holds(t)'
      <3>. Holds(t) /\ Holds(s)
        BY <1>0, <1>3 DEF MapInv
      <3>1. at'[t] <= refid'
        <4>1. at[t] <= refid /\ at[t] \in Nat /\ (at'[t] = at[t] \/ at'[t] = 0)
          BY <1>3, <1>7, RefsAssumption DEF Holds
        <4>. QED
          BY <4>1, <1>2, <1>3
      <3>2. at'[t] # 0 => list'[at'[t]] # <<>>
        <4>. SUFFICES ASSUME at'[t] # 0 PROVE list'[at'[t]] # <<>>
          OBVIOUS
        <4>1. at'[t] = at[t] /\ at[t] \in Refs
          BY <1>3, <1>7, RefsAssumption DEF Refs
        <4>2. CASE at[t] = a
          <5>1. Len(q) # 1
            BY <4>2, <1>7, <1>8
          <5>. QED
            BY <4>1, <4>2, <5>1, <1>4, <1>6
        <4>3. CASE at[t] # a
          BY <4>1, <4>3, <1>6 DEF Holds
        <4>. QED
          BY <4>2, <4>3
      <3>3. \A v \in Signs : at'[v] = at'[t] /\ at'[t] # 0 => v = t
        BY <1>7 DEF Holds
      <3>4. ASSUME NEW x \in Refs
            PROVE  x \in plugged' /\ signOf'[x] = t <=>
                     at'[t] # 0 /\ \E k \in DOMAIN list'[at'[t]] : list'[at'[t]][k] = x
        <4>1. x \in plugged /\ signOf[x] = t <=>
                at[t] # 0 /\ \E k \in DOMAIN list[at[t]] : list[at[t]][k] = x
          BY DEF Holds
        <4>2. CASE t # s
          <5>1. at'[t] = at[t] /\ at[t] # a /\ (at[t] # 0 => at[t] \in Refs)
            BY <4>2, <1>3, <1>7, <1>8, RefsAssumption DEF Refs
          <5>2. at[t] # 0 => list'[at[t]] = list[at[t]]
            BY <5>1, <1>6
          <5>3. x \in plugged' /\ signOf'[x] = t <=> x \in plugged /\ signOf[x] = t
            BY <4>2, <1>2 DEF s
          <5>. QED
            BY <4>1, <5>1, <5>2, <5>3
        <4>3. CASE t = s
          <5>1. x \in plugged' /\ signOf'[x] = s <=> \E k \in DOMAIN u : u[k] = x
            BY <4>1, <4>3, <1>2, <1>5 DEF a, q
          <5>2. CASE Len(q) = 1
            <6>1. DOMAIN u = {} /\ at'[s] = 0
              BY <5>2, <1>3, <1>4, <1>7
            <6>. QED
              BY <4>3, <5>1, <6>1
          <5>3. CASE Len(q) # 1
            <6>1. at'[s] = a
              BY <5>3, <1>3, <1>7 DEF a
            <6>. QED
              BY <4>3, <5>1, <6>1, <1>2, <1>6
          <5>. QED
            BY <5>2, <5>3
        <4>. QED
          BY <4>2, <4>3
      <3>. QED
        BY <3>1, <3>2, <3>3, <3>4 DEF Holds
    <2>. QED
      BY <2>1, <2>2, <2>3, <2>4, <2>5 DEF MapInv
  <1>10. ASSUME NEW p \in Packets
         PROVE  going'[p] \in Going /\ Goes(going[p], SignAt(p, going[p].router))'
    <2>. DEFINE g == going[p]
                v == SignAt(p, g.router)
                h == going'[p]
    <2>1. Goes(g, v) /\ v \in Signs /\ g \in Going /\ h = Shifted(g, a, i, r)
      BY <1>0, <1>1, PacketsAssumption DEF LoopInv, SignAt, RouterTypeOK, a, s
    <2>2. CASE ~g.calling
      BY <2>1, <2>2 DEF Shifted, Goes, SignAt
    <2>3. CASE g.calling
      <3>1. /\ OfSign(g, v) /\ g.array \in Refs /\ g.array <= refid /\ g.ref <= refid
            /\ g.key \in Nat /\ g.keys \in Nat /\ g.array # 0
            /\ \A j \in DOMAIN list[g.array] : j > g.key => list[g.array][j] > g.ref
            /\ ~g.excused => Ahead(g, g.key + 1)
        <4>1. /\ OfSign(g, v) /\ g.ref <= refid
              /\ \A j \in DOMAIN list[g.array] : j > g.key => list[g.array][j] > g.ref
              /\ ~g.excused => Ahead(g, g.key + 1)
          BY <2>1, <2>3 DEF Goes
        <4>2. g.array \in 1 .. refid /\ g.key \in Nat /\ g.keys \in Nat
          BY <4>1, <2>1 DEF OfSign, Going
        <4>3. g.array \in Refs /\ g.array <= refid /\ g.array # 0
          <5>1. refid \in Nat /\ refid <= MaxRefs
            BY <1>3
          <5>. HIDE DEF g
          <5>. QED
            BY <4>2, <5>1, RefsAssumption DEF Refs
        <4>. QED
          BY <4>1, <4>2, <4>3
      <3>2. CASE g.array # a
        <4>1. h = g /\ list'[g.array] = list[g.array]
          BY <3>1, <3>2, <2>1, <1>6 DEF Shifted
        <4>2. list'[g.array] = <<>> \/ at'[v] = g.array
          BY <3>1, <3>2, <4>1, <2>1, <1>7 DEF OfSign, a
        <4>3. OfSign(g, v)'
          BY <3>1, <4>1, <4>2, <2>1, <1>2 DEF OfSign, SignAt
        <4>4. ~g.excused => Ahead(g, g.key + 1)'
          BY <3>1, <4>1 DEF Ahead
        <4>. QED
          BY <2>1, <2>3, <3>1, <4>1, <4>3, <4>4, <1>2 DEF Goes
      <3>3. CASE g.array = a
        <4>1. h = [g EXCEPT !.due = @ \ {r}, !.excused = @ \/ i <= g.key]
          BY <3>3, <2>1, <2>3 DEF Shifted
        <4>2. /\ h \in Going /\ h.calling /\ h.array = a /\ h.router = g.router /\ h.keys = g.keys
              /\ h.key = g.key /\ h.ref = g.ref /\ h.due = g.due \ {r}
              /\ ~h.excused => ~g.excused /\ i > g.key
          <5>1. (g.excused \/ i <= g.key) \in BOOLEAN /\ g.due \ {r} \in SUBSET Refs
            BY <2>1 DEF Going
          <5>2. h \in Going
            BY <4>1, <5>1, <2>1 DEF Going
          <5>3. /\ h.calling = g.calling /\ h.array = g.array /\ h.router = g.router /\ h.keys = g.keys
                /\ h.key = g.key /\ h.ref = g.ref /\ h.due = g.due \ {r}
                /\ h.excused = (g.excused \/ i <= g.key)
            BY <4>1, <2>1 DEF Going
          <5>4. i > g.key \/ i <= g.key
            BY <3>1, <1>4
          <5>. QED
            BY <5>2, <5>3, <5>4, <2>3, <3>3
        <4>3. v = s
          <5>1. q # <<>>
            BY <1>4
          <5>. QED
            BY <5>1, <3>1, <3>3, <2>1, <1>8 DEF OfSign, q
        <4>4. u = <<>> \/ at'[v] = a
          <5>1. Len(q) = 1 => u = <<>>
            BY <1>4
          <5>. QED
            BY <4>3, <5>1, <1>3, <1>7 DEF a
        <4>5. \A j \in DOMAIN u : j > g.key => u[j] > g.ref
          <5>1. \A j \in DOMAIN q : j > g.key => q[j] > g.ref
            BY <3>1, <3>3 DEF q
          <5>2. ASSUME NEW j \in DOMAIN u, j > g.key PROVE u[j] > g.ref
            <6>1. CASE j < i
              BY <5>1, <5>2, <6>1, <1>4
            <6>2. CASE ~(j < i)
              <7>1. j + 1 \in DOMAIN q /\ u[j] = q[j + 1] /\ j + 1 > g.key
                BY <5>2, <6>2, <3>1, <1>4
              <7>. QED
                BY <5>1, <7>1
            <6>. QED
              BY <6>1, <6>2
          <5>. QED
            BY <5>2
        <4>6. ASSUME ~h.excused, NEW x \in h.due
              PROVE  \E j \in DOMAIN u : h.key + 1 <= j /\ j <= h.keys /\ u[j] = x
          <5>1. PICK j \in DOMAIN q : g.key + 1 <= j /\ j <= g.keys /\ q[j] = x
            BY <4>2, <4>6, <3>1, <3>3 DEF Ahead, q
          <5>2. j # i /\ i > g.key
            BY <5>1, <4>2, <4>6, <1>1 DEF q
          <5>3. CASE j < i
            <6>1. j \in DOMAIN u /\ u[j] = x
              BY <5>1, <5>3, <1>4
            <6>. QED
              BY <5>1, <6>1, <4>2
          <5>4. CASE j > i
            <6>1. j - 1 \in DOMAIN u /\ u[j - 1] = x
              BY <5>1, <5>4, <1>4
            <6>2. g.key + 1 <= j - 1 /\ j - 1 <= g.keys
              BY <5>1, <5>2, <5>4, <3>1, <1>4
            <6>. QED
              BY <6>1, <6>2, <4>2
          <5>. QED
            BY <5>1, <5>2, <5>3, <5>4, <1>4
        <4>7. OfSign(going[p], SignAt(p, going[p].router))'
          BY <4>2, <4>4, <3>1, <3>3, <2>1, <1>2, <1>6 DEF OfSign, SignAt
        <4>8. ~h.excused => Ahead(going[p], going[p].key + 1)'
          BY <4>2, <4>6, <1>6 DEF Ahead
        <4>. QED
          BY <4>2, <4>5, <4>7, <4>8, <3>1, <1>2, <1>6 DEF Goes
      <3>. QED
        BY <3>2, <3>3
    <2>. QED
      BY <2>2, <2>3
  <1>11. RouterTypeOK'
    <2>1. at' \in [Signs -> 0 .. MaxRefs]
      BY <1>1, <1>3, RefsAssumption
    <2>2. list' \in [Refs -> Seq(Refs)]
      BY <1>1, <1>3, <1>4 DEF u, q
    <2>3. plugRef' \in Nat
      <3>1. IsFiniteSet(plugged')
        BY <1>2, <1>3, RefsFinite, FS_Subset
      <3>. QED
        BY <3>1, <1>9, FS_CardinalityType DEF MapInv
    <2>4. going' \in [Packets -> Going]
      BY <1>1, <1>10
    <2>. QED
      BY <2>1, <2>2, <2>3, <2>4, <1>0, <1>2 DEF RouterTypeOK
  <1>. QED
    BY <1>9, <1>10, <1>11 DEF RouterInv, LoopInv

-----------------------------------------------------------------------------
(* handlePacket: the map stays as it is. *)

LEMMA MapStays ==
  ASSUME MapInv, UNCHANGED <<refid, signOf, plugged, plugRef, at, list>>
  PROVE  MapInv'
  BY DEF MapInv, Holds, Sorted

LEMMA GoesStays ==
  ASSUME RouterInv, UNCHANGED <<refid, signOf, plugged, plugRef, at, list>>,
         going' \in [Packets -> Going],
         \A p \in Packets : \/ going'[p] = going[p]
                            \/ Goes(going'[p], SignAt(p, going'[p].router))
  PROVE  RouterInv'
  <1>. RouterTypeOK /\ MapInv /\ LoopInv
    BY DEF RouterInv
  <1>1. RouterTypeOK'
    BY DEF RouterTypeOK
  <1>2. ASSUME NEW p \in Packets PROVE Goes(going[p], SignAt(p, going[p].router))'
    <2>1. Goes(going'[p], SignAt(p, going'[p].router))
      BY DEF LoopInv
    <2>. QED
      BY <2>1 DEF Goes, OfSign, Ahead, SignAt
  <1>. QED
    BY <1>1, <1>2, MapStays DEF RouterInv, LoopInv

LEMMA ArriveStep ==
  ASSUME RouterInv, NEW ps \in SUBSET Packets, Arrive(ps)
  PROVE  RouterInv'
  <1>1. RouterTypeOK /\ MapInv
    BY DEF RouterInv
  <1>2. \A p \in Packets : going'[p] = IF p \in ps THEN Begins(p, 1) ELSE going[p]
    BY DEF Arrive
  <1>3. \A p \in Packets : /\ Begins(p, 1) \in Going
                           /\ Goes(Begins(p, 1), SignAt(p, Begins(p, 1).router))
    BY <1>1, BeginsGoes
  <1>4. going' \in [Packets -> Going]
    BY <1>1, <1>2, <1>3 DEF Arrive, RouterTypeOK
  <1>. QED
    BY <1>2, <1>3, <1>4, GoesStays DEF Arrive

LEMMA NextRouterStep ==
  ASSUME RouterInv, NEW p \in Packets, NextRouter(p)
  PROVE  RouterInv'
  <1>1. RouterTypeOK /\ MapInv
    BY DEF RouterInv
  <1>2. going' = [going EXCEPT ![p] = Begins(p, 2)]
    BY DEF NextRouter
  <1>3. Begins(p, 2) \in Going /\ Goes(Begins(p, 2), SignAt(p, Begins(p, 2).router))
    BY <1>1, BeginsGoes
  <1>4. going' \in [Packets -> Going]
    BY <1>1, <1>2, <1>3 DEF RouterTypeOK
  <1>5. \A o \in Packets : going'[o] = IF o = p THEN Begins(p, 2) ELSE going[o]
    BY <1>1, <1>2 DEF RouterTypeOK
  <1>. QED
    BY <1>3, <1>4, <1>5, GoesStays DEF NextRouter

\* Where the loop of a packet goes when the handler it awaits has returned.
LEMMA LoopGoesOn ==
  ASSUME RouterInv, NEW p \in Packets, going[p].calling
  PROVE  LET g == going[p]
             h == Loop(g, g.key + 1)
         IN  /\ g \in Going /\ h \in Going /\ h.router = g.router
             /\ Goes(h, SignAt(p, g.router))
             /\ h.calling => /\ h.ref \in plugged
                             /\ signOf[h.ref] = SignAt(p, g.router)
                             /\ h.ref > g.ref
  <1>. DEFINE g == going[p]
              s == SignAt(p, g.router)
              h == Loop(g, g.key + 1)
  <1>1. RouterTypeOK /\ MapInv /\ Goes(g, s) /\ g.calling
    BY DEF RouterInv, LoopInv
  <1>2. g \in Going /\ s \in Signs /\ g.key \in Nat
    BY <1>1, PacketsAssumption DEF RouterTypeOK, SignAt, Going
  <1>3. OfSign(g, s) /\ (~g.excused => Ahead(g, g.key + 1))
        /\ \A j \in DOMAIN list[g.array] : j > g.key => list[g.array][j] > g.ref
    BY <1>1 DEF Goes
  <1>4. g.key + 1 \in Nat \ {0} /\ g.key + 1 > g.key
    BY <1>2
  <1>. HIDE DEF g, s
  <1>5. /\ h \in Going /\ Goes(h, s) /\ h.router = g.router
        /\ h.calling => /\ g.key + 1 \in DOMAIN list[g.array]
                        /\ h.ref = list[g.array][g.key + 1]
                        /\ h.ref \in plugged /\ signOf[h.ref] = s
    BY <1>1, <1>2, <1>3, <1>4, LoopGoes
  <1>6. h.calling => h.ref > g.ref
    BY <1>3, <1>4, <1>5
  <1>. QED
    BY <1>2, <1>5, <1>6 DEF g, s

LEMMA HandlerReturnsStep ==
  ASSUME RouterInv, NEW p \in Packets, HandlerReturns(p)
  PROVE  RouterInv'
  <1>. DEFINE h == Loop(going[p], going[p].key + 1)
  <1>1. RouterTypeOK /\ going[p].calling /\ going' = [going EXCEPT ![p] = h]
    BY DEF RouterInv, HandlerReturns
  <1>2. h \in Going /\ Goes(h, SignAt(p, h.router))
    BY <1>1, LoopGoesOn
  <1>3. /\ going' \in [Packets -> Going]
        /\ \A o \in Packets : going'[o] = IF o = p THEN h ELSE going[o]
    BY <1>1, <1>2 DEF RouterTypeOK
  <1>. QED
    BY <1>2, <1>3, GoesStays DEF HandlerReturns

LEMMA HandlerThrowsStep ==
  ASSUME RouterInv, NEW p \in Packets, HandlerThrows(p)
  PROVE  RouterInv'
  <1>. DEFINE h == [going[p] EXCEPT !.calling = FALSE, !.excused = TRUE]
  <1>1. RouterTypeOK
    BY DEF RouterInv
  <1>2. h \in Going /\ ~h.calling /\ h.excused
    BY <1>1 DEF RouterTypeOK, Going
  <1>3. /\ going' \in [Packets -> Going]
        /\ \A o \in Packets : going'[o] = IF o = p THEN h ELSE going[o]
    BY <1>1, <1>2 DEF HandlerThrows, RouterTypeOK
  <1>4. Goes(h, SignAt(p, h.router))
    BY <1>2 DEF Goes
  <1>. QED
    BY <1>3, <1>4, GoesStays DEF HandlerThrows

-----------------------------------------------------------------------------
(* The client and the closing *)

LEMMA QueueType ==
  ASSUME ClientTypeOK, sent < MaxSent
  PROVE  Pushed(queue, sent + 1) \in Seq(1 .. sent + 1) /\ Len(Pushed(queue, sent + 1)) <= Limit
  <1>1. sent \in Nat /\ queue \in Seq(1 .. sent + 1) /\ Len(queue) <= Limit /\ Len(queue) \in Nat
    <2>1. sent \in Nat /\ 1 .. sent \subseteq 1 .. sent + 1
      BY SentAssumption DEF ClientTypeOK
    <2>. QED
      BY <2>1, SeqMonotonic DEF ClientTypeOK
  <1>2. CASE Len(queue) >= Limit
    <2>1. queue # <<>>
      BY <1>1, <1>2, SentAssumption
    <2>2. Tail(queue) \in Seq(1 .. sent + 1) /\ Len(Tail(queue)) = Len(queue) - 1
      BY <1>1, <2>1, HeadTailProperties
    <2>3. Pushed(queue, sent + 1) = Append(Tail(queue), sent + 1)
      BY <1>2 DEF Pushed
    <2>4. sent + 1 \in 1 .. sent + 1
      BY <1>1
    <2>5. /\ Append(Tail(queue), sent + 1) \in Seq(1 .. sent + 1)
          /\ Len(Append(Tail(queue), sent + 1)) = Len(queue) - 1 + 1
      BY <2>2, <2>4, AppendProperties
    <2>6. Len(queue) - 1 + 1 = Len(queue)
      BY <1>1
    <2>. QED
      BY <1>1, <2>3, <2>5, <2>6, Zenon
  <1>3. CASE Len(queue) < Limit
    <2>1. Pushed(queue, sent + 1) = Append(queue, sent + 1)
      BY <1>1, <1>3, SentAssumption DEF Pushed
    <2>2. sent + 1 \in 1 .. sent + 1
      BY <1>1
    <2>3. /\ Append(queue, sent + 1) \in Seq(1 .. sent + 1)
          /\ Len(Append(queue, sent + 1)) = Len(queue) + 1
      BY <1>1, <2>2, AppendProperties
    <2>4. Len(queue) + 1 <= Limit
      BY <1>1, <1>3, SentAssumption
    <2>. QED
      BY <2>1, <2>3, <2>4, Zenon
  <1>4. Len(queue) >= Limit \/ Len(queue) < Limit
    BY <1>1, SentAssumption
  <1>. QED
    BY <1>2, <1>3, <1>4, Zenon

LEMMA TakeStep ==
  ASSUME ClientInv, Take
  PROVE  ClientTypeOK' /\ BatchInv'
  <1>. DEFINE m == Head(queue)
  <1>1. /\ sent \in 0 .. MaxSent /\ queue \in Seq(1 .. sent) /\ queue # <<>> /\ Len(queue) <= Limit
        /\ batch.sum <= MaxPending
        /\ batch' = [batch EXCEPT !.count = @ + 1, !.sum = @ + SizeOf[m]]
        /\ queue' = Tail(queue) /\ UNCHANGED <<socket, timer, sent>>
    BY DEF ClientInv, ClientTypeOK, Take, GoesOn
  <1>2. m \in Sent /\ Tail(queue) \in Seq(1 .. sent) /\ Len(Tail(queue)) <= Limit
    <2>1. m \in 1 .. sent /\ Tail(queue) \in Seq(1 .. sent) /\ Len(Tail(queue)) = Len(queue) - 1
      BY <1>1, HeadTailProperties
    <2>. QED
      BY <1>1, <2>1, SentAssumption DEF Sent
  <1>3. SizeOf[m] \in Nat /\ SizeOf[m] >= MinSize
    BY <1>2, SizeAssumption
  <1>4. batch.count \in Nat /\ batch.sum \in Nat
        /\ batch.dst \in {<<>>} \cup {<<d>> : d \in Destinations}
    BY DEF ClientInv, ClientTypeOK
  <1>5. /\ batch' \in [dst : {<<>>} \cup {<<d>> : d \in Destinations}, count : Nat, sum : Nat]
        /\ batch'.count = batch.count + 1 /\ batch'.sum = batch.sum + SizeOf[m]
    <2>. DEFINE D == {<<>>} \cup {<<d>> : d \in Destinations}
    <2>1. batch \in [dst : D, count : Nat, sum : Nat]
      BY DEF ClientInv, ClientTypeOK
    <2>2. batch.count + 1 \in Nat /\ batch.sum + SizeOf[m] \in Nat
      BY <1>3, <1>4
    <2>. HIDE DEF D, m
    <2>3. batch' \in [dst : D, count : Nat, sum : Nat]
      BY <1>1, <2>1, <2>2
    <2>4. batch'.count = batch.count + 1 /\ batch'.sum = batch.sum + SizeOf[m]
      BY <1>1, <2>1
    <2>. QED
      BY <2>3, <2>4 DEF D
  <1>. HIDE DEF m
  <1>6. MinSize * (batch.count + 1) <= batch.sum + SizeOf[m]
    <2>1. MinSize * (batch.count + 1) = MinSize * batch.count + MinSize
      BY <1>4, SizeAssumption
    <2>2. MinSize * batch.count \in Nat /\ MinSize * batch.count <= batch.sum
      BY <1>4, SizeAssumption DEF ClientInv, BatchInv
    <2>. QED
      BY <2>1, <2>2, <1>3, <1>4, SizeAssumption
  <1>7. MinSize * (batch.count + 1 - 1) <= MaxPending
    <2>1. batch.count + 1 - 1 = batch.count
      BY <1>4
    <2>2. MinSize * batch.count \in Nat /\ MinSize * batch.count <= batch.sum
      BY <1>4, SizeAssumption DEF ClientInv, BatchInv
    <2>. QED
      BY <2>1, <2>2, <1>1, <1>4, SizeAssumption
  <1>8. BatchInv'
    BY <1>4, <1>5, <1>6, <1>7, SizeAssumption DEF BatchInv
  <1>. QED
    BY <1>1, <1>2, <1>5, <1>8 DEF ClientInv, ClientTypeOK

LEMMA NoBatchInv ==
  /\ NoBatch \in [dst : {<<>>} \cup {<<d>> : d \in Destinations}, count : Nat, sum : Nat]
  /\ MinSize * NoBatch.count <= NoBatch.sum /\ NoBatch.count = 0
  BY SizeAssumption DEF NoBatch

LEMMA SenderStep ==
  ASSUME ClientInv, UNCHANGED closing,
         Listening \/ SendPacket \/ SendOnce \/ Take \/ Handed
  PROVE  ClientInv'
  <1>. ClientTypeOK /\ BatchInv /\ OrderInv
    BY DEF ClientInv
  <1>1. CASE Listening
    BY <1>1 DEF Listening, ClientInv, ClientTypeOK, BatchInv, OrderInv, Idle
  <1>2. CASE SendPacket
    <2>1. ClientTypeOK'
      <3>1. sent' = sent + 1 /\ queue' = Pushed(queue, sent + 1) /\ sent < MaxSent
            /\ UNCHANGED <<socket, timer, batch>>
        BY <1>2 DEF SendPacket
      <3>2. sent + 1 \in 0 .. MaxSent
        BY <3>1, SentAssumption DEF ClientTypeOK
      <3>. QED
        BY <3>1, <3>2, QueueType DEF ClientTypeOK
    <2>2. OrderInv'
      BY <1>2 DEF SendPacket, OrderInv, Idle
    <2>. QED
      BY <1>2, <2>1, <2>2 DEF SendPacket, ClientInv, BatchInv
  <1>3. CASE SendOnce
    <2>1. queue \in Seq(Sent) /\ queue # <<>>
      <3>1. 1 .. sent \subseteq Sent
        BY SentAssumption DEF ClientTypeOK, Sent
      <3>. QED
        BY <1>3, <3>1, SeqMonotonic DEF SendOnce, ClientTypeOK
    <2>2. DstOf[Head(queue)] \in Destinations
      BY <2>1, HeadTailProperties, DstAssumption
    <2>3. ClientTypeOK' /\ BatchInv'
      BY <1>3, <2>2, SizeAssumption DEF SendOnce, ClientTypeOK, BatchInv
    <2>4. OrderInv'
      BY <1>3 DEF SendOnce, OrderInv
    <2>. QED
      BY <2>3, <2>4 DEF ClientInv
  <1>4. CASE Take
    <2>1. OrderInv'
      BY <1>4 DEF Take, OrderInv, Idle
    <2>. QED
      BY <1>4, <2>1, TakeStep DEF ClientInv
  <1>5. CASE Handed
    BY <1>5, NoBatchInv DEF Handed, ClientInv, ClientTypeOK, BatchInv, OrderInv, Idle
  <1>. QED
    BY <1>1, <1>2, <1>3, <1>4, <1>5

LEMMA ClosingStep ==
  ASSUME ClientInv, RouterCloses \/ ClientCloses \/ Closes \/ Closed
  PROVE  ClientInv'
  <1>. ClientTypeOK /\ BatchInv /\ OrderInv
    BY DEF ClientInv
  <1>1. CASE RouterCloses
    BY <1>1 DEF RouterCloses, clientVars, ClientInv, ClientTypeOK, BatchInv, OrderInv, Idle
  <1>2. CASE ClientCloses
    BY <1>2 DEF ClientCloses, StopSending, ClientInv, ClientTypeOK, BatchInv, OrderInv, Idle
  <1>3. CASE Closes
    BY <1>3 DEF Closes, SocketCloses, ClientInv, ClientTypeOK, BatchInv, OrderInv, Idle
  <1>4. CASE Closed
    BY <1>4 DEF Closed, SocketClosed, ClientInv, ClientTypeOK, BatchInv, OrderInv, Idle
  <1>. QED
    BY <1>1, <1>2, <1>3, <1>4

-----------------------------------------------------------------------------
LEMMA InitHolds == Init => IInv
  <1>. SUFFICES ASSUME Init PROVE IInv
    OBVIOUS
  <1>1. RouterTypeOK
    <2>1. (CHOOSE s \in Signs : TRUE) \in Signs
      BY SignsAssumption
    <2>2. \A p \in Packets : going[p] \in Going
      BY NotYetIsGoing DEF Init, RouterInit
    <2>. QED
      BY <2>1, NotYetIsGoing, RefsAssumption DEF Init, RouterInit, RouterTypeOK
  <1>2. MapInv
    BY RefsAssumption, FS_EmptySet DEF Init, RouterInit, MapInv, Holds, Sorted
  <1>3. LoopInv
    <2>1. ~NotYet.calling /\ NotYet.due = {}
      BY DEF NotYet
    <2>. QED
      BY <2>1 DEF Init, RouterInit, LoopInv, Goes
  <1>4. ClientInv
    BY NoBatchInv, SentAssumption
    DEF Init, ClientInit, ClientInv, ClientTypeOK, BatchInv, OrderInv, Idle
  <1>. QED
    BY <1>1, <1>2, <1>3, <1>4 DEF Init, IInv, RouterInv

LEMMA RouterStays == ASSUME RouterInv, UNCHANGED routerVars PROVE RouterInv'
  <1>. UNCHANGED <<refid, signOf, plugged, plugRef, at, list, going>>
    BY DEF routerVars
  <1>1. going' \in [Packets -> Going]
    BY DEF RouterInv, RouterTypeOK
  <1>. QED
    BY <1>1, GoesStays

LEMMA ClientStays == ASSUME ClientInv, UNCHANGED <<clientVars, closing>> PROVE ClientInv'
  BY DEF clientVars, ClientInv, ClientTypeOK, BatchInv, OrderInv, Idle

LEMMA StepHolds == IInv /\ [Next]_vars => IInv'
  <1>. SUFFICES ASSUME IInv, [Next]_vars PROVE IInv'
    OBVIOUS
  <1>. RouterInv /\ ClientInv
    BY DEF IInv
  <1>1. CASE Sender(Listening) \/ Sender(SendPacket) \/ Sender(SendOnce) \/ Sender(Take) \/ Sender(Handed)
    BY <1>1, SenderStep, RouterStays DEF Sender, IInv
  <1>2. ASSUME NEW ps \in SUBSET Packets, Message(ps) PROVE IInv'
    BY <1>2, ArriveStep, ClientStays DEF Message, IInv
  <1>3. ASSUME NEW s \in Signs, Owner(closing = "open" /\ Plug(s)) PROVE IInv'
    BY <1>3, PlugStep, ClientStays DEF Owner, IInv
  <1>4. ASSUME NEW r \in Refs, Owner(Unplug(r)) PROVE IInv'
    BY <1>4, UnplugStep, ClientStays DEF Owner, IInv
  <1>5. ASSUME NEW p \in Packets,
               Owner(NextRouter(p)) \/ Owner(HandlerReturns(p)) \/ Owner(HandlerThrows(p))
        PROVE  IInv'
    BY <1>5, NextRouterStep, HandlerReturnsStep, HandlerThrowsStep, ClientStays DEF Owner, IInv
  <1>6. CASE RouterCloses \/ ClientCloses \/ Closes \/ Closed
    <2>1. UNCHANGED routerVars /\ closing' \in {"router", "client", "socket", "done"}
          /\ emitting' \in BOOLEAN
      BY <1>6 DEF RouterCloses, ClientCloses, Closes, Closed, IInv
    <2>. QED
      BY <1>6, <2>1, ClosingStep, RouterStays DEF IInv
  <1>7. CASE UNCHANGED vars
    <2>1. UNCHANGED <<clientVars, closing>> /\ UNCHANGED routerVars /\ UNCHANGED emitting
      BY <1>7 DEF vars
    <2>. QED
      BY <2>1, RouterStays, ClientStays DEF IInv
  <1>. QED
    BY <1>1, <1>2, <1>3, <1>4, <1>5, <1>6, <1>7 DEF Next

THEOREM Invariant == Spec => []IInv
  BY InitHolds, StepHolds, PTL DEF Spec

-----------------------------------------------------------------------------
(* The queue, the map of handlers and the loops are well formed; plug_ref is *)
(* never below 0, and the queue never longer than its size (LimitedQueue.ts). *)
THEOREM TypeCorrect == Spec => []TypeOK
  <1>1. IInv => TypeOK
    BY DEF IInv, RouterInv, ClientInv, OrderInv, TypeOK
  <1>. QED
    BY <1>1, Invariant, PTL

(* The sending timer finds its socket ready (UDPSocket.ts, assert in send()), *)
(* because the client is closed before the socket.                            *)
THEOREM SocketIsReadyAlways == Spec => []SocketIsReady
  <1>1. IInv => SocketIsReady
    BY DEF IInv, ClientInv, ClientTypeOK, OrderInv, SocketIsReady
  <1>. QED
    BY <1>1, Invariant, PTL

(* A batch fits its buffer (BatchPacket.ts), whatever the sizes of packets.   *)
THEOREM BatchFitsAlways == Spec => []BatchFits
  <1>1. ASSUME IInv PROVE BatchFits
    <2>1. batch.count \in Nat
      BY <1>1 DEF IInv, ClientInv, ClientTypeOK
    <2>2. CASE batch.count = 0
      <3>1. Header + Word * (0 + 1) <= Room
        BY RoomAssumption, SizeAssumption
      <3>. QED
        BY <2>2, <3>1, RoomAssumption DEF BatchFits
    <2>3. CASE batch.count > 0
      <3>. DEFINE n == batch.count - 1
      <3>1. n \in Nat /\ n + 1 = batch.count
        BY <2>1, <2>3
      <3>2. MinSize * n <= MaxPending
        BY <1>1, <2>3 DEF IInv, ClientInv, BatchInv
      <3>. HIDE DEF n
      <3>3. n * MinSize = MinSize * n /\ n * MinSize >= n
        BY <3>1, SizeAssumption
      <3>4. n \in 0 .. MaxPending /\ n * MinSize <= MaxPending
        BY <3>1, <3>2, <3>3, SizeAssumption
      <3>. QED
        BY <3>1, <3>4, RoomAssumption DEF BatchFits
    <2>. QED
      BY <2>1, <2>2, <2>3
  <1>. QED
    BY <1>1, Invariant, PTL

(* No handler that stays plugged is passed over by a packet, unless one       *)
(* before it throws or is unplugged (AbstractPacketRouter.ts, handlePacket).  *)
THEOREM AllAreReachedAlways == Spec => []AllAreReached
  <1>1. IInv => AllAreReached
    BY DEF IInv, RouterInv, LoopInv, Goes, AllAreReached
  <1>. QED
    BY <1>1, Invariant, PTL

(* Handlers are called in the order they were plugged in, and none that has   *)
(* been unplugged (HandlerMap.ts, and handlePacket of both routers).          *)
THEOREM CallsInOrderAlways == Spec => CallsInOrder
  <1>. DEFINE Ordered(p) ==
         going'[p].calling /\ <<going'[p].router, going'[p].key>> # <<going[p].router, going[p].key>> =>
           /\ going'[p].ref \in plugged
           /\ signOf[going'[p].ref] = SignAt(p, going'[p].router)
           /\ going'[p].router = going[p].router => going'[p].ref > going[p].ref
  <1>1. ASSUME IInv, [Next]_vars, NEW p \in Packets PROVE Ordered(p) \/ UNCHANGED routerVars
    <2>. RouterInv /\ RouterTypeOK /\ MapInv
      BY <1>1 DEF IInv, RouterInv
    <2>1. ASSUME NEW ps \in SUBSET Packets, Message(ps) PROVE Ordered(p)
      <3>1. going'[p] = (IF p \in ps THEN Begins(p, 1) ELSE going[p])
            /\ (p \in ps => going[p].router = 0)
        BY <2>1 DEF Message, Arrive
      <3>. QED
        BY <3>1, BeginsGoes
    <2>2. ASSUME NEW s \in Signs, Plug(s) PROVE Ordered(p)
      BY <2>2 DEF Plug
    <2>3. ASSUME NEW r \in Refs, Unplug(r) PROVE Ordered(p)
      <3>1. PICK a, i : going'[p] = Shifted(going[p], a, i, r)
        BY <2>3 DEF Unplug
      <3>2. going[p] \in Going
        BY DEF RouterTypeOK
      <3>3. going'[p].router = going[p].router /\ going'[p].key = going[p].key
        BY <3>1, <3>2 DEF Shifted, Going
      <3>. QED
        BY <3>3
    <2>4. ASSUME NEW o \in Packets, NextRouter(o) PROVE Ordered(p)
      <3>1. going'[p] = (IF p = o THEN Begins(p, 2) ELSE going[p])
            /\ (p = o => going[p].router = 1)
        BY <2>4 DEF NextRouter, RouterTypeOK
      <3>. QED
        BY <3>1, BeginsGoes
    <2>5. ASSUME NEW o \in Packets, HandlerReturns(o) PROVE Ordered(p)
      <3>1. going'[p] = (IF p = o THEN Loop(going[p], going[p].key + 1) ELSE going[p])
            /\ (p = o => going[p].calling)
        BY <2>5 DEF HandlerReturns, RouterTypeOK
      <3>. QED
        BY <3>1, LoopGoesOn
    <2>6. ASSUME NEW o \in Packets, HandlerThrows(o) PROVE Ordered(p)
      <3>1. going'[p] = (IF p = o THEN [going[p] EXCEPT !.calling = FALSE, !.excused = TRUE] ELSE going[p])
        BY <2>6 DEF HandlerThrows, RouterTypeOK
      <3>2. going[p] \in Going
        BY DEF RouterTypeOK
      <3>3. going'[p] = going[p] \/ ~going'[p].calling
        BY <3>1, <3>2 DEF Going
      <3>. QED
        BY <3>3
    <2>7. ASSUME UNCHANGED routerVars PROVE Ordered(p) \/ UNCHANGED routerVars
      BY <2>7
    <2>. QED
      BY <1>1, <2>1, <2>2, <2>3, <2>4, <2>5, <2>6, <2>7
      DEF Next, Sender, Owner, RouterCloses, ClientCloses, Closes, Closed, vars
  <1>2. IInv /\ [Next]_vars =>
          [\A p \in Packets :
             LET old == going[p]
                 new == going'[p]
             IN  new.calling /\ <<new.router, new.key>> # <<old.router, old.key>> =>
                   /\ new.ref \in plugged
                   /\ signOf[new.ref] = SignAt(p, new.router)
                   /\ new.router = old.router => new.ref > old.ref]_routerVars
    BY <1>1
  <1>. QED
    BY <1>2, Invariant, PTL DEF Spec, CallsInOrder

-----------------------------------------------------------------------------
(* The queue is an outbox *)

\* Only sendPacket and the timer's callback touch the queue.
LEMMA QueueSteps ==
  ASSUME [Next]_vars
  PROVE  SendPacket \/ Take \/ UNCHANGED <<sent, queue>>
  BY DEF Next, vars, clientVars, Sender, Owner, Message, Listening, SendOnce, Handed,
         RouterCloses, ClientCloses, StopSending, Closes, SocketCloses, Closed, SocketClosed

\* The packets waiting are in the order they were sent in.
LEMMA QueueAscends == Spec => []Ascends(queue)
  <1>1. Init => Ascends(queue)
    BY DEF Init, ClientInit, Ascends
  <1>2. ASSUME IInv, Ascends(queue), [Next]_vars PROVE Ascends(queue)'
    <2>1. /\ sent \in Nat /\ sent + 1 \in Nat /\ queue \in Seq(Nat)
          /\ \A o \in Range(queue) : o < sent + 1
      <3>1. sent \in Nat /\ queue \in Seq(1 .. sent) /\ 1 .. sent \subseteq Nat
        BY <1>2, SentAssumption DEF IInv, ClientInv, ClientTypeOK
      <3>2. queue \in Seq(Nat)
        BY <3>1, SeqMonotonic
      <3>3. \A o \in Range(queue) : o \in 1 .. sent
        BY <3>1, ElementOfSeq DEF Range
      <3>. QED
        BY <3>1, <3>2, <3>3
    <2>2. CASE SendPacket
      <3>1. CASE Len(queue) >= Limit
        <4>1. queue # <<>>
          BY <3>1, SentAssumption
        <4>2. queue' = Append(Tail(queue), sent + 1)
          BY <2>2, <3>1 DEF SendPacket, Pushed
        <4>. QED
          BY <1>2, <2>1, <4>1, <4>2, TailAscends, AppendAscends
      <3>2. CASE ~(Len(queue) >= Limit)
        <4>1. queue' = Append(queue, sent + 1)
          BY <2>2, <3>2 DEF SendPacket, Pushed
        <4>. QED
          BY <1>2, <2>1, <4>1, AppendAscends
      <3>. QED
        BY <3>1, <3>2
    <2>3. CASE Take
      <3>1. queue # <<>> /\ queue' = Tail(queue)
        BY <2>3 DEF Take, GoesOn
      <3>. QED
        BY <1>2, <2>1, <3>1, TailAscends
    <2>4. CASE UNCHANGED queue
      BY <1>2, <2>4
    <2>. QED
      BY <1>2, <2>2, <2>3, <2>4, QueueSteps
  <1>. QED
    BY <1>1, <1>2, Invariant, PTL DEF Spec

(* The queue leaves out of NetworkClient (BaseNetworkClient.ts, LimitedQueue.ts) *)
(* what Outbox promises: every packet is taken, those for a destination leave *)
(* in the order they were sent in, and only the oldest of a full queue is     *)
(* lost.                                                                      *)
THEOREM ImplementsOutboxAlways == Spec => ImplementsOutbox
  <1>1. Init => Box!Init
    BY DEF Init, ClientInit, Box!Init, Range
  <1>2. ASSUME IInv, Ascends(queue), [Next]_vars PROVE [Box!Next]_(Box!boxVars)
    <2>1. /\ sent \in Nat /\ queue \in Seq(Nat) /\ Len(queue) <= Limit
          /\ Len(queue) \in Nat /\ Limit \in Nat \ {0}
          /\ \A o \in Range(queue) : o \in 1 .. sent
      <3>1. sent \in Nat /\ queue \in Seq(1 .. sent) /\ Len(queue) <= Limit
            /\ 1 .. sent \subseteq Nat
        BY <1>2, SentAssumption DEF IInv, ClientInv, ClientTypeOK
      <3>2. queue \in Seq(Nat)
        BY <3>1, SeqMonotonic
      <3>3. \A o \in Range(queue) : o \in 1 .. sent
        BY <3>1, ElementOfSeq DEF Range
      <3>. QED
        BY <3>1, <3>2, <3>3, SentAssumption
    <2>2. Box!Cardinality(Range(queue)) = Len(queue)
      <3>1. Cardinality(Range(queue)) = Len(queue)
        BY <1>2, <2>1, AscendsCardinality
      <3>2. Box!Cardinality(Range(queue)) = Cardinality(Range(queue))
        BY DEF Cardinality, Box!Cardinality
      <3>. QED
        BY <3>1, <3>2
    <2>3. CASE SendPacket
      <3>1. sent < MaxSent /\ sent' = sent + 1 /\ queue' = Pushed(queue, sent + 1)
        BY <2>3 DEF SendPacket
      <3>2. sent + 1 \in Nat /\ \A o \in Range(queue) : o < sent + 1
        BY <2>1
      <3>3. CASE Len(queue) >= Limit
        <4>1. queue # <<>> /\ Len(queue) = Limit
          BY <2>1, <3>3
        <4>2. /\ Tail(queue) \in Seq(Nat) /\ Ascends(Tail(queue))
              /\ Box!IsOldest(Head(queue), Range(queue))
              /\ Range(Tail(queue)) = Range(queue) \ {Head(queue)}
          BY <1>2, <2>1, <4>1, TailAscends DEF Box!IsOldest
        <4>3. Range(queue') = (Range(queue) \ {Head(queue)}) \cup {sent'}
          BY <3>1, <3>2, <3>3, <4>2, AppendAscends DEF Pushed
        <4>4. Box!Send
          BY <2>2, <3>1, <4>1, <4>2, <4>3 DEF Box!Send, Box!IsOldest
        <4>. QED
          BY <4>4 DEF Box!Next
      <3>4. CASE Len(queue) < Limit
        <4>1. Range(queue') = Range(queue) \cup {sent'}
          BY <1>2, <2>1, <3>1, <3>2, <3>4, AppendAscends DEF Pushed
        <4>2. Box!Send
          BY <2>2, <3>1, <3>4, <4>1 DEF Box!Send
        <4>. QED
          BY <4>2 DEF Box!Next
      <3>. QED
        BY <2>1, <3>3, <3>4
    <2>4. CASE Take
      <3>. DEFINE m == Head(queue)
      <3>1. queue # <<>> /\ queue' = Tail(queue) /\ sent' = sent
        BY <2>4 DEF Take, GoesOn
      <3>2. /\ m \in Range(queue) /\ \A o \in Range(queue) : m <= o
            /\ Range(queue') = Range(queue) \ {m}
        BY <1>2, <2>1, <3>1, TailAscends
      <3>3. m \in Sent
        BY <1>2, <2>1, <3>2, SentAssumption DEF IInv, ClientInv, ClientTypeOK, Sent
      <3>4. DstOf[m] \in Destinations
        BY <3>3, DstAssumption
      <3>5. Box!IsOldest(m, Box!For(DstOf[m]))
        BY <3>2 DEF Box!IsOldest, Box!For
      <3>6. Box!Leave(DstOf[m])
        BY <3>1, <3>2, <3>5 DEF Box!Leave, Box!IsOldest
      <3>. QED
        BY <3>4, <3>6 DEF Box!Next
    <2>5. CASE UNCHANGED <<sent, queue>>
      BY <2>5 DEF Box!boxVars
    <2>. QED
      BY <1>2, <2>3, <2>4, <2>5, QueueSteps
  <1>. QED
    BY <1>1, <1>2, Invariant, QueueAscends, PTL DEF Spec, ImplementsOutbox, Box!Spec
=============================================================================
