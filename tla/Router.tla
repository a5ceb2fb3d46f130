------------------------------- MODULE Router -------------------------------
(***************************************************************************)
(* AbstractPacketRouter: handlers are plugged under signs into two routers *)
(* and a map of references, and every packet is handed to the handlers     *)
(* plugged under its name and then to those under its request id.          *)
(*                                                                         *)
(* The three HandlerMaps (of PacketTypeRouter, of RequestIdRouter, and of  *)
(* the references themselves) see the same plugs and unplugs and count     *)
(* their references alike, so one stands for the three.  What makes it     *)
(* hard is that a packet's loop awaits each handler while handlers come    *)
(* and go: `for (i in handlers)` runs over the live array with the keys it *)
(* had when the loop began.  One action is what runs between two awaits.   *)
(* Whoever plugs a handler unplugs it once.                                *)
(***************************************************************************)
EXTENDS Naturals, FiniteSets, SequencesExt

CONSTANTS Signs,      \* packet names and request ids
          Packets,    \* the packets that may arrive, each once
          PacketName, \* the name of each
          RequestId,  \* and its request_id
          MaxRefs     \* bound on the plugs made

ASSUME SignsAssumption   == Signs # {}
ASSUME PacketsAssumption == PacketName \in [Packets -> Signs] /\ RequestId \in [Packets -> Signs]
ASSUME RefsAssumption    == MaxRefs \in Nat

Refs == 1 .. MaxRefs

VARIABLES refid,   \* references given out
          signOf,  \* the sign each was plugged under
          plugged, \* those their holders have not unplugged
          plugRef, \* plug_ref
          at,      \* the map: the array of a sign, named by its first reference, or 0
          list,    \* the references in each array
          going    \* where handlePacket is for each packet

routerVars == <<refid, signOf, plugged, plugRef, at, list, going>>

\* router: 0 before the packet came, 1 by its name, 2 by its request id.  The
\* loop over `array`, which had `keys` keys, is at `key` and awaits `ref`.
\* History: the references `due` to be called, and `excused` when a handler
\* threw or one at or before the key was unplugged.
Going == [router : 0 .. 2, calling : BOOLEAN, array : 0 .. MaxRefs, keys : Nat, key : Nat,
          ref : 0 .. MaxRefs, due : SUBSET Refs, excused : BOOLEAN]

RouterTypeOK ==
    /\ refid \in 0 .. MaxRefs
    /\ signOf \in [Refs -> Signs]
    /\ plugged \subseteq Refs
    /\ plugRef \in Nat
    /\ at \in [Signs -> 0 .. MaxRefs]
    /\ list \in [Refs -> Seq(Refs)]
    /\ going \in [Packets -> Going]

NotYet == [router |-> 0, calling |-> FALSE, array |-> 0, keys |-> 0, key |-> 0,
           ref |-> 0, due |-> {}, excused |-> FALSE]

RouterInit ==
    /\ refid = 0
    /\ signOf \in [Refs -> {CHOOSE s \in Signs : TRUE}]
    /\ plugged = {}
    /\ plugRef = 0
    /\ at = [s \in Signs |-> 0]
    /\ list = [a \in Refs |-> <<>>]
    /\ going = [p \in Packets |-> NotYet]

-----------------------------------------------------------------------------
(* HandlerMap *)

\* plug(): behind the others of its sign, in a new array when there is none.
Plug(s) ==
    LET r == refid + 1
        a == IF at[s] = 0 THEN r ELSE at[s]
    IN  /\ refid < MaxRefs
        /\ refid' = r
        /\ signOf' = [signOf EXCEPT ![r] = s]
        /\ plugged' = plugged \cup {r}
        /\ plugRef' = plugRef + 1
        /\ at' = [at EXCEPT ![s] = a]
        /\ list' = [list EXCEPT ![a] = Append(@, r)]
        /\ UNCHANGED going

\* Fault: the handler that is taken out is the last one.
Spliced_Last(q, i) == RemoveAt(q, Len(q))

\* splice(index, 1)
Spliced(q, i) == RemoveAt(q, i)

\* What an unplug at position i of array a means for the loop of a packet.
Shifted(g, a, i, r) ==
    IF g.calling /\ g.array = a
    THEN [g EXCEPT !.due = @ \ {r}, !.excused = @ \/ i <= g.key]
    ELSE g

\* unplug(): an array that is empty leaves the map; a loop may still have it.
Unplug(r) ==
    LET s == signOf[r]
        a == at[s]
    IN  /\ r \in plugged
        /\ a # 0
        /\ \E i \in DOMAIN list[a] :
             /\ list[a][i] = r
             /\ list' = [list EXCEPT ![a] = Spliced(@, i)]
             /\ at' = IF Len(list[a]) = 1 THEN [at EXCEPT ![s] = 0] ELSE at
             /\ going' = [p \in Packets |-> Shifted(going[p], a, i, r)]
        /\ plugged' = plugged \ {r}
        /\ plugRef' = plugRef - 1
        /\ UNCHANGED <<refid, signOf>>

-----------------------------------------------------------------------------
(* handlePacket *)

\* Fault: the loop is one key short.
Keys_OneShort(q) == Len(q) - 1

Keys(q) == Len(q)

\* The loop from key k on: a key that the array no longer has is passed over,
\* and then so are those behind it.
Loop(g, k) ==
    IF k <= g.keys /\ k \in DOMAIN list[g.array]
    THEN [g EXCEPT !.calling = TRUE, !.key = k, !.ref = list[g.array][k],
                   !.due = @ \ {list[g.array][k]}]
    ELSE [g EXCEPT !.calling = FALSE]

SignAt(p, n) == IF n = 1 THEN PacketName[p] ELSE RequestId[p]

\* handlePacket of the n-th router, up to its first await
Begins(p, n) ==
    LET a == at[SignAt(p, n)]
        g == [NotYet EXCEPT !.router = n]
    IN  IF a = 0 THEN g
        ELSE Loop([g EXCEPT !.array = a, !.keys = Keys(list[a]),
                            !.due = {r \in plugged : signOf[r] = SignAt(p, n)}], 1)

\* The packets of one message, which the client emits one after the other
Arrive(ps) ==
    /\ \A p \in ps : going[p].router = 0
    /\ going' = [p \in Packets |-> IF p \in ps THEN Begins(p, 1) ELSE going[p]]
    /\ UNCHANGED <<refid, signOf, plugged, plugRef, at, list>>

NextRouter(p) ==
    /\ going[p].router = 1 /\ ~going[p].calling
    /\ going' = [going EXCEPT ![p] = Begins(p, 2)]
    /\ UNCHANGED <<refid, signOf, plugged, plugRef, at, list>>

\* The handler's promise is resolved: on to the next key.
HandlerReturns(p) ==
    /\ going[p].calling
    /\ going' = [going EXCEPT ![p] = Loop(@, @.key + 1)]
    /\ UNCHANGED <<refid, signOf, plugged, plugRef, at, list>>

\* It is rejected: the catch is around the loop.
HandlerThrows(p) ==
    /\ going[p].calling
    /\ going' = [going EXCEPT ![p].calling = FALSE, ![p].excused = TRUE]
    /\ UNCHANGED <<refid, signOf, plugged, plugRef, at, list>>

-----------------------------------------------------------------------------
(* Properties *)

\* A packet's handlers are called in the order they were plugged in and each
\* once at most, and none that has been unplugged is called, although a loop
\* runs over an array that shifts under it and may have left the map.
CallsInOrder ==
    [][\A p \in Packets :
         LET old == going[p]
             new == going'[p]
         IN  new.calling /\ <<new.router, new.key>> # <<old.router, old.key>> =>
               /\ new.ref \in plugged
               /\ signOf[new.ref] = SignAt(p, new.router)
               /\ new.router = old.router => new.ref > old.ref]_routerVars

\* When a packet is through with a router, every handler that was plugged for
\* it all along has been called, unless one before it threw or was unplugged
\* meanwhile: the array has then moved up, and the loop past one.
AllAreReached ==
    \A p \in Packets :
      going[p].router > 0 /\ ~going[p].calling /\ ~going[p].excused => going[p].due = {}
=============================================================================
