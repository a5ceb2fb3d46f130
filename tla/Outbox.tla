------------------------------- MODULE Outbox -------------------------------
(***************************************************************************)
(* What the send queue promises: every packet is taken, for every          *)
(* destination the packets leave in the order they were sent in, and one   *)
(* is lost only when a packet is sent while `Limit` are waiting: the one   *)
(* that has waited longest.  Packets are numbered as they are sent.        *)
(***************************************************************************)
EXTENDS Naturals, FiniteSets

CONSTANTS Destinations,
          MaxSent,   \* bound on the packets sent
          DstOf,     \* where each goes
          Limit      \* of the packets waiting

VARIABLES accepted,  \* packets sent so far
          waiting    \* those in the queue, for whatever destination

boxVars == <<accepted, waiting>>

Init == accepted = 0 /\ waiting = {}

For(d) == {w \in waiting : DstOf[w] = d}

\* A packet's number tells how long it has waited.
IsOldest(w, packets) == w \in packets /\ \A o \in packets : w <= o

Send ==
    /\ accepted < MaxSent
    /\ accepted' = accepted + 1
    /\ \/ Cardinality(waiting) < Limit /\ waiting' = waiting \cup {accepted'}
       \/ /\ Cardinality(waiting) = Limit
          /\ \E w \in waiting : /\ IsOldest(w, waiting)
                                /\ waiting' = (waiting \ {w}) \cup {accepted'}

Leave(d) ==
    /\ \E w \in For(d) : IsOldest(w, For(d)) /\ waiting' = waiting \ {w}
    /\ UNCHANGED accepted

Next == Send \/ \E d \in Destinations : Leave(d)

Spec == Init /\ [][Next]_boxVars
=============================================================================
