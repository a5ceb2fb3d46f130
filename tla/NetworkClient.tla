--------------------------- MODULE NetworkClient ---------------------------
(***************************************************************************)
(* The way out of a BaseNetworkClient: sendPacket puts packets into a      *)
(* LimitedQueue, and an interval timer puts the first ones for the same    *)
(* destination into a BatchPacket and hands it to the UDPSocket, which     *)
(* must be ready.  Closing the client stops the timer and flushes nothing. *)
(*                                                                         *)
(* The timer's callback builds its batch one packet at a time; nothing     *)
(* else runs meanwhile.                                                    *)
(***************************************************************************)
EXTENDS Naturals, FiniteSets, SequencesExt

CONSTANTS Destinations,
          MaxSent,      \* bound on the packets sent
          DstOf,        \* where each goes
          SizeOf,       \* and how long it is, encoded
          Limit,        \* the queue's size: 2000
          MaxPending,   \* MAX_PENDING_BUFFER_LEN: 1200
          MinSize,      \* length of the smallest packet: 4
          Header, Word, \* a BatchPacket's header and the length before each part: 8 and 4
          Room          \* its buffer's length beside the parts: 1400

Sent == 1 .. MaxSent

ASSUME SentAssumption  == MaxSent \in Nat /\ Limit \in Nat \ {0}
ASSUME DstAssumption   == DstOf \in [Sent -> Destinations]
ASSUME SizeAssumption  == MinSize \in Nat \ {0} /\ MaxPending \in Nat
                          /\ SizeOf \in [Sent -> {n \in Nat : n >= MinSize}]
\* As many of the smallest packets as come before the sum exceeds MaxPending,
\* and one more: their lengths fit beside the header.
ASSUME RoomAssumption  ==
    /\ Header \in Nat /\ Word \in Nat /\ Room \in Nat
    /\ \A n \in 0 .. MaxPending : n * MinSize <= MaxPending => Header + Word * (n + 1) <= Room

VARIABLES socket,  \* lifeCycle of the socket; "closing" is close() before its event
          timer,   \* the interval timer is set
          sent,    \* packets sent so far
          queue,   \* those waiting, by number
          batch    \* the batch the callback is building, or NoBatch

clientVars == <<socket, timer, sent, queue, batch>>

NoBatch == [dst |-> <<>>, count |-> 0, sum |-> 0]
Idle == batch = NoBatch

ClientTypeOK ==
    /\ socket \in {"starting", "ready", "closing", "closed"}
    /\ timer \in BOOLEAN
    /\ sent \in 0 .. MaxSent
    /\ queue \in Seq(1 .. sent) /\ Len(queue) <= Limit
    /\ batch \in [dst : {<<>>} \cup {<<d>> : d \in Destinations}, count : Nat, sum : Nat]

ClientInit ==
    /\ socket = "starting"
    /\ timer = TRUE
    /\ sent = 0
    /\ queue = <<>>
    /\ batch = NoBatch

-----------------------------------------------------------------------------
\* The socket is bound; the client is "ready" with it.
Listening ==
    /\ socket = "starting"
    /\ socket' = "ready"
    /\ UNCHANGED <<timer, sent, queue, batch>>

\* Fault: a full queue turns the new packet away.
Pushed_Refused(q, m) == IF Len(q) >= Limit THEN q ELSE Append(q, m)

\* LimitedQueue.push
Pushed(q, m) == Append(IF Len(q) >= Limit THEN Tail(q) ELSE q, m)

\* sendPacket, also after close(): nobody takes it out of the queue then.
SendPacket ==
    /\ Idle
    /\ socket # "starting"
    /\ sent < MaxSent
    /\ sent' = sent + 1
    /\ queue' = Pushed(queue, sent + 1)
    /\ UNCHANGED <<socket, timer, batch>>

-----------------------------------------------------------------------------
(* sendOnce *)

\* The callback looks at the first packet.
SendOnce ==
    /\ Idle
    /\ timer
    /\ queue # <<>>
    /\ batch' = [dst |-> <<DstOf[Head(queue)]>>, count |-> 0, sum |-> 0]
    /\ UNCHANGED <<socket, timer, sent, queue>>

\* Fault: a packet is left for the next batch when it would exceed the sum.
GoesOn_IfItFits ==
    /\ queue # <<>>
    /\ <<DstOf[Head(queue)]>> = batch.dst
    /\ batch.sum + SizeOf[Head(queue)] <= MaxPending

\* Fault: any number of packets goes into a batch.
GoesOn_Unlimited == queue # <<>> /\ <<DstOf[Head(queue)]>> = batch.dst

\* The loop goes on while the sum has not exceeded the limit; a first packet
\* for another destination is looked at again until the loop's 2000 rounds
\* are over.
GoesOn ==
    /\ queue # <<>>
    /\ <<DstOf[Head(queue)]>> = batch.dst
    /\ batch.sum <= MaxPending

Take ==
    /\ ~Idle
    /\ GoesOn
    /\ batch' = [batch EXCEPT !.count = @ + 1, !.sum = @ + SizeOf[Head(queue)]]
    /\ queue' = Tail(queue)
    /\ UNCHANGED <<socket, timer, sent>>

\* socket.send, which asserts that the socket is ready; an empty batch is none.
Handed ==
    /\ ~Idle
    /\ ~GoesOn
    /\ batch.count > 0 => socket = "ready"
    /\ batch' = NoBatch
    /\ UNCHANGED <<socket, timer, sent, queue>>

-----------------------------------------------------------------------------
(* Closing, one after the other: see NetComponent *)

\* close() of the client
StopSending ==
    /\ Idle
    /\ timer' = FALSE
    /\ UNCHANGED <<socket, sent, queue, batch>>

\* close() of the socket, and its "close" event
SocketCloses ==
    /\ Idle
    /\ socket = "ready"
    /\ socket' = "closing"
    /\ UNCHANGED <<timer, sent, queue, batch>>

SocketClosed ==
    /\ Idle
    /\ socket = "closing"
    /\ socket' = "closed"
    /\ UNCHANGED <<timer, sent, queue, batch>>

ClientFairness == WF_clientVars(SendOnce) /\ WF_clientVars(Take) /\ WF_clientVars(Handed)

-----------------------------------------------------------------------------
(* Properties *)

\* The timer's callback never meets a socket that is not ready: send()'s
\* assertion would be thrown out of a timer, with the batch already taken out
\* of the queue.
SocketIsReady == (timer /\ queue # <<>>) \/ ~Idle => socket = "ready"

\* A batch fits into the buffer encode() makes for it, whatever small packets
\* it is made of: its room beside the parts is fixed.
BatchFits == Header + Word * batch.count <= Room

\* Packets leave the queue in order for each destination, and are lost only
\* as the oldest of a full queue.
Box == INSTANCE Outbox WITH accepted <- sent, waiting <- Range(queue)
ImplementsOutbox == Box!Spec

\* Every packet in the queue leaves it, also one longer than a batch is meant
\* to be or behind packets for others, unless the client is closed first.
LeavesQueue == \A m \in Sent : m \in Range(queue) ~> m \notin Range(queue) \/ ~timer
=============================================================================
