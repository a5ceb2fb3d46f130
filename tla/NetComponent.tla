---------------------------- MODULE NetComponent ----------------------------
(***************************************************************************)
(* What NetFactory makes for every send() and once for the jigsaw itself:  *)
(* a socket, a network client and a packet router on it.  Packets that     *)
(* come out of the socket are handed to the router, and its owner closes   *)
(* the router, the client and the socket in this order, when it has        *)
(* unplugged its handlers.                                                 *)
(***************************************************************************)
EXTENDS NetworkClient, Router

VARIABLES closing,   \* how far the owner has closed it
          emitting   \* of the socket: messages are passed on

vars == <<clientVars, routerVars, closing, emitting>>

TypeOK ==
    /\ ClientTypeOK /\ RouterTypeOK
    /\ closing \in {"open", "router", "client", "socket", "done"}
    /\ emitting \in BOOLEAN

Init ==
    /\ ClientInit /\ RouterInit
    /\ closing = "open"
    /\ emitting = TRUE

Owner(step) == step /\ UNCHANGED <<clientVars, closing, emitting>>
Sender(step) == step /\ UNCHANGED <<routerVars, closing, emitting>>

\* A message: a BatchPacket, of which the parts that can be parsed are emitted.
Message(ps) ==
    /\ Idle
    /\ socket \in {"ready", "closing"} /\ emitting
    /\ Arrive(ps)
    /\ UNCHANGED <<clientVars, closing, emitting>>

\* router.close(): assert.strictEqual(plug_ref, 0)
RouterCloses ==
    /\ Idle
    /\ closing = "open" /\ socket = "ready" /\ plugRef = 0
    /\ closing' = "router"
    /\ UNCHANGED <<clientVars, routerVars, emitting>>

ClientCloses ==
    /\ closing = "router"
    /\ closing' = "client"
    /\ StopSending
    /\ UNCHANGED <<routerVars, emitting>>

Closes ==
    /\ closing = "client"
    /\ closing' = "socket"
    /\ SocketCloses
    /\ UNCHANGED <<routerVars, emitting>>

Closed ==
    /\ closing = "socket"
    /\ closing' = "done"
    /\ emitting' = FALSE
    /\ SocketClosed
    /\ UNCHANGED routerVars

Next ==
    \/ Sender(Listening) \/ Sender(SendPacket)
    \/ Sender(SendOnce) \/ Sender(Take) \/ Sender(Handed)
    \/ \E ps \in SUBSET Packets \ {{}} : Message(ps)
    \/ Idle /\ \/ \E s \in Signs : Owner(closing = "open" /\ Plug(s))
               \/ \E r \in Refs : Owner(Unplug(r))
               \/ \E p \in Packets :
                    Owner(NextRouter(p)) \/ Owner(HandlerReturns(p)) \/ Owner(HandlerThrows(p))
    \/ RouterCloses \/ ClientCloses \/ Closes \/ Closed

Spec == Init /\ [][Next]_vars

(* Fairness: the interval timer's callback runs. *)
FairSpec == Spec /\ ClientFairness
=============================================================================
