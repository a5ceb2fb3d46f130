-------------------------- MODULE RegistryUpdater --------------------------
(***************************************************************************)
(* RegistryUpdater of a jigsaw: the loop that registers it again every     *)
(* 10 000 rounds, and close(), which stops the loop, takes the jigsaw's    *)
(* name out of the registry and waits for its references.  The registry is *)
(* here what it keeps of this jigsaw; packets to it are lost, delayed and  *)
(* overtaken.                                                              *)
(*                                                                         *)
(* One action is what runs between two awaits.  sendPacket awaits the      *)
(* registry's address before the packet is queued, and fails if that       *)
(* cannot be resolved.                                                     *)
(***************************************************************************)
EXTENDS Integers

CONSTANT MaxFlight   \* bound on the packets of a kind under way

ASSUME FlightAssumption == MaxFlight \in Nat \ {0}

VARIABLES isAnonymous,
          heard,       \* there is a listener to "error"
          life,        \* lifeCycle; "waiting" is closing, in the last await of close()
          ref,
          settled,     \* closing_defer is resolved
          loop,
          updater,     \* where start_updating_loop stands; "died" of its emit
          purge,       \* where purgeDomain stands
          unclosed,    \* its request is over but not "closed" yet
          updates,     \* update packets under way
          purges,      \* purge packets under way
          registered,  \* what the registry has of the jigsaw
          taken,       \* history: the registry has answered a purge packet
          late         \* history: an update was under way when it did

network == <<updates, purges, registered, taken, late>>
constant == <<isAnonymous, heard>>
updaterVars == <<constant, life, ref, settled, loop, updater, purge, unclosed, network>>

Flags ==
    /\ isAnonymous \in BOOLEAN /\ heard \in BOOLEAN
    /\ settled \in BOOLEAN /\ loop \in BOOLEAN /\ unclosed \in BOOLEAN
    /\ taken \in BOOLEAN /\ late \in BOOLEAN

Counts == ref \in Nat /\ updates \in 0 .. MaxFlight /\ purges \in 0 .. MaxFlight

UpdaterTypeOK ==
    /\ Flags /\ Counts
    /\ life \in {"ready", "closing", "waiting", "closed"}
    /\ updater \in {"sending", "sleeping", "ended", "died"}
    /\ purge \in {"none", "asking", "over"}
    /\ registered \in {"no", "fresh", "aged"}

\* The constructor has run start(): the loop is at its first update.
UpdaterInit ==
    /\ isAnonymous \in BOOLEAN /\ heard \in BOOLEAN
    /\ life = "ready"
    /\ ref = 1
    /\ settled = FALSE
    /\ loop = TRUE
    /\ updater = "sending"
    /\ purge = "none"
    /\ unclosed = FALSE
    /\ updates = 0 /\ purges = 0
    /\ registered = "no"
    /\ taken = FALSE /\ late = FALSE

-----------------------------------------------------------------------------
(* The updating loop *)

\* setRef: the count reaching zero while closing resolves closing_defer.
SetRef(n) ==
    /\ ref' = n
    /\ settled' = (settled \/ (life \in {"closing", "waiting"} /\ n = 0))

UpdateSent ==
    /\ updater = "sending"
    /\ updates < MaxFlight
    /\ updates' = updates + 1
    /\ updater' = "sleeping"
    /\ UNCHANGED <<constant, life, ref, settled, loop, purge, unclosed, purges, registered, taken, late>>

\* updateAddress has thrown.  An "error" that nobody listens to is thrown by
\* emit, out of the loop, before its reference is given back.
UpdateFails ==
    /\ updater = "sending"
    /\ updater' = IF heard THEN "sleeping" ELSE "died"
    /\ UNCHANGED <<constant, life, ref, settled, loop, purge, unclosed, network>>

\* Fault: the loop does not look at `loop` after its sleep.
Goes_Always == TRUE

Goes == loop

\* The sleep is over, and it is time for an update or the loop ends.
Wake ==
    /\ updater = "sleeping"
    /\ IF Goes THEN updater' = "sending" /\ UNCHANGED <<ref, settled>>
               ELSE updater' = "ended" /\ SetRef(ref - 1)
    /\ UNCHANGED <<constant, life, loop, purge, unclosed, network>>

-----------------------------------------------------------------------------
(* close() and purgeDomain() *)

LoopAfterClose == FALSE

Asked == ref + 1

\* close() up to its first await: the loop is stopped, and a jigsaw with a name
\* makes a purge request.
Close ==
    /\ life = "ready"
    /\ life' = "closing"
    /\ loop' = LoopAfterClose
    /\ IF isAnonymous THEN purge' = "over" /\ UNCHANGED ref
                      ELSE purge' = "asking" /\ ref' = Asked
    /\ UNCHANGED <<constant, settled, updater, unclosed, network>>

\* The request is sent, again and again while it is waiting.
PurgeSent ==
    /\ purge = "asking"
    /\ purges < MaxFlight
    /\ purges' = purges + 1
    /\ UNCHANGED <<constant, life, ref, settled, loop, updater, purge, unclosed, updates,
                   registered, taken, late>>

\* It is answered, with a pong or an error, fails to be sent or times out
\* after 2 s.
PurgeOver ==
    /\ purge = "asking"
    /\ purge' = "over"
    /\ unclosed' = TRUE
    /\ UNCHANGED <<constant, life, ref, settled, loop, updater, network>>

RequestClosed ==
    /\ unclosed
    /\ unclosed' = FALSE
    /\ SetRef(ref - 1)
    /\ UNCHANGED <<constant, life, loop, updater, purge, network>>

\* setRef(0), and on to `await closing_defer.promise`.
Await ==
    /\ life = "closing" /\ purge = "over"
    /\ life' = "waiting"
    /\ SetRef(ref)
    /\ UNCHANGED <<constant, loop, updater, purge, unclosed, network>>

Closed ==
    /\ life = "waiting" /\ settled
    /\ life' = "closed"
    /\ UNCHANGED <<constant, ref, settled, loop, updater, purge, unclosed, network>>

-----------------------------------------------------------------------------
(* The network and the registry *)

UpdateArrives ==
    /\ updates > 0
    /\ updates' = updates - 1
    /\ registered' = IF isAnonymous THEN registered ELSE "fresh"
    /\ UNCHANGED <<constant, life, ref, settled, loop, updater, purge, unclosed, purges, taken, late>>

\* A jigsaw that is not there is answered with an error.
PurgeArrives ==
    /\ purges > 0
    /\ purges' = purges - 1
    /\ registered' = "no"
    /\ taken' = TRUE
    /\ late' = (updates > 0 \/ updater = "sending")
    /\ UNCHANGED <<constant, life, ref, settled, loop, updater, purge, unclosed, updates>>

Lose ==
    /\ \/ updates > 0 /\ updates' = updates - 1 /\ UNCHANGED purges
       \/ purges > 0 /\ purges' = purges - 1 /\ UNCHANGED updates
    /\ UNCHANGED <<constant, life, ref, settled, loop, updater, purge, unclosed, registered, taken, late>>

Aging ==
    /\ registered = "fresh"
    /\ registered' = "aged"
    /\ UNCHANGED <<constant, life, ref, settled, loop, updater, purge, unclosed, updates, purges, taken, late>>

\* Fault: the registry does not look for expired nodes.
Expires_Never == FALSE

Expires == registered = "aged"

\* clearExpiredNodes, every 5 s
Expire ==
    /\ Expires
    /\ registered' = "no"
    /\ UNCHANGED <<constant, life, ref, settled, loop, updater, purge, unclosed, updates, purges, taken, late>>

Updating == UpdateSent \/ UpdateFails

UpdaterNext ==
    \/ Updating \/ Wake
    \/ Close \/ PurgeSent \/ PurgeOver \/ RequestClosed \/ Await \/ Closed
    \/ UpdateArrives \/ PurgeArrives \/ Lose \/ Aging \/ Expire

UpdaterSpec == UpdaterInit /\ [][UpdaterNext]_updaterVars

(* UpdaterFairness.  Sends end, sleeps and promise continuations too; the request is *)
(* over after its 2 s at the latest.  A packet arrives or is lost in the end, *)
(* and the registry goes on taking out what has expired.  It need not take,   *)
(* get or answer any purge.                                                   *)
UpdaterFairness ==
    /\ WF_updaterVars(Updating) /\ WF_updaterVars(Wake)
    /\ WF_updaterVars(PurgeOver) /\ WF_updaterVars(RequestClosed) /\ WF_updaterVars(Await) /\ WF_updaterVars(Closed)
    /\ WF_updaterVars(UpdateArrives \/ Lose) /\ WF_updaterVars(Aging) /\ WF_updaterVars(Expire)

UpdaterFairSpec == UpdaterSpec /\ UpdaterFairness

-----------------------------------------------------------------------------
(* Properties *)

\* Once the registry has taken the jigsaw out, it stays out, unless an update
\* was on its way or being sent just then: close() stops the loop before it
\* asks, so nothing sent after that can register the jigsaw again.
GoneUnlessLate == taken /\ ~late => registered = "no"

\* A closed jigsaw disappears for good, though its purge may be lost or be
\* overtaken by its last update.
StaysGone == <>[](life = "closed" => registered = "no")

\* close() returns whether the registry answers, exists or not, unless the loop
\* has died of an error that nobody listens to.
CloseReturns == life = "closing" ~> (life = "closed" \/ updater = "died")
=============================================================================
