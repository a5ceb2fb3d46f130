------------------------------ MODULE Registry ------------------------------
(***************************************************************************)
(* The registry server: the packet handler DomainHandler, the storage      *)
(* NameRegistryStorage with the NameTree under it, the map of the most     *)
(* recent clients and the loops that notify them when a jigsaw leaves.     *)
(*                                                                         *)
(* A jigsaw registers under its dotted name followed by its id, here a     *)
(* sequence of components; end nodes stand for jigsaws, group nodes for    *)
(* the names above them.  Names are the users' choice: one may well run    *)
(* through another jigsaw's end node.  Packets come in any order, late and *)
(* again, so an update may follow the purge of the same jigsaw.            *)
(***************************************************************************)
EXTENDS Naturals, SequencesExt

CONSTANTS Jigsaws,
          Components,   \* what paths are made of: the components of names, and ids
          PathOf,       \* name and id of each; <<>> for an anonymous one
          MaxLevels,    \* levels removeNode goes up before it throws: 100
          MaxClients,   \* size of recent_clients: 100
          MaxLoops      \* bound on the notification loops running at a time

ASSUME PathAssumption ==
    /\ PathOf \in [Jigsaws -> Seq(Components)]
    /\ \A j \in Jigsaws : PathOf[j] = <<>> \/ Len(PathOf[j]) > 1
ASSUME LimitAssumption ==
    MaxLevels \in Nat \ {0} /\ MaxClients \in Nat \ {0} /\ MaxLoops \in Nat

VARIABLES groups,  \* paths of the tree's group nodes
          ends,    \* paths of its end nodes
          old,     \* end nodes not updated for expiredTime
          walk,    \* end nodes the walk of clearExpiredNodes has not come to
          recent,  \* recent_clients: each with those set before it
          loops    \* the running handlePurgeEvent calls

treeVars == <<groups, ends, old>>
vars == <<treeVars, walk, recent, loops>>

\* The path of a node's parent and of all nodes between it and the root.
Parent(p) == Front(p)
Above(p)  == Prefixes(p) \ {<<>>, p}

Entries == {PathOf[j] : j \in Jigsaws} \ {<<>>}
Paths   == Entries \cup UNION {Above(p) : p \in Entries}

Clients == DOMAIN recent

\* left: the clients the loop's iterator has not come to; told: those it has.
Loop == [gone : Entries, left : SUBSET Jigsaws, told : SUBSET Jigsaws]

TypeOK ==
    /\ groups \subseteq Paths
    /\ ends \subseteq Entries
    /\ old \subseteq ends
    /\ walk \subseteq Entries
    /\ recent \in [Clients -> SUBSET Jigsaws] /\ Clients \subseteq Jigsaws
    /\ Cardinality(Clients) <= MaxClients
    /\ loops \subseteq Loop

Init ==
    /\ groups = {} /\ ends = {} /\ old = {} /\ walk = {}
    /\ recent = <<>>
    /\ loops = {}

-----------------------------------------------------------------------------
(* NameTree *)

Children(p) == {q \in groups \cup ends : Parent(q) = p}

\* Fault: addNode puts a node under an end node.
CanAdd_UnderEnds(p) == p \notin groups

\* addNode refuses a path that runs through an end node, and ends without
\* adding anything when the path is a group's.
CanAdd(p) == Above(p) \cap ends = {} /\ p \notin groups

\* Fault: removeNode leaves the groups it has emptied.
Top_Itself(p) == p

\* Fault: removeNode goes up to the first level whatever it has left there.
Top_First(p) == <<Head(p)>>

\* The groups above p that the loop of removeNode does not come to; having
\* left some, it throws whether they are empty or not.
Beyond(p) == {g \in Above(p) : Len(g) + MaxLevels <= Len(p)}
Throws(p) == Len(p) > MaxLevels

\* The last node that the loop of removeNode takes out, going up from an end
\* node for as long as the parent has no other child.
Top(p) ==
    LET Emptied(g) == \A h \in Above(p) : IsPrefix(g, h) => \A c, d \in Children(h) : c = d
        out == {p} \cup {g \in Above(p) \ Beyond(p) : Emptied(g)}
    IN  CHOOSE c \in out : \A d \in out : IsPrefix(c, d)

\* removeEndNode: all that is under a removed child goes with it.
RemoveEndNode(p) ==
    LET below == {q \in groups \cup ends : IsPrefix(Top(p), q)}
    IN  /\ groups' = groups \ below
        /\ ends' = ends \ below
        /\ old' = old \ below

\* The walk of getParentNode and the look among its children.
hasNode(p) == p \in groups \cup ends

queryNode(p) ==
    [found |-> hasNode(p),
     jigsaws |-> IF p \in ends THEN {p}
                 ELSE {q \in ends : p \in groups /\ Parent(q) = p}]

-----------------------------------------------------------------------------
(* recent_clients and the notification loops *)

Oldest(clients) == {c \in clients : recent[c] \cap clients = {}}

\* Fault: a loop runs over the clients there were when it began.
Shown_Snapshot(l, gone, new) == [l EXCEPT !.left = @ \ gone]

\* The loop's iterator is live: it passes over what is deleted and comes to
\* what is added.
Shown(l, gone, new) == [l EXCEPT !.left = (@ \ gone) \cup new]

\* Fault: a full map takes one more before it drops its oldest.
IsFull_OffByOne(clients) == Cardinality(clients) > MaxClients

IsFull(clients) == Cardinality(clients) >= MaxClients

\* recent_clients.set(j): the sweep of the map takes out some that have
\* expired, a full map its oldest; a known client keeps its place.
SetRecent(j) ==
    \E swept \in SUBSET Clients :
      LET kept == Clients \ swept
          new  == {j} \ kept
          gone == IF new # {} /\ IsFull(kept) THEN swept \cup Oldest(kept) ELSE swept
          stay == Clients \ gone
      IN  /\ recent' = [c \in stay \cup new |->
                           IF c \in new THEN stay ELSE recent[c] \cap stay]
          /\ loops' = {Shown(l, gone, new) : l \in loops}

\* handlePurgeEvent up to its first await.
StartLoop(p) ==
    loops' = IF Clients = {} THEN loops
             ELSE loops \cup {[gone |-> p, left |-> Clients \ Oldest(Clients),
                               told |-> Oldest(Clients)]}

\* removeNode of the storage: what the tree throws, it throws before the event.
RemoveNode(p) ==
    /\ RemoveEndNode(p)
    /\ IF Throws(p) THEN UNCHANGED loops ELSE StartLoop(p)

\* The next round of a handlePurgeEvent, or its end.
Notify(l) ==
    /\ walk = {}
    /\ l \in loops
    /\ loops' = (loops \ {l}) \cup
                IF l.left = {} THEN {}
                ELSE LET next == Oldest(l.left)
                     IN  {[l EXCEPT !.left = @ \ next, !.told = @ \cup next]}
    /\ UNCHANGED <<treeVars, walk, recent>>

-----------------------------------------------------------------------------
(* Packets and timers *)

\* A DomainUpdatePacket; setNode refreshes an end node or adds one.
Update(j) ==
    /\ walk = {}
    /\ SetRecent(j)
    /\ LET p == PathOf[j]
       IN  \/ /\ p \in ends
              /\ old' = old \ {p}
              /\ UNCHANGED <<groups, ends>>
           \/ /\ p \notin ends \cup {<<>>} /\ CanAdd(p)
              /\ ends' = ends \cup {p}
              /\ groups' = groups \cup Above(p)
              /\ UNCHANGED old
           \/ /\ p = <<>> \/ (p \notin ends /\ ~CanAdd(p))
              /\ UNCHANGED treeVars
    /\ UNCHANGED walk

\* A DomainPurgePacket; one for a jigsaw that is not there is answered with an
\* error.
Purge(p) ==
    /\ walk = {}
    /\ p \in ends
    /\ Cardinality(loops) < MaxLoops
    /\ RemoveNode(p)
    /\ UNCHANGED <<walk, recent>>

\* Time passes without an update.
Age(p) ==
    /\ walk = {}
    /\ p \in ends \ old
    /\ old' = old \cup {p}
    /\ UNCHANGED <<groups, ends, walk, recent, loops>>

\* The interval runs clearExpiredNodes: one synchronous walk, here one step
\* for each end node.
StartSweep ==
    /\ walk = {} /\ ends # {}
    /\ Cardinality(loops) + Cardinality(old) <= MaxLoops
    /\ walk' = ends
    /\ UNCHANGED <<treeVars, recent, loops>>

\* What removeNode throws ends the walk.  Out of the timer's callback it ends
\* the process too, unless someone catches it there: both are behaviours here.
SweepNode(p) ==
    /\ p \in walk
    /\ walk' = IF p \in old /\ Throws(p) THEN {} ELSE walk \ {p}
    /\ IF p \in old
       THEN p \in ends /\ RemoveNode(p)
       ELSE UNCHANGED <<treeVars, loops>>
    /\ UNCHANGED recent

Next ==
    \/ \E j \in Jigsaws : Update(j)
    \/ \E p \in Entries : Purge(p) \/ Age(p) \/ SweepNode(p)
    \/ \E l \in loops : Notify(l)
    \/ StartSweep

Spec == Init /\ [][Next]_vars

-----------------------------------------------------------------------------
(* Properties *)

\* queryNode finds a name as long as a jigsaw is registered under it, and gives
\* those directly under it.  It finds no other, as no emptied group is left in
\* the tree: only a group that removeNode does not come to may stay, MaxLevels
\* or more levels above the end of a registered path.
LookupsExact ==
    \A p \in Paths :
      /\ (\E q \in ends : IsPrefix(p, q)) => queryNode(p).found
      /\ queryNode(p).found => \/ \E q \in ends : IsPrefix(p, q)
                               \/ \E e \in Entries : p \in Beyond(e)
      /\ queryNode(p).jigsaws = {q \in ends : q = p \/ Parent(q) = p}

\* Every client in recent_clients when a notification loop ends has been
\* notified by it, though clients come and go between its rounds.
ToldOrToTell ==
    \A l \in loops : Clients \subseteq l.told \cup l.left

\* A sweep takes out every jigsaw that has expired and none that has been
\* updated, though it removes nodes and the groups they leave empty from the
\* tree it is walking over; only the exception of a removal cuts it short.
SweepExact ==
    [][walk # {} => /\ ends \ old \subseteq ends'
                    /\ walk' = {} => \/ old' = {}
                                     \/ \E p \in ends \ ends' : Throws(p)]_vars

\* The tree is a flat directory: an update, purge or sweep changes the entry
\* it is about and no other, and no path above or below a registered one is
\* taken in.
Flat == INSTANCE Directory WITH registered <- ends, aged <- old
ImplementsDirectory == Flat!Spec
=============================================================================
