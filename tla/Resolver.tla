------------------------------ MODULE Resolver ------------------------------
(***************************************************************************)
(* RegistryResolver, which turns a name into the jigsaws registered under  *)
(* it: calls of resolveAny, the cache they read and fill, the query they   *)
(* share for a name, its requests and retries, purge notifications, and    *)
(* close(), which waits for a count of references.                         *)
(*                                                                         *)
(* One action is what runs between two awaits.  When a query is settled,   *)
(* its `finally` and each of its callers go on in steps of their own.      *)
(* The registry's answers, their delays and losses are free, except that   *)
(* it no longer names a jigsaw whose purge it has announced.  resolveAny   *)
(* is called before close() is: SimpleInvoker closes its resolver when no  *)
(* request is left to ask it, and usend() after its own.                   *)
(***************************************************************************)
EXTENDS Naturals, FiniteSets, SequencesExt

CONSTANTS RegPaths,    \* names that are resolved
          Jigsaws,     \* ids that may be registered under them
          Calls,       \* calls of resolveAny
          MaxQueries,  \* bound on the queries made
          MaxTries,    \* rounds of doRetryResolve: 50, or what 5 s allow
          Capacity     \* size of queryings: 100

ASSUME PathsAssumption == RegPaths # {}
ASSUME BoundsAssumption == MaxQueries \in Nat /\ MaxTries \in Nat \ {0}
ASSUME CapacityAssumption == Capacity \in Nat \ {0}

Queries == 1 .. MaxQueries

VARIABLES life,      \* lifeCycle; "waiting" is closing, in the last await of close()
          ref,
          settled,   \* closing_defer is resolved
          call,      \* where each call is, and what it has returned
          query,     \* the doRetryResolve calls
          queryings, \* the map of running queries, oldest first
          closing,   \* requests with an answer or error that are not closed yet
          cache,     \* name -> its cached answer
          purged,    \* jigsaws whose purge notification has come
          evicted    \* history: queryings has dropped a running query

tasks == <<call, query, queryings, closing>>
vars == <<life, ref, settled, tasks, cache, purged, evicted>>

\* late: jigsaws purged after the request that the answer is from was made.
Answer == [jigsaws : SUBSET Jigsaws, late : SUBSET Jigsaws]
Nothing == [jigsaws |-> {}, late |-> {}]

TypeOK ==
    /\ life \in {"ready", "closing", "waiting", "closed"}
    /\ ref \in Nat
    /\ settled \in BOOLEAN
    /\ call \in [Calls -> [state : {"none", "awaiting", "returned", "threw"},
                           path : RegPaths, query : 0 .. MaxQueries,
                           jigsaws : SUBSET Jigsaws]]
    /\ query \in [Queries -> [state : {"none", "asking", "sleeping", "resolved", "rejected"},
                              over : BOOLEAN, path : RegPaths, tries : 0 .. MaxTries,
                              answer : Answer]]
    /\ queryings \in Seq(Queries) /\ Len(queryings) <= Capacity
    /\ closing \in Nat
    /\ cache \in [RegPaths -> [state : {"none", "valid", "expired"}, answer : Answer]]
    /\ purged \subseteq Jigsaws
    /\ evicted \in BOOLEAN

AnyPath == CHOOSE p \in RegPaths : TRUE
NoEntry == [state |-> "none", answer |-> Nothing]

Init ==
    /\ life = "ready"
    /\ ref = 0
    /\ settled = FALSE
    /\ call = [c \in Calls |-> [state |-> "none", path |-> AnyPath, query |-> 0, jigsaws |-> {}]]
    /\ query = [q \in Queries |-> [state |-> "none", over |-> FALSE, path |-> AnyPath,
                                   tries |-> 0, answer |-> Nothing]]
    /\ queryings = <<>>
    /\ closing = 0
    /\ cache = [p \in RegPaths |-> NoEntry]
    /\ purged = {}
    /\ evicted = FALSE

-----------------------------------------------------------------------------
\* setRef: the count reaching zero while closing resolves closing_defer.
SetRef(n) ==
    /\ ref' = n
    /\ settled' = (settled \/ (life \in {"closing", "waiting"} /\ n = 0))

Running(path) == {i \in DOMAIN queryings : query[queryings[i]].path = path}

\* A fresh entry of the cache answers at once.
ResolveCached(c, path) ==
    /\ life = "ready"
    /\ call[c].state = "none"
    /\ cache[path].state = "valid"
    /\ call' = [call EXCEPT ![c] = [state |-> "returned", path |-> path, query |-> 0,
                                    jigsaws |-> cache[path].answer.jigsaws]]
    /\ UNCHANGED <<life, ref, settled, query, queryings, closing, cache, purged, evicted>>

\* An expired one is cleared and the running query for the name joined.
Join(c, path) ==
    /\ life = "ready"
    /\ call[c].state = "none"
    /\ cache[path].state # "valid"
    /\ \E i \in Running(path) :
         call' = [call EXCEPT ![c] = [state |-> "awaiting", path |-> path,
                                      query |-> queryings[i], jigsaws |-> {}]]
    /\ cache' = [cache EXCEPT ![path] = NoEntry]
    /\ UNCHANGED <<life, ref, settled, query, queryings, closing, purged, evicted>>

\* has() of the map of running queries
MayQuery(path) == Running(path) = {}

\* queryings.set: a full map drops its oldest entry.
SetQuerying(q) ==
    LET full == Len(queryings) >= Capacity
    IN  /\ queryings' = Append(IF full THEN Tail(queryings) ELSE queryings, q)
        /\ evicted' = (evicted \/ full)

\* One reference for the query, one for its first request.
Started == ref + 2

\* The first call starts the query and its first request.
StartQuery(c, path, q) ==
    /\ life = "ready"
    /\ call[c].state = "none"
    /\ cache[path].state # "valid"
    /\ MayQuery(path)
    /\ query[q].state = "none" /\ \A o \in 1 .. q - 1 : query[o].state # "none"
    /\ call' = [call EXCEPT ![c] = [state |-> "awaiting", path |-> path, query |-> q, jigsaws |-> {}]]
    /\ query' = [query EXCEPT ![q] = [state |-> "asking", over |-> FALSE, path |-> path,
                                      tries |-> 1, answer |-> Nothing]]
    /\ SetQuerying(q)
    /\ SetRef(Started)
    /\ cache' = [cache EXCEPT ![path] = NoEntry]
    /\ UNCHANGED <<life, closing, purged>>

-----------------------------------------------------------------------------
(* doRetryResolve *)

Usable(jigsaws) == jigsaws # {}

\* A request has its answer: it settles the query, and closes later.
Reply(q, jigsaws) ==
    /\ query[q].state = "asking"
    /\ Usable(jigsaws)
    /\ jigsaws \cap purged \subseteq query[q].answer.late
    /\ query' = [query EXCEPT ![q].state = "resolved", ![q].answer.jigsaws = jigsaws]
    /\ closing' = closing + 1
    /\ UNCHANGED <<life, ref, settled, call, queryings, cache, purged, evicted>>

\* It times out, is answered with an error or an empty set: the next round
\* comes after a sleep, unless the time is over.
Fails(q) ==
    /\ query[q].state = "asking"
    /\ \E state \in {"sleeping", "rejected"} : query' = [query EXCEPT ![q].state = state]
    /\ closing' = closing + 1
    /\ UNCHANGED <<life, ref, settled, call, queryings, cache, purged, evicted>>

\* Fault: the last round ends without an error.
Wake_Stops(q) ==
    /\ query[q].state = "sleeping"
    /\ query[q].tries < MaxTries
    /\ query' = [query EXCEPT ![q].state = "asking", ![q].tries = @ + 1, ![q].answer = Nothing]
    /\ SetRef(ref + 1)
    /\ UNCHANGED <<life, call, queryings, closing, cache, purged, evicted>>

\* The next round makes a new request, with a reference of its own; after the
\* last one the query fails.
Wake(q) ==
    /\ query[q].state = "sleeping"
    /\ IF query[q].tries < MaxTries
       THEN /\ query' = [query EXCEPT ![q].state = "asking", ![q].tries = @ + 1,
                                      ![q].answer = Nothing]
            /\ SetRef(ref + 1)
       ELSE /\ query' = [query EXCEPT ![q].state = "rejected"]
            /\ UNCHANGED <<ref, settled>>
    /\ UNCHANGED <<life, call, queryings, closing, cache, purged, evicted>>

\* A request is "closed", at its end or on being dead.
RequestClosed ==
    /\ closing > 0
    /\ closing' = closing - 1
    /\ SetRef(ref - 1)
    /\ UNCHANGED <<life, call, query, queryings, cache, purged, evicted>>

\* The finally of a settled query.  Its delete is by name: it may take out the
\* entry of a later query when its own was dropped, and throws when there is
\* none, before the reference is given back.
Finally(q) ==
    /\ query[q].state \in {"resolved", "rejected"} /\ ~query[q].over
    /\ query' = [query EXCEPT ![q].over = TRUE]
    /\ \/ \E i \in Running(query[q].path) :
            /\ queryings' = RemoveAt(queryings, i)
            /\ SetRef(ref - 1)
       \/ /\ Running(query[q].path) = {}
          /\ UNCHANGED <<queryings, ref, settled>>
    /\ UNCHANGED <<life, call, closing, cache, purged, evicted>>

\* A call goes on when its query is settled; addCached keeps an entry that is
\* there.
Continue(c) ==
    LET k == call[c]
        q == query[k.query]
    IN  /\ k.state = "awaiting"
        /\ \/ /\ q.state = "resolved"
              /\ call' = [call EXCEPT ![c].state = "returned", ![c].jigsaws = q.answer.jigsaws]
              /\ cache' = IF cache[k.path].state = "none"
                          THEN [cache EXCEPT ![k.path] = [state |-> "valid", answer |-> q.answer]]
                          ELSE cache
           \/ /\ q.state = "rejected"
              /\ call' = [call EXCEPT ![c].state = "threw"]
              /\ UNCHANGED cache
        /\ UNCHANGED <<life, ref, settled, query, queryings, closing, purged, evicted>>

-----------------------------------------------------------------------------
(* The cache and the registry's notifications *)

\* Fault: an entry that has been emptied stays.
Cleared_Kept(e, j) == [e EXCEPT !.answer.jigsaws = @ \ {j}]

\* clearCached_jgid for one entry
Cleared(e, j) ==
    IF e.answer.jigsaws \subseteq {j} THEN NoEntry ELSE [e EXCEPT !.answer.jigsaws = @ \ {j}]

\* Fault: the notification clears one name only.
ClearedAll_One(j) == [cache EXCEPT ![AnyPath] = Cleared(@, j)]

ClearedAll(j) == [p \in RegPaths |-> Cleared(cache[p], j)]

\* A DomainPurgeNotifyPacket, until close() has unplugged the handler.
Purged(j) ==
    /\ life = "ready"
    /\ j \notin purged
    /\ purged' = purged \cup {j}
    /\ cache' = ClearedAll(j)
    /\ query' = [q \in Queries |->
                    IF \/ query[q].state \in {"asking", "resolved"} /\ ~query[q].over
                       \/ \E c \in Calls : call[c].state = "awaiting" /\ call[c].query = q
                    THEN [query[q] EXCEPT !.answer.late = @ \cup {j}] ELSE query[q]]
    /\ UNCHANGED <<life, ref, settled, call, queryings, closing, evicted>>

\* 10 s pass, or the cache's map drops the entry.
CacheAges(p) ==
    /\ cache[p].state # "none"
    /\ \/ cache[p].state = "valid" /\ cache' = [cache EXCEPT ![p].state = "expired"]
       \/ cache' = [cache EXCEPT ![p] = NoEntry]
    /\ UNCHANGED <<life, ref, settled, tasks, purged, evicted>>

-----------------------------------------------------------------------------
(* close() *)

Close ==
    /\ life = "ready"
    /\ life' = "closing"
    /\ UNCHANGED <<ref, settled, tasks, cache, purged, evicted>>

\* Fault: close() relies on a reference still to be given back.
Await_NoCheck ==
    /\ life = "closing"
    /\ life' = "waiting"
    /\ UNCHANGED <<ref, settled, tasks, cache, purged, evicted>>

\* setRef(0), and on to `await closing_defer.promise`.
Await ==
    /\ life = "closing"
    /\ life' = "waiting"
    /\ SetRef(ref)
    /\ UNCHANGED <<tasks, cache, purged, evicted>>

\* Fault: close() does not await closing_defer.
Closed_AtOnce ==
    /\ life = "waiting"
    /\ life' = "closed"
    /\ UNCHANGED <<ref, settled, tasks, cache, purged, evicted>>

Closed ==
    /\ life = "waiting" /\ settled
    /\ life' = "closed"
    /\ UNCHANGED <<ref, settled, tasks, cache, purged, evicted>>

ResolveAny(c) ==
    \E p \in RegPaths : \/ ResolveCached(c, p) \/ Join(c, p)
                        \/ \E q \in Queries : StartQuery(c, p, q)

Asks(q) == Fails(q) \/ \E jigsaws \in SUBSET Jigsaws : Reply(q, jigsaws)

Next ==
    \/ \E c \in Calls : ResolveAny(c) \/ Continue(c)
    \/ \E q \in Queries : Asks(q) \/ Wake(q) \/ Finally(q)
    \/ RequestClosed
    \/ \E j \in Jigsaws : Purged(j)
    \/ \E p \in RegPaths : CacheAges(p)
    \/ Close \/ Await \/ Closed

Spec == Init /\ [][Next]_vars

(* Fairness.  A request ends, by its 1 s timer at the latest, and closes;     *)
(* sleeps end and promise continuations run.  Nothing makes anyone call       *)
(* resolveAny or close, and no purge need come.                               *)
Fairness ==
    /\ \A q \in Queries : WF_vars(Asks(q)) /\ WF_vars(Wake(q)) /\ WF_vars(Finally(q))
    /\ \A c \in Calls : WF_vars(Continue(c))
    /\ WF_vars(RequestClosed) /\ WF_vars(Await) /\ WF_vars(Closed)

FairSpec == Spec /\ Fairness

-----------------------------------------------------------------------------
(* Properties *)

\* resolve() always has a jigsaw to pick: an answer given to a caller is never
\* empty, though notifications take jigsaws out of cached answers and the
\* registry answers with an empty set for a name with sub-names only.
AnswersUsable == \A c \in Calls : call[c].state = "returned" => call[c].jigsaws # {}

\* A purged jigsaw is in the cache only by an answer asked for before its
\* notification came: the notification reaches every name and every entry.
StaleOnlyIfLate ==
    \A p \in RegPaths : cache[p].answer.jigsaws \cap purged \subseteq cache[p].answer.late

\* ref counts the queries that are not over and the requests that are not
\* closed, unless a query was dropped from queryings.
RefsCount ==
    ~evicted =>
      ref = Cardinality({q \in Queries : query[q].state # "none" /\ ~query[q].over})
              + Cardinality({q \in Queries : query[q].state = "asking"}) + closing

\* When close() has returned nothing of the resolver is running that could
\* still use the router.
QuietWhenClosed ==
    life = "closed" /\ ~evicted =>
      closing = 0 /\ \A q \in Queries : query[q].state \in {"none", "resolved", "rejected"}

\* Every call ends, with an answer or an error, even one whose query was
\* dropped.
CallsEnd == \A c \in Calls : call[c].state = "awaiting" ~> call[c].state \in {"returned", "threw"}

\* close() returns, whenever it is called, unless a query was dropped from
\* queryings while it ran: that one's reference is never given back.
CloseReturns == life = "closing" ~> (life = "closed" \/ evicted)
=============================================================================
