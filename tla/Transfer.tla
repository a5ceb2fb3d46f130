------------------------------ MODULE Transfer ------------------------------
(***************************************************************************)
(* One remote call over UDP, from InvokeRequest.send() to the handler and  *)
(* back: request and reply are cut into slices by a PacketSlicer, carried  *)
(* by a network that loses, duplicates and reorders, put together by the   *)
(* builders behind a SliceHandler, and acknowledged slice by slice.  The   *)
(* client resends until its call is settled; when every slice is           *)
(* acknowledged it polls with an empty slice instead.  The InvokeHandler   *)
(* of each provider keeps one invoker per request id and answers a         *)
(* repeated request from it.                                               *)
(*                                                                         *)
(* All Providers registered under the called name are addressed: the       *)
(* RegistryRoute picks one for every single packet.  A provider's bounded  *)
(* maps of builders and invokers drop an entry when 500 others have come   *)
(* in or it has aged: MaxEvictions times in all here.                      *)
(***************************************************************************)
EXTENDS Naturals, FiniteSets

CONSTANTS Providers,
          ReqParts,      \* number of slices of the request
          RepParts,      \* number of slices of the reply
          Answers,       \* what a handler may do: return a Buffer or JSON, or throw
          MaxEvictions,
          MaxLosses      \* messages taken off the network

ASSUME PartsAssumption == ReqParts \in Nat \ {0} /\ RepParts \in Nat \ {0}
ASSUME AnswersAssumption == Answers \subseteq {"raw", "json", "error"}
ASSUME BoundsAssumption == MaxEvictions \in Nat /\ MaxLosses \in Nat

Jobs == Providers \X (1 .. MaxEvictions + 1)   \* the build_req of each run

VARIABLES outcome,   \* what settled the call: an answer, failed, or a broken packet
          resultType, \* isResultJson: how send() will read the value it was given
          open,      \* the request is closing, not closed: its socket is open
          unsent,    \* the request slicer's unsent_packets; alldone when empty
          cut,       \* the request slicer ran into its own timer, and gave up its data
          round,     \* slice ids the current send() has still to send
          builder,   \* provider -> its builder of the request
          current,   \* provider -> run number of the invoker in its map, or 0
          runs,      \* provider -> how often the handler was started
          job,       \* run -> what it was given, invoker, reply slicer, send loops
          reply,     \* run -> the client's builder of that reply
          evictions, \* provider -> [builders, invokers]: how many it dropped
          net,       \* messages under way
          spent      \* how many losses and evictions there have been

clientVars   == <<outcome, resultType, open, unsent, cut, round>>
providerVars == <<builder, current, runs, job, evictions>>
vars == <<clientVars, providerVars, reply, net, spent>>

Values == {"raw", "json"}

\* A slice cut after its slicer was done has lost payload and partmax: full = FALSE.
Message ==
    [type : {"reqSlice"}, to : Providers, part : 0 .. ReqParts - 1, full : BOOLEAN]
      \cup [type : {"reqAck"}, part : 0 .. ReqParts - 1]
      \cup [type : {"repSlice"}, job : Jobs, part : 0 .. RepParts - 1, full : BOOLEAN]
      \cup [type : {"repAck"}, job : Jobs, part : 0 .. RepParts - 1]

Contents == {"none", "intact", "garbled", "released"}

BuilderOf(n) ==
    [made : BOOLEAN, max : {0, n}, full : SUBSET (0 .. n - 1), void : SUBSET (0 .. n - 1),
     product : Contents]

\* The client's slices and invokers, and the builders of both ends, stay within
\* what the packets have been cut into.

TypeOK ==
    /\ outcome \in Contents \cup Answers \cup {"failed"}
    /\ resultType \in Values
    /\ open \in BOOLEAN
    /\ cut \in BOOLEAN
    /\ unsent \subseteq 0 .. ReqParts - 1
    /\ round \subseteq 0 .. ReqParts - 1
    /\ builder \in [Providers -> BuilderOf(ReqParts)]
    /\ current \in [Providers -> 0 .. MaxEvictions + 1]
    /\ runs \in [Providers -> 0 .. MaxEvictions + 1]
    /\ job \in [Jobs -> [state : {"none", "invoking", "closing", "invoked", "done", "stuck"},
                         input : Contents,
                         answer : {"none"} \cup Answers,
                         unsent : SUBSET (0 .. RepParts - 1),
                         round : SUBSET (0 .. RepParts - 1),
                         source : 0 .. MaxEvictions]]
    /\ reply \in [Jobs -> BuilderOf(RepParts)]
    /\ evictions \in [Providers -> [builders : Nat, invokers : Nat]]
    /\ net \subseteq Message
    /\ spent \in [losses : 0 .. MaxLosses, evictions : 0 .. MaxEvictions]

NoBuilder == [made |-> FALSE, max |-> 0, full |-> {}, void |-> {}, product |-> "none"]
NoJob == [state |-> "none", input |-> "none", answer |-> "none", unsent |-> {}, round |-> {}, source |-> 0]

\* getSliceCount(), initUnsent()
SliceIds(n) == 0 .. n - 1

Init ==
    /\ outcome = "none"
    /\ resultType = "raw"
    /\ open = TRUE
    /\ unsent = SliceIds(ReqParts)
    /\ cut = FALSE
    /\ round = {}
    /\ builder = [p \in Providers |-> NoBuilder]
    /\ current = [p \in Providers |-> 0]
    /\ runs = [p \in Providers |-> 0]
    /\ job = [k \in Jobs |-> NoJob]
    /\ reply = [k \in Jobs |-> NoBuilder]
    /\ evictions = [p \in Providers |-> [builders |-> 0, invokers |-> 0]]
    /\ net = {}
    /\ spent = [losses |-> 0, evictions |-> 0]

-----------------------------------------------------------------------------
(* PacketSlicer and SliceHandler *)

\* packets_send_limit, 1 to 50 as the measured speed has it
SendLimits(parts) == 1 .. Cardinality(parts)

\* getPartSlices(): the first packets_send_limit of the unsent slices
Rounds(parts) ==
    {{i \in parts : Cardinality({j \in parts : j < i}) < n} : n \in SendLimits(parts)}

\* createBuilder on the first slice of a key, with that slice's partmax.
Made(b, max) == IF b.made THEN b ELSE [NoBuilder EXCEPT !.made = TRUE, !.max = max]

\* addPart: ignored once there is a product, else the slot is (over)written.
Put(b, part, full) ==
    IF b.product # "none" THEN b
    ELSE [b EXCEPT !.full = IF full THEN @ \cup {part} ELSE @ \ {part},
                   !.void = IF full THEN @ \ {part} ELSE @ \cup {part}]

\* Fault: done with one slice missing.
IsDone_OneShort(b) == Cardinality(b.full \cup b.void) >= b.max - 1

\* isDone() of a builder without a product
IsDone(b) == Cardinality(b.full \cup b.void) = b.max

\* getData() keeps the product and releases the container.
WithProduct(b, what) == [b EXCEPT !.product = what, !.full = {}, !.void = {}]

\* What SliceHandler.handlePacket makes of a slice: the builder after it, the
\* packet it hands on (none while slots are missing), and whether it gets to
\* the ack.  addPart's assertion and a failing decode leave before that; a
\* packet with slots void or missing decodes to something else or not at all.
Handled(b0, part, full, max) ==
    LET made == Made(b0, max)
        b    == Put(made, part, full)
        Result(x, built, ack) == [builder |-> x, built |-> built, ack |-> ack]
        Product(what) == Result(WithProduct(b, what), what, TRUE)
    IN  IF b.product # "none" THEN {Result(b, b.product, TRUE)}
        ELSE IF part >= b.max THEN {Result(made, "none", FALSE)}
        ELSE IF ~IsDone(b) THEN {Result(b, "none", TRUE)}
        ELSE IF b.full = 0 .. b.max - 1 THEN {Product("intact")}
        ELSE {Product("garbled"), Result(b, "none", FALSE)}

-----------------------------------------------------------------------------
(* The client: InvokeRequest *)

ReqSlice(p, i) ==
    [type |-> "reqSlice", to |-> p, part |-> i, full |-> unsent # {} /\ ~cut]

\* Fault: send() has nothing to send once every slice is acknowledged.
StartRound_NoPoll ==
    /\ outcome = "none" /\ round = {}
    /\ unsent # {}
    /\ round' \in Rounds(unsent)
    /\ UNCHANGED <<outcome, resultType, open, unsent, cut, providerVars, reply, net, spent>>

\* send(): choose the slices of this round, or poll with an empty slice when
\* all are acknowledged.
StartRound ==
    /\ outcome = "none" /\ round = {}
    /\ IF unsent # {}
       THEN round' \in Rounds(unsent) /\ UNCHANGED net
       ELSE /\ \E p \in Providers : net' = net \cup {ReqSlice(p, 0)}
            /\ UNCHANGED round
    /\ UNCHANGED <<outcome, resultType, open, unsent, cut, providerVars, reply, spent>>

\* One packet of the round, to whichever provider the route picks.  Acks may
\* have come since the round was chosen, and a settled call still finishes it.
SendSlice ==
    /\ \E i \in round, p \in Providers :
         /\ round' = round \ {i}
         /\ net' = net \cup {ReqSlice(p, i)}
    /\ UNCHANGED <<outcome, resultType, open, unsent, cut, providerVars, reply, spent>>

\* A SliceAckPacket reaches handlePacket.
RecvReqAck(i) ==
    /\ [type |-> "reqAck", part |-> i] \in net
    /\ open
    /\ unsent' = unsent \ {i}
    /\ UNCHANGED <<outcome, resultType, open, cut, round, providerVars, reply, net, spent>>

\* Fault: a result replaces the one before.
Settled_Overwrites(built, answer) ==
    IF built = "none" \/ outcome = "failed" THEN outcome
    ELSE IF built = "intact" THEN answer ELSE built

\* setResult() and the deferred of onErrorPacket: the first packet counts.
Settled(built, answer) ==
    IF built = "none" \/ outcome # "none" THEN outcome
    ELSE IF built = "intact" THEN answer ELSE built

\* Fault: a value that comes in changes nothing about how the result is read.
ReadAs_Never(built, answer) == {resultType}

\* How the result will be read after a reply has come in: handlePacket() notes
\* isJSON of every whole InvokeReplyPacket, before setResult() asks hasResult.
ReadAs(built, answer) ==
    IF built = "garbled" THEN Values
    ELSE IF built # "none" /\ answer \in Values THEN {answer}
    ELSE {resultType}

\* A slice of a reply: build, hand on to handlePacket (a value, whose packet is
\* released, or an error to onErrorPacket), acknowledge.
RecvRepSlice(m) ==
    /\ m \in net /\ m.type = "repSlice"
    /\ open
    /\ LET answer == job[m.job].answer
       IN \E h \in Handled(reply[m.job], m.part, m.full, IF m.full THEN RepParts ELSE 0) :
            /\ reply' = [reply EXCEPT ![m.job] =
                   IF h.built = "intact" /\ answer \in Values
                   THEN [h.builder EXCEPT !.product = "released"] ELSE h.builder]
            /\ outcome' = Settled(h.built, answer)
            /\ resultType' \in ReadAs(h.built, answer)
            /\ net' = IF h.ack
                      THEN net \cup {[type |-> "repAck", job |-> m.job, part |-> m.part]}
                      ELSE net
    /\ UNCHANGED <<open, unsent, cut, round, providerVars, spent>>

\* The 10 s timer, a failed address resolution, or a foreign error packet.
GiveUp ==
    /\ outcome = "none"
    /\ outcome' = "failed"
    /\ UNCHANGED <<resultType, open, unsent, cut, round, providerVars, reply, net, spent>>

\* The 12 s timer of the request slicer: its data is gone, and what is left of a
\* round that still waits for the resolver goes out empty.  The 10 s timer has
\* settled the call by then, so no further round begins.
ReqSlicerTimeout ==
    /\ outcome # "none" /\ open
    /\ unsent # {} /\ ~cut
    /\ cut' = TRUE
    /\ UNCHANGED <<outcome, resultType, open, unsent, round, providerVars, reply, net, spent>>

\* The resend loop has ended: "closed", and send() closes its socket.
Close ==
    /\ open
    /\ outcome # "none" /\ round = {}
    /\ open' = FALSE
    /\ UNCHANGED <<outcome, resultType, unsent, cut, round, providerVars, reply, net, spent>>

-----------------------------------------------------------------------------
(* A provider: SliceHandler and InvokeHandler *)

\* Fault: a repeated request always starts the handler again.
IsNew_Always(p) == TRUE

\* hasInvoker(request_id)
IsNew(p) == current[p] = 0

\* A slice of the request.  Every completed or repeated packet goes to
\* InvokeHandler.handlePacket: an unknown request starts the handler, a known
\* one is answered again once its handler has returned.
RecvReqSlice(m) ==
    /\ m \in net /\ m.type = "reqSlice"
    /\ LET p == m.to
           k == <<p, current[p]>>
           next == runs[p] + 1
       IN \E h \in Handled(builder[p], m.part, m.full, IF m.full THEN ReqParts ELSE 0) :
            /\ builder' = [builder EXCEPT ![p] = h.builder]
            /\ net' = IF h.ack THEN net \cup {[type |-> "reqAck", part |-> m.part]} ELSE net
            /\ \/ /\ h.built # "none" /\ IsNew(p)
                  /\ next <= MaxEvictions + 1
                  /\ runs' = [runs EXCEPT ![p] = next]
                  /\ current' = [current EXCEPT ![p] = next]
                  /\ job' = [job EXCEPT ![<<p, next>>] =
                               [NoJob EXCEPT !.state = "invoking", !.input = h.built,
                                             !.source = evictions[p].builders]]
               \/ /\ h.built # "none" /\ ~IsNew(p)
                  /\ job[k].state = "invoked"
                  /\ \E r \in Rounds(job[k].unsent) : job' = [job EXCEPT ![k].round = @ \cup r]
                  /\ UNCHANGED <<runs, current>>
               \/ /\ h.built = "none" \/ (~IsNew(p) /\ job[k].state # "invoked")
                  /\ UNCHANGED <<runs, current, job>>
    /\ UNCHANGED <<clientVars, evictions, reply, spent>>

\* The "alldone" event of a reply slicer releases the request packet, the very
\* object the builder hands out again unless that builder was dropped since.
Released(p, k) ==
    [builder EXCEPT ![p].product =
        IF @ # "none" /\ job[k].source = evictions[p].builders THEN "released" ELSE @]

\* The handler returns or throws: the reply is sliced and the first round of
\* sendInvokeResult chosen.  An invoker evicted meanwhile is closed instead.
HandlerEnds(p, n) ==
    LET k == <<p, n>>
        all == SliceIds(RepParts)
    IN  /\ job[k].state \in {"invoking", "closing"}
        /\ \E a \in Answers :
             IF job[k].state = "invoking"
             THEN /\ \E r \in Rounds(all) :
                       job' = [job EXCEPT ![k] = [@ EXCEPT !.state = "invoked", !.answer = a,
                                                           !.unsent = all, !.round = r]]
                  /\ UNCHANGED builder
             ELSE /\ job' = [job EXCEPT ![k] = [@ EXCEPT !.state = "done", !.answer = a]]
                  /\ builder' = Released(p, k)
        /\ UNCHANGED <<clientVars, current, runs, evictions, reply, net, spent>>

\* new PacketSlicer() throws when the reply cannot be encoded: no slicer is set,
\* and the invoker stays as it is for good.
CannotReply(p, n) ==
    LET k == <<p, n>>
    IN  /\ job[k].state \in {"invoking", "closing"}
        /\ job' = [job EXCEPT ![k].state = "stuck"]
        /\ UNCHANGED <<clientVars, builder, current, runs, evictions, reply, net, spent>>

\* One packet of a sendInvokeResult loop; a slicer closed meanwhile gives an
\* empty slice.
SendReply(p, n) ==
    LET k == <<p, n>>
    IN  /\ \E i \in job[k].round :
             /\ job' = [job EXCEPT ![k].round = @ \ {i}]
             /\ net' = net \cup {[type |-> "repSlice", job |-> k, part |-> i,
                                  full |-> job[k].state = "invoked"]}
        /\ UNCHANGED <<clientVars, builder, current, runs, evictions, reply, spent>>

\* A SliceAckPacket for the reply; the last one makes the slicer done.
RecvRepAck(m) ==
    /\ m \in net /\ m.type = "repAck"
    /\ job[m.job].state = "invoked"
    /\ LET k == m.job
           left == job[k].unsent \ {m.part}
       IN  /\ job' = [job EXCEPT ![k] = [@ EXCEPT !.unsent = left,
                                                  !.state = IF left = {} THEN "done" ELSE "invoked"]]
           /\ builder' = IF left = {} THEN Released(k[1], k) ELSE builder
    /\ UNCHANGED <<clientVars, current, runs, evictions, reply, net, spent>>

\* Fault: a reply slicer has no timer.
SlicerTimeout_Never(p, n) == FALSE

\* The 12 s timer of the reply slicer; the 10 s of the client are over by then.
SlicerTimeout(p, n) ==
    LET k == <<p, n>>
    IN  /\ job[k].state = "invoked"
        /\ outcome # "none"
        /\ job' = [job EXCEPT ![k].state = "done"]
        /\ builder' = Released(p, k)
        /\ UNCHANGED <<clientVars, current, runs, evictions, reply, net, spent>>

\* Invoker.close()
Closed(state) ==
    IF state = "invoking" THEN "closing" ELSE IF state = "invoked" THEN "done" ELSE state

\* The invokers' LimitedMap drops this invoker and its "deleted" event closes
\* it: at once when it has been invoked, when the handler ends otherwise.
EvictInvoker(p) ==
    LET k == <<p, current[p]>>
    IN  /\ current[p] # 0
        /\ spent.evictions < MaxEvictions
        /\ evictions' = [evictions EXCEPT ![p].invokers = @ + 1]
        /\ spent' = [spent EXCEPT !.evictions = @ + 1]
        /\ current' = [current EXCEPT ![p] = 0]
        /\ job' = [job EXCEPT ![k].state = Closed(@)]
        /\ builder' = IF job[k].state = "invoked" THEN Released(p, k) ELSE builder
        /\ UNCHANGED <<clientVars, runs, reply, net>>

EvictBuilder(p) ==
    /\ builder[p].made
    /\ spent.evictions < MaxEvictions
    /\ evictions' = [evictions EXCEPT ![p].builders = @ + 1]
    /\ spent' = [spent EXCEPT !.evictions = @ + 1]
    /\ builder' = [builder EXCEPT ![p] = NoBuilder]
    /\ UNCHANGED <<clientVars, current, runs, job, reply, net>>

-----------------------------------------------------------------------------
\* A message stays on the network, to arrive late, again or never.  Losing it
\* adds nothing to what can happen, but makes progress depend on resending.
Lose(m) ==
    /\ m \in net
    /\ spent.losses < MaxLosses
    /\ spent' = [spent EXCEPT !.losses = @ + 1]
    /\ net' = net \ {m}
    /\ UNCHANGED <<clientVars, providerVars, reply>>

Client == StartRound \/ SendSlice \/ GiveUp \/ ReqSlicerTimeout \/ Close

Provider(p, n) ==
    HandlerEnds(p, n) \/ CannotReply(p, n) \/ SendReply(p, n) \/ SlicerTimeout(p, n)

Network ==
    \/ \E i \in 0 .. ReqParts - 1 : RecvReqAck(i)
    \/ \E m \in net : RecvRepSlice(m) \/ RecvReqSlice(m) \/ RecvRepAck(m) \/ Lose(m)

Next ==
    \/ Client
    \/ \E p \in Providers, n \in 1 .. MaxEvictions + 1 : Provider(p, n)
    \/ \E p \in Providers : EvictInvoker(p) \/ EvictBuilder(p)
    \/ Network

Spec == Init /\ [][Next]_vars

(* Fairness.  The resend loop and the loops of sendInvokeResult go on, timers *)
(* fire and a handler is taken to return or throw: its reply is then sliced,  *)
(* unless it cannot be encoded.  A message that is not lost arrives.  Nothing *)
(* makes the client give up, and nothing evicts.                              *)
Fairness ==
    /\ WF_vars(StartRound) /\ WF_vars(SendSlice) /\ WF_vars(Close)
    /\ \A k \in Jobs : /\ WF_vars(HandlerEnds(k[1], k[2]))
                       /\ WF_vars(SendReply(k[1], k[2]))
                       /\ WF_vars(SlicerTimeout(k[1], k[2]))
    /\ \A i \in 0 .. ReqParts - 1 : WF_vars(RecvReqAck(i))
    /\ \A m \in Message : WF_vars(RecvReqSlice(m)) /\ WF_vars(RecvRepSlice(m))

FairSpec == Spec /\ Fairness

-----------------------------------------------------------------------------
(* Properties *)

\* With one provider, a slice the client will not send again (acknowledged by
\* SliceHandler) is held by the provider's builder or part of its product, as
\* long as that builder was not dropped and the request slicer has its data.
AckedMeansHeld ==
    \A p \in Providers :
      Providers = {p} /\ evictions[p].builders = 0 /\ ~cut =>
        \A i \in (0 .. ReqParts - 1) \ unsent :
          i \in builder[p].full \/ builder[p].product # "none"

\* With one provider, a handler is only ever given the request its caller sent,
\* unless a builder or invoker was dropped: never one whose data was released
\* after its reply, and one put together with empty slices only when the request
\* slicer has run into its timer under a round that was still being sent.
RequestIntact ==
    \A k \in Jobs :
      Providers = {k[1]} /\ evictions[k[1]].builders + evictions[k[1]].invokers = 0 =>
        job[k].input \in {"none", "intact"} \cup (IF cut THEN {"garbled"} ELSE {})

\* The replies the client has put together.
Arrived == {k \in Jobs : reply[k].product # "none"}

\* What send() gives its caller is a whole reply, whichever of several
\* providers and runs it came from, and never a packet the request has
\* released, however often the reply comes again.  It is read as what it was
\* sent as, a Buffer or JSON, unless a second run's reply has come in before the
\* request was closed: its isJSON is the one that counts then.  An invoker
\* dropped between two slices of its reply closes the slicer, and the rest goes
\* out empty.
ResultIntact ==
    (\A p \in Providers : evictions[p].invokers = 0) =>
        /\ outcome \notin {"garbled", "released"}
        /\ outcome \in Values /\ resultType # outcome => \E j, k \in Arrived : j # k

\* However the request is cut, resent, polled, duplicated and delayed, a
\* provider starts the handler once, and once more for each invoker its
\* LimitedMap has dropped.
RunsBoundedByEvictions ==
    \A p \in Providers : runs[p] <= 1 + evictions[p].invokers

\* What send() gives back: the result as getResultType() has it read.
Returned == IF outcome \in Values THEN resultType ELSE outcome

\* With one provider that drops nothing the transfer implements the call of
\* RpcCall: at most one run, and the caller gets the answer of that run, read as
\* the handler meant it.
Only == CHOOSE p \in Providers : TRUE
Call == INSTANCE RpcCall WITH Answers <- Answers, runs <- runs[Only], answer <- job[<<Only, 1>>].answer,
                              outcome <- Returned
ImplementsCall == Call!Spec

Stuck == {k \in Jobs : job[k].state = "stuck"}

\* A call to one provider is settled whichever messages are lost, up to
\* MaxLosses of them: slices are resent, and when all are acknowledged and the
\* reply is lost the empty slice still asks for it.  Not when the handler's
\* answer could not be encoded: only the client's own timer ends the call then.
Settles == <>(outcome # "none" \/ Stuck # {})

\* Every started run ends with its reply slicer done, whether the client has
\* acknowledged the reply or gone away: InvokeHandler.close() waits for it.  A
\* run whose reply could not be encoded never gets a slicer.
RunsEnd == \A k \in Jobs : job[k].state # "none" ~> job[k].state = "done" \/ k \in Stuck

\* What the repository's test says of a request and its handler: it is not
\* received twice when the network is slow.
ReceivedOnce == \A p, q \in Providers : runs[p] > 0 /\ runs[q] > 0 => p = q
=============================================================================
