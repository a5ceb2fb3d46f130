--------------------------- MODULE TransferProof ---------------------------
(***************************************************************************)
(* Proofs about Transfer, for any number of providers and slices and any   *)
(* bounds of evictions and losses: type correctness; that a provider       *)
(* starts the handler again only after it has dropped an invoker; that     *)
(* requests and replies arrive whole; that acknowledged slices are held;   *)
(* and that a transfer to one provider implements the call of RpcCall.     *)
(***************************************************************************)
EXTENDS Transfer, FiniteSetTheorems, TLAPS

\* The runs of a provider are those whose invokers were dropped, and the one
\* in its map; what it dropped is within what all dropped.
RunsInv ==
    \A p \in Providers :
      /\ runs[p] = evictions[p].invokers + (IF current[p] = 0 THEN 0 ELSE 1)
      /\ current[p] <= runs[p]
      /\ evictions[p].builders + evictions[p].invokers <= spent.evictions

IInv == TypeOK /\ RunsInv

JobRecord ==
    [state : {"none", "invoking", "closing", "invoked", "done", "stuck"},
     input : Contents,
     answer : {"none"} \cup Answers,
     unsent : SUBSET (0 .. RepParts - 1),
     round : SUBSET (0 .. RepParts - 1),
     source : 0 .. MaxEvictions]

-----------------------------------------------------------------------------
(* The operators *)

\* A round consists of the slices it was chosen from.
LEMMA RoundsAreParts ==
    ASSUME NEW parts, NEW r \in Rounds(parts)
    PROVE  r \subseteq parts
  BY DEF Rounds

\* A builder stays one of its packet, whatever slice it is given.
LEMMA PutType ==
    ASSUME NEW n \in Nat, NEW b \in BuilderOf(n), NEW part \in 0 .. n - 1, NEW full \in BOOLEAN
    PROVE  Put(b, part, full) \in BuilderOf(n)
  BY DEF Put, BuilderOf

LEMMA MadeType ==
    ASSUME NEW n \in Nat, NEW b \in BuilderOf(n), NEW max \in {0, n}
    PROVE  Made(b, max) \in BuilderOf(n)
  BY DEF Made, NoBuilder, BuilderOf, Contents

\* What a slice makes of a builder is a builder, and of the packet a content.
LEMMA HandledType ==
    ASSUME NEW n \in Nat, NEW b \in BuilderOf(n), NEW part \in 0 .. n - 1,
           NEW full \in BOOLEAN, NEW h \in Handled(b, part, full, IF full THEN n ELSE 0)
    PROVE  h.builder \in BuilderOf(n) /\ h.built \in Contents
<1> DEFINE made == Made(b, IF full THEN n ELSE 0)
           put  == Put(made, part, full)
           product(what) == [put EXCEPT !.product = what, !.full = {}, !.void = {}]
<1>1. made \in BuilderOf(n)
  BY MadeType
<1>2. put \in BuilderOf(n)
  BY <1>1, PutType
<1>3. product("intact") \in BuilderOf(n) /\ product("garbled") \in BuilderOf(n)
  BY <1>2 DEF BuilderOf, Contents
<1>4. put.product \in Contents
  BY <1>2 DEF BuilderOf
<1> HIDE DEF made, put, product
<1>5. \/ h = [builder |-> put, built |-> put.product, ack |-> TRUE]
      \/ h = [builder |-> made, built |-> "none", ack |-> FALSE]
      \/ h = [builder |-> put, built |-> "none", ack |-> TRUE]
      \/ h = [builder |-> put, built |-> "none", ack |-> FALSE]
      \/ h = [builder |-> product("intact"), built |-> "intact", ack |-> TRUE]
      \/ h = [builder |-> product("garbled"), built |-> "garbled", ack |-> TRUE]
  BY DEF Handled, WithProduct, made, put, product
<1> QED
  BY <1>1, <1>2, <1>3, <1>4, <1>5 DEF Contents

\* Releasing a request packet leaves builders what they are.
LEMMA ReleasedType ==
    ASSUME TypeOK, NEW p \in Providers, NEW k \in Jobs
    PROVE  Released(p, k) \in [Providers -> BuilderOf(ReqParts)]
<1> DEFINE left == IF builder[p].product # "none" /\ job[k].source = evictions[p].builders
                   THEN "released" ELSE builder[p].product
<1>1. builder \in [Providers -> BuilderOf(ReqParts)] /\ builder[p] \in BuilderOf(ReqParts)
  BY DEF TypeOK
<1>2. left \in Contents
  BY <1>1 DEF BuilderOf, Contents
<1>3. [builder[p] EXCEPT !.product = left] \in BuilderOf(ReqParts)
  BY <1>1, <1>2 DEF BuilderOf
<1>4. Released(p, k) = [builder EXCEPT ![p] = [builder[p] EXCEPT !.product = left]]
  BY <1>1 DEF Released
<1> QED
  BY <1>1, <1>3, <1>4

-----------------------------------------------------------------------------
(* The invariant *)

LEMMA InitIInv == Init => IInv
<1> SUFFICES ASSUME Init PROVE IInv
  OBVIOUS
<1>1. NoBuilder \in BuilderOf(ReqParts) /\ NoBuilder \in BuilderOf(RepParts)
  BY PartsAssumption DEF NoBuilder, BuilderOf, Contents
<1>2. NoJob \in JobRecord
  BY BoundsAssumption DEF NoJob, JobRecord, Contents
<1>5. job \in [Jobs -> JobRecord]
  BY <1>2 DEF Init
<1>6. /\ outcome \in Contents /\ resultType \in Values /\ open \in BOOLEAN /\ cut \in BOOLEAN
      /\ unsent \subseteq 0 .. ReqParts - 1 /\ round \subseteq 0 .. ReqParts - 1
  BY DEF Init, Contents, Values, SliceIds
<1>3. TypeOK
  BY <1>1, <1>5, <1>6, PartsAssumption, BoundsAssumption DEF Init, TypeOK, JobRecord
<1>4. RunsInv
  BY BoundsAssumption DEF Init, RunsInv
<1> QED
  BY <1>3, <1>4 DEF IInv

LEMMA ClientStep ==
    ASSUME IInv, Client
    PROVE  IInv'
<1> USE PartsAssumption, BoundsAssumption
<1>0. TypeOK /\ RunsInv
  BY DEF IInv
<1>1. CASE StartRound
  <2>1. round' \subseteq 0 .. ReqParts - 1
    BY <1>0, <1>1, RoundsAreParts DEF StartRound, TypeOK
  <2>2. \A p \in Providers : ReqSlice(p, 0) \in Message
    BY DEF Message, ReqSlice
  <2>3. net' \subseteq Message
    BY <1>0, <1>1, <2>2 DEF StartRound, TypeOK
  <2> QED
    BY <1>0, <1>1, <2>1, <2>3 DEF StartRound, IInv, TypeOK, RunsInv, providerVars
<1>2. CASE SendSlice
  <2>1. PICK i \in round, p \in Providers :
          round' = round \ {i} /\ net' = net \cup {ReqSlice(p, i)}
    BY <1>2 DEF SendSlice
  <2>2. ReqSlice(p, i) \in Message
    BY <1>0 DEF TypeOK, Message, ReqSlice
  <2> QED
    BY <1>0, <1>2, <2>1, <2>2 DEF SendSlice, IInv, TypeOK, RunsInv, providerVars
<1>3. CASE GiveUp
  BY <1>0, <1>3 DEF GiveUp, IInv, TypeOK, RunsInv, providerVars
<1>4. CASE Close
  BY <1>0, <1>4 DEF Close, IInv, TypeOK, RunsInv, providerVars
<1>5. CASE ReqSlicerTimeout
  BY <1>0, <1>5 DEF ReqSlicerTimeout, IInv, TypeOK, RunsInv, providerVars
<1> QED
  BY <1>1, <1>2, <1>3, <1>4, <1>5 DEF Client

LEMMA RecvReqAckStep ==
    ASSUME IInv, NEW i \in 0 .. ReqParts - 1, RecvReqAck(i)
    PROVE  IInv'
  BY DEF RecvReqAck, IInv, TypeOK, RunsInv, providerVars

LEMMA RecvRepSliceStep ==
    ASSUME IInv, NEW m \in net, RecvRepSlice(m)
    PROVE  IInv'
<1> USE PartsAssumption, BoundsAssumption
<1>0. TypeOK /\ RunsInv
  BY DEF IInv
<1>1. m.job \in Jobs /\ m.part \in 0 .. RepParts - 1 /\ m.full \in BOOLEAN
  BY <1>0 DEF RecvRepSlice, TypeOK, Message
<1>2. job[m.job].answer \in {"none"} \cup Answers /\ reply[m.job] \in BuilderOf(RepParts)
  BY <1>0, <1>1 DEF TypeOK
<1>3. PICK h \in Handled(reply[m.job], m.part, m.full, IF m.full THEN RepParts ELSE 0) :
        /\ reply' = [reply EXCEPT ![m.job] =
               IF h.built = "intact" /\ job[m.job].answer \in Values
               THEN [h.builder EXCEPT !.product = "released"] ELSE h.builder]
        /\ outcome' = Settled(h.built, job[m.job].answer)
        /\ resultType' \in ReadAs(h.built, job[m.job].answer)
        /\ net' = IF h.ack
                  THEN net \cup {[type |-> "repAck", job |-> m.job, part |-> m.part]}
                  ELSE net
  BY DEF RecvRepSlice
<1>4. h.builder \in BuilderOf(RepParts) /\ h.built \in Contents
  BY <1>1, <1>2, HandledType
<1>5. [h.builder EXCEPT !.product = "released"] \in BuilderOf(RepParts)
  BY <1>4 DEF BuilderOf, Contents
<1>6. reply' \in [Jobs -> BuilderOf(RepParts)]
  BY <1>0, <1>3, <1>4, <1>5 DEF TypeOK
<1>7. outcome' \in Contents \cup Answers \cup {"failed"}
  BY <1>0, <1>2, <1>3, <1>4 DEF TypeOK, Settled, Contents
<1>9. resultType' \in Values
  BY <1>0, <1>3 DEF TypeOK, ReadAs
<1>8. net' \subseteq Message
  BY <1>0, <1>1, <1>3 DEF TypeOK, Message
<1> QED
  BY <1>0, <1>6, <1>7, <1>8, <1>9 DEF RecvRepSlice, IInv, TypeOK, RunsInv, providerVars


LEMMA RecvReqSliceStep ==
    ASSUME IInv, NEW m \in net, RecvReqSlice(m)
    PROVE  IInv'
<1> USE PartsAssumption, BoundsAssumption
<1> DEFINE p == m.to
           k == <<p, current[p]>>
           next == runs[p] + 1
<1>0. TypeOK /\ RunsInv
  BY DEF IInv
<1>1. p \in Providers /\ m.part \in 0 .. ReqParts - 1 /\ m.full \in BOOLEAN
  BY <1>0 DEF RecvReqSlice, TypeOK, Message
<1>2. /\ builder[p] \in BuilderOf(ReqParts)
      /\ runs[p] \in 0 .. MaxEvictions + 1 /\ current[p] \in 0 .. MaxEvictions + 1
      /\ evictions[p].builders \in Nat /\ evictions[p].invokers \in Nat
  BY <1>0, <1>1 DEF TypeOK
<1>3. PICK h \in Handled(builder[p], m.part, m.full, IF m.full THEN ReqParts ELSE 0) :
        /\ builder' = [builder EXCEPT ![p] = h.builder]
        /\ net' = IF h.ack THEN net \cup {[type |-> "reqAck", part |-> m.part]} ELSE net
        /\ \/ /\ h.built # "none" /\ IsNew(p)
              /\ next <= MaxEvictions + 1
              /\ runs' = [runs EXCEPT ![p] = next]
              /\ current' = [current EXCEPT ![p] = next]
              /\ job' = [job EXCEPT ![<<p, next>>] =
                           [NoJob EXCEPT !.state = "invoking", !.input = h.built,
                                         !.source = evictions[p].builders]]
           \/ /\ h.built # "none" /\ ~IsNew(p)
              /\ job[k].state = "invoked"
              /\ \E r \in Rounds(job[k].unsent) : job' = [job EXCEPT ![k].round = @ \cup r]
              /\ UNCHANGED <<runs, current>>
           \/ UNCHANGED <<runs, current, job>>
  BY DEF RecvReqSlice
<1>4. h.builder \in BuilderOf(ReqParts) /\ h.built \in Contents
  BY <1>1, <1>2, <1>3, HandledType
<1>5. builder' \in [Providers -> BuilderOf(ReqParts)] /\ net' \subseteq Message
  BY <1>0, <1>1, <1>3, <1>4 DEF TypeOK, Message
<1> HIDE DEF p, k, next
<1>6. UNCHANGED <<outcome, resultType, open, unsent, cut, round, evictions, reply, spent>>
  BY DEF RecvReqSlice, clientVars
<1>7. CASE UNCHANGED <<runs, current, job>>
  BY <1>0, <1>5, <1>6, <1>7 DEF IInv, TypeOK, RunsInv
<1>8. CASE /\ IsNew(p) /\ next <= MaxEvictions + 1
           /\ runs' = [runs EXCEPT ![p] = next]
           /\ current' = [current EXCEPT ![p] = next]
           /\ job' = [job EXCEPT ![<<p, next>>] =
                        [NoJob EXCEPT !.state = "invoking", !.input = h.built,
                                      !.source = evictions[p].builders]]
  <2>1. next = runs[p] + 1 /\ next \in 1 .. MaxEvictions + 1 /\ <<p, next>> \in Jobs
    BY <1>1, <1>2, <1>8 DEF next, Jobs
  <2>2. evictions[p].builders \in 0 .. MaxEvictions
    BY <1>0, <1>1, <1>2 DEF RunsInv, TypeOK
  <2>3. [NoJob EXCEPT !.state = "invoking", !.input = h.built,
                      !.source = evictions[p].builders] \in JobRecord
    BY <1>4, <2>2 DEF NoJob, JobRecord
  <2>4. job' \in [Jobs -> JobRecord]
    BY <1>0, <1>8, <2>1, <2>3 DEF TypeOK, JobRecord
  <2>5. next \in 0 .. MaxEvictions + 1
    BY <2>1
  <2>6. /\ runs' \in [Providers -> 0 .. MaxEvictions + 1]
        /\ current' \in [Providers -> 0 .. MaxEvictions + 1]
    BY <1>0, <1>8, <2>5 DEF TypeOK
  <2>7. TypeOK'
    BY <1>0, <1>5, <1>6, <2>4, <2>6 DEF TypeOK, JobRecord
  <2>8. RunsInv'
    <3> SUFFICES ASSUME NEW q \in Providers
                 PROVE  /\ runs'[q] = evictions'[q].invokers + (IF current'[q] = 0 THEN 0 ELSE 1)
                        /\ current'[q] <= runs'[q]
                        /\ evictions'[q].builders + evictions'[q].invokers <= spent'.evictions
      BY DEF RunsInv
    <3>1. CASE q = p
      BY <1>0, <1>1, <1>2, <1>6, <1>8, <2>1, <3>1 DEF RunsInv, TypeOK, IsNew
    <3>2. CASE q # p
      BY <1>0, <1>6, <1>8, <3>2 DEF RunsInv, TypeOK
    <3> QED
      BY <3>1, <3>2
  <2> QED
    BY <2>7, <2>8 DEF IInv
<1>9. CASE /\ ~IsNew(p)
           /\ \E r \in Rounds(job[k].unsent) : job' = [job EXCEPT ![k].round = @ \cup r]
           /\ UNCHANGED <<runs, current>>
  <2>1. k \in Jobs
    BY <1>1, <1>2, <1>9 DEF k, Jobs, IsNew
  <2>2. PICK r \in Rounds(job[k].unsent) : job' = [job EXCEPT ![k].round = @ \cup r]
    BY <1>9
  <2>3. r \subseteq 0 .. RepParts - 1
    BY <1>0, <2>1, <2>2, RoundsAreParts DEF TypeOK
  <2>4. job[k] \in JobRecord
    BY <1>0, <2>1 DEF TypeOK, JobRecord
  <2>5. [job[k] EXCEPT !.round = @ \cup r] \in JobRecord
    BY <2>3, <2>4 DEF JobRecord
  <2>6. job' \in [Jobs -> JobRecord]
    BY <1>0, <2>1, <2>2, <2>5 DEF TypeOK, JobRecord
  <2> QED
    BY <1>0, <1>5, <1>6, <1>9, <2>6 DEF IInv, TypeOK, RunsInv, JobRecord
<1> QED
  BY <1>3, <1>7, <1>8, <1>9 DEF p, k, next


\* A step that changes one job within its type, and builders within theirs.
LEMMA JobStep ==
    ASSUME IInv, NEW k \in Jobs, NEW rec \in JobRecord,
           job' = [job EXCEPT ![k] = rec],
           builder' \in [Providers -> BuilderOf(ReqParts)], net' \subseteq Message,
           UNCHANGED <<clientVars, current, runs, evictions, reply, spent>>
    PROVE  IInv'
  BY DEF IInv, TypeOK, RunsInv, JobRecord, clientVars

LEMMA HandlerEndsStep ==
    ASSUME IInv, NEW p \in Providers, NEW n \in 1 .. MaxEvictions + 1, HandlerEnds(p, n)
    PROVE  IInv'
<1> DEFINE k == <<p, n>>
<1>0. TypeOK /\ k \in Jobs /\ job[k] \in JobRecord
  BY DEF IInv, Jobs, TypeOK, JobRecord
<1>1. PICK a \in Answers :
        IF job[k].state = "invoking"
        THEN /\ \E r \in Rounds(SliceIds(RepParts)) :
                  job' = [job EXCEPT ![k] = [@ EXCEPT !.state = "invoked", !.answer = a,
                                               !.unsent = SliceIds(RepParts), !.round = r]]
             /\ UNCHANGED builder
        ELSE /\ job' = [job EXCEPT ![k] = [@ EXCEPT !.state = "done", !.answer = a]]
             /\ builder' = Released(p, k)
  BY DEF HandlerEnds
<1>2. UNCHANGED <<clientVars, current, runs, evictions, reply, net, spent>>
  BY DEF HandlerEnds
<1> HIDE DEF k
<1>3. CASE job[k].state = "invoking"
  <2>1. PICK r \in Rounds(SliceIds(RepParts)) :
          job' = [job EXCEPT ![k] = [@ EXCEPT !.state = "invoked", !.answer = a,
                                       !.unsent = SliceIds(RepParts), !.round = r]]
    BY <1>1, <1>3
  <2>2. r \subseteq 0 .. RepParts - 1
    BY RoundsAreParts DEF SliceIds
  <2>3. [job[k] EXCEPT !.state = "invoked", !.answer = a,
                       !.unsent = SliceIds(RepParts), !.round = r] \in JobRecord
    BY <1>0, <2>2 DEF JobRecord, SliceIds
  <2>4. job' = [job EXCEPT ![k] = [job[k] EXCEPT !.state = "invoked", !.answer = a,
                                     !.unsent = SliceIds(RepParts), !.round = r]]
    BY <1>0, <2>1 DEF TypeOK
  <2> QED
    BY <1>0, <1>1, <1>2, <1>3, <2>3, <2>4, JobStep DEF TypeOK
<1>4. CASE job[k].state # "invoking"
  <2>1. [job[k] EXCEPT !.state = "done", !.answer = a] \in JobRecord
    BY <1>0 DEF JobRecord
  <2>2. job' = [job EXCEPT ![k] = [job[k] EXCEPT !.state = "done", !.answer = a]]
    BY <1>0, <1>1, <1>4 DEF TypeOK
  <2>3. builder' \in [Providers -> BuilderOf(ReqParts)]
    BY <1>0, <1>1, <1>4, ReleasedType
  <2> QED
    BY <1>0, <1>2, <2>1, <2>2, <2>3, JobStep DEF TypeOK
<1> QED
  BY <1>3, <1>4

LEMMA CannotReplyStep ==
    ASSUME IInv, NEW p \in Providers, NEW n \in 1 .. MaxEvictions + 1, CannotReply(p, n)
    PROVE  IInv'
<1> DEFINE k == <<p, n>>
<1>0. TypeOK /\ k \in Jobs /\ job[k] \in JobRecord
  BY DEF IInv, Jobs, TypeOK, JobRecord
<1>1. [job[k] EXCEPT !.state = "stuck"] \in JobRecord
  BY <1>0 DEF JobRecord
<1>2. job' = [job EXCEPT ![k] = [job[k] EXCEPT !.state = "stuck"]]
  BY <1>0 DEF CannotReply, TypeOK
<1>3. UNCHANGED <<clientVars, builder, current, runs, evictions, reply, net, spent>>
  BY DEF CannotReply
<1> QED
  BY <1>0, <1>1, <1>2, <1>3, JobStep DEF TypeOK

LEMMA SendReplyStep ==
    ASSUME IInv, NEW p \in Providers, NEW n \in 1 .. MaxEvictions + 1, SendReply(p, n)
    PROVE  IInv'
<1> DEFINE k == <<p, n>>
           slice(i) == [type |-> "repSlice", job |-> k, part |-> i,
                        full |-> job[k].state = "invoked"]
<1>0. TypeOK /\ k \in Jobs /\ job[k] \in JobRecord
  BY DEF IInv, Jobs, TypeOK, JobRecord
<1>1. PICK i \in job[k].round : /\ job' = [job EXCEPT ![k].round = @ \ {i}]
                                /\ net' = net \cup {slice(i)}
  BY DEF SendReply
<1>2. slice(i) \in Message
  BY <1>0 DEF Message, JobRecord
<1>3. [job[k] EXCEPT !.round = @ \ {i}] \in JobRecord
  BY <1>0 DEF JobRecord
<1>4. UNCHANGED <<clientVars, builder, current, runs, evictions, reply, spent>>
  BY DEF SendReply
<1> HIDE DEF k, slice
<1>5. job' = [job EXCEPT ![k] = [job[k] EXCEPT !.round = @ \ {i}]]
  BY <1>0, <1>1 DEF TypeOK
<1> QED
  BY <1>0, <1>1, <1>2, <1>3, <1>4, <1>5, JobStep DEF TypeOK

LEMMA RecvRepAckStep ==
    ASSUME IInv, NEW m \in net, RecvRepAck(m)
    PROVE  IInv'
<1> DEFINE k == m.job
           left == job[k].unsent \ {m.part}
           state == IF left = {} THEN "done" ELSE "invoked"
           rec == [job[k] EXCEPT !.unsent = left, !.state = state]
<1>0. TypeOK /\ k \in Jobs /\ job[k] \in JobRecord
  BY DEF IInv, RecvRepAck, Message, TypeOK, JobRecord
<1>1. job' = [job EXCEPT ![k] = [@ EXCEPT !.unsent = left, !.state = state]]
  BY DEF RecvRepAck
<1>2. left \subseteq 0 .. RepParts - 1 /\ state \in {"invoked", "done"}
  BY <1>0 DEF JobRecord
<1> HIDE DEF left, state
<1>3. rec \in JobRecord
  BY <1>0, <1>2 DEF JobRecord
<1>4. job' = [job EXCEPT ![k] = rec]
  BY <1>0, <1>1 DEF TypeOK
<1>5. k[1] \in Providers
  BY <1>0 DEF Jobs
<1>6. builder' \in [Providers -> BuilderOf(ReqParts)]
  BY <1>0, <1>5, ReleasedType DEF RecvRepAck, TypeOK
<1>7. UNCHANGED <<clientVars, current, runs, evictions, reply, net, spent>>
  BY DEF RecvRepAck
<1> HIDE DEF k, rec
<1> QED
  BY <1>0, <1>3, <1>4, <1>6, <1>7, JobStep DEF TypeOK

LEMMA SlicerTimeoutStep ==
    ASSUME IInv, NEW p \in Providers, NEW n \in 1 .. MaxEvictions + 1, SlicerTimeout(p, n)
    PROVE  IInv'
<1> DEFINE k == <<p, n>>
<1>0. TypeOK /\ k \in Jobs /\ job[k] \in JobRecord
  BY DEF IInv, Jobs, TypeOK, JobRecord
<1>1. [job[k] EXCEPT !.state = "done"] \in JobRecord
  BY <1>0 DEF JobRecord
<1>2. job' = [job EXCEPT ![k] = [job[k] EXCEPT !.state = "done"]]
  BY <1>0 DEF SlicerTimeout, TypeOK
<1>3. builder' \in [Providers -> BuilderOf(ReqParts)]
  BY <1>0, ReleasedType DEF SlicerTimeout
<1>4. UNCHANGED <<clientVars, current, runs, evictions, reply, net, spent>>
  BY DEF SlicerTimeout
<1> QED
  BY <1>0, <1>1, <1>2, <1>3, <1>4, JobStep DEF TypeOK

LEMMA EvictInvokerStep ==
    ASSUME IInv, NEW p \in Providers, EvictInvoker(p)
    PROVE  IInv'
<1> USE PartsAssumption, BoundsAssumption
<1> DEFINE k == <<p, current[p]>>
           state == Closed(job[k].state)
<1>0. TypeOK /\ RunsInv /\ k \in Jobs /\ job[k] \in JobRecord
  BY DEF IInv, EvictInvoker, Jobs, TypeOK, JobRecord
<1>1. [job[k] EXCEPT !.state = state] \in JobRecord
  BY <1>0 DEF JobRecord, Closed
<1>2. job' = [job EXCEPT ![k] = [job[k] EXCEPT !.state = state]]
  BY <1>0 DEF EvictInvoker, TypeOK
<1>3. builder' \in [Providers -> BuilderOf(ReqParts)]
  BY <1>0, ReleasedType DEF EvictInvoker, TypeOK
<1> HIDE DEF k, state
<1>4. job' \in [Jobs -> JobRecord]
  BY <1>0, <1>1, <1>2 DEF TypeOK, JobRecord
<1>5. /\ current[p] # 0 /\ spent.evictions < MaxEvictions
      /\ evictions' = [evictions EXCEPT ![p].invokers = @ + 1]
      /\ spent' = [spent EXCEPT !.evictions = @ + 1]
      /\ current' = [current EXCEPT ![p] = 0]
  BY DEF EvictInvoker
<1>6. UNCHANGED <<outcome, resultType, open, unsent, cut, round, runs, reply, net>>
  BY DEF EvictInvoker, clientVars
<1>7. TypeOK'
  <2>1. current' \in [Providers -> 0 .. MaxEvictions + 1]
    BY <1>0, <1>5 DEF TypeOK
  <2>2. evictions' \in [Providers -> [builders : Nat, invokers : Nat]]
    BY <1>0, <1>5 DEF TypeOK
  <2>3. spent' \in [losses : 0 .. MaxLosses, evictions : 0 .. MaxEvictions]
    BY <1>0, <1>5 DEF TypeOK
  <2> QED
    BY <1>0, <1>3, <1>4, <1>6, <2>1, <2>2, <2>3 DEF TypeOK, JobRecord
<1>8. RunsInv'
  <2> SUFFICES ASSUME NEW q \in Providers
               PROVE  /\ runs'[q] = evictions'[q].invokers + (IF current'[q] = 0 THEN 0 ELSE 1)
                      /\ current'[q] <= runs'[q]
                      /\ evictions'[q].builders + evictions'[q].invokers <= spent'.evictions
    BY DEF RunsInv
  <2>1. /\ evictions[q].builders \in Nat /\ evictions[q].invokers \in Nat
        /\ runs[q] \in Nat /\ spent.evictions \in Nat /\ spent'.evictions = spent.evictions + 1
    BY <1>0, <1>5 DEF TypeOK
  <2>2. CASE q = p
    BY <1>0, <1>5, <1>6, <2>1, <2>2 DEF RunsInv, TypeOK
  <2>3. CASE q # p
    BY <1>0, <1>5, <1>6, <2>1, <2>3 DEF RunsInv, TypeOK
  <2> QED
    BY <2>2, <2>3
<1> QED
  BY <1>7, <1>8 DEF IInv

LEMMA EvictBuilderStep ==
    ASSUME IInv, NEW p \in Providers, EvictBuilder(p)
    PROVE  IInv'
<1> USE PartsAssumption, BoundsAssumption
<1>0. TypeOK /\ RunsInv
  BY DEF IInv
<1>1. NoBuilder \in BuilderOf(ReqParts)
  BY DEF NoBuilder, BuilderOf, Contents
<1>2. /\ spent.evictions < MaxEvictions
      /\ evictions' = [evictions EXCEPT ![p].builders = @ + 1]
      /\ spent' = [spent EXCEPT !.evictions = @ + 1]
      /\ builder' = [builder EXCEPT ![p] = NoBuilder]
  BY DEF EvictBuilder
<1>3. UNCHANGED <<outcome, resultType, open, unsent, cut, round, current, runs, job, reply, net>>
  BY DEF EvictBuilder, clientVars
<1>4. TypeOK'
  BY <1>0, <1>1, <1>2, <1>3 DEF TypeOK
<1>5. RunsInv'
  <2> SUFFICES ASSUME NEW q \in Providers
               PROVE  /\ runs'[q] = evictions'[q].invokers + (IF current'[q] = 0 THEN 0 ELSE 1)
                      /\ current'[q] <= runs'[q]
                      /\ evictions'[q].builders + evictions'[q].invokers <= spent'.evictions
    BY DEF RunsInv
  <2>1. /\ evictions[q].builders \in Nat /\ evictions[q].invokers \in Nat
        /\ spent.evictions \in Nat /\ spent'.evictions = spent.evictions + 1
    BY <1>0, <1>2 DEF TypeOK
  <2>2. CASE q = p
    BY <1>0, <1>2, <1>3, <2>1, <2>2 DEF RunsInv, TypeOK
  <2>3. CASE q # p
    BY <1>0, <1>2, <1>3, <2>1, <2>3 DEF RunsInv, TypeOK
  <2> QED
    BY <2>2, <2>3
<1> QED
  BY <1>4, <1>5 DEF IInv

LEMMA LoseStep ==
    ASSUME IInv, NEW m \in net, Lose(m)
    PROVE  IInv'
<1> USE PartsAssumption, BoundsAssumption
<1>1. spent' \in [losses : 0 .. MaxLosses, evictions : 0 .. MaxEvictions]
  BY DEF Lose, IInv, TypeOK
<1>2. spent'.evictions = spent.evictions
  BY DEF Lose, IInv, TypeOK
<1> QED
  BY <1>1, <1>2 DEF Lose, IInv, TypeOK, RunsInv, clientVars, providerVars

LEMMA NextIInv == IInv /\ [Next]_vars => IInv'
<1> SUFFICES ASSUME IInv, [Next]_vars PROVE IInv'
  OBVIOUS
<1>1. CASE Client
  BY <1>1, ClientStep
<1>2. ASSUME NEW p \in Providers, NEW n \in 1 .. MaxEvictions + 1, Provider(p, n)
      PROVE  IInv'
  BY <1>2, HandlerEndsStep, CannotReplyStep, SendReplyStep, SlicerTimeoutStep DEF Provider
<1>3. ASSUME NEW p \in Providers, EvictInvoker(p) \/ EvictBuilder(p)
      PROVE  IInv'
  BY <1>3, EvictInvokerStep, EvictBuilderStep
<1>4. CASE Network
  BY <1>4, RecvReqAckStep, RecvRepSliceStep, RecvReqSliceStep, RecvRepAckStep, LoseStep
     DEF Network
<1>5. CASE UNCHANGED vars
  BY <1>5 DEF vars, clientVars, providerVars, IInv, TypeOK, RunsInv
<1> QED
  BY <1>1, <1>2, <1>3, <1>4, <1>5 DEF Next

-----------------------------------------------------------------------------
\* TypeOK of every reachable state: the round and unsent slices of either end,
\* every builder, and every packet on the network stay within the slices the
\* request and the replies are cut into.
THEOREM TypeCorrect == Spec => []TypeOK
<1>1. IInv => TypeOK
  BY DEF IInv
<1> QED
  BY InitIInv, NextIInv, <1>1, PTL DEF Spec

\* However a request is resent, polled, duplicated, delayed and lost, a
\* provider starts its handler once, and once more for every invoker its
\* LimitedMap has dropped: hasInvoker(request_id) of InvokeHandler.
THEOREM RunsBoundedByEvictionsAlways == Spec => []RunsBoundedByEvictions
<1>1. IInv => RunsBoundedByEvictions
  BY DEF IInv, TypeOK, RunsInv, RunsBoundedByEvictions
<1> QED
  BY InitIInv, NextIInv, <1>1, PTL DEF Spec
-----------------------------------------------------------------------------
(* What the slices carry *)

\* A builder still without a product: every slot it has is a real slice of its
\* packet, and one is missing.
Filling(b, n) ==
    /\ b.product = "none" /\ b.void = {} /\ b.full # 0 .. n - 1
    /\ IF b.made THEN b.max = n ELSE b.full = {}

\* A real slice leaves such a builder filling, with the slice held, or makes
\* the packet whole: isDone() counts slots, and n slots of 0 .. n - 1 are all.
LEMMA HandledFull ==
    ASSUME NEW n \in Nat \ {0}, NEW b \in BuilderOf(n), Filling(b, n),
           NEW part \in 0 .. n - 1, NEW h \in Handled(b, part, TRUE, n)
    PROVE  \/ /\ h.built = "none" /\ Filling(h.builder, n)
              /\ h.builder.full = b.full \cup {part}
           \/ h.built = "intact" /\ h.builder.product = "intact"
<1> DEFINE made == Made(b, n)
           put  == Put(made, part, TRUE)
           full == b.full \cup {part}
<1>1. /\ made \in BuilderOf(n) /\ made.made /\ made.max = n
      /\ made.full = b.full /\ made.void = {} /\ made.product = "none"
  BY DEF Made, NoBuilder, BuilderOf, Contents, Filling
<1>2. /\ put \in BuilderOf(n) /\ put.made /\ put.max = n
      /\ put.full = full /\ put.void = {} /\ put.product = "none"
  BY <1>1 DEF Put, BuilderOf
<1>3. full \subseteq 0 .. n - 1
  BY DEF BuilderOf
<1>4. Cardinality(full) = n <=> full = 0 .. n - 1
  <2>1. IsFiniteSet(0 .. n - 1) /\ Cardinality(0 .. n - 1) = n
    BY FS_Interval
  <2> QED
    BY <1>3, <2>1, FS_Subset
<1>5. ~(part >= n)
  OBVIOUS
<1>6. IsDone(put) <=> full = 0 .. n - 1
  <2>1. put.full \cup put.void = full
    BY <1>2
  <2> QED
    BY <1>2, <1>4, <2>1 DEF IsDone
<1>7. WithProduct(put, "intact").product = "intact"
  BY <1>2 DEF WithProduct, BuilderOf
<1>8. \/ /\ full # 0 .. n - 1 /\ h = [builder |-> put, built |-> "none", ack |-> TRUE]
      \/ h = [builder |-> WithProduct(put, "intact"), built |-> "intact", ack |-> TRUE]
  <2> HIDE DEF made, put, full
  <2>1. Handled(b, part, TRUE, n) =
          IF full # 0 .. n - 1 THEN {[builder |-> put, built |-> "none", ack |-> TRUE]}
          ELSE {[builder |-> WithProduct(put, "intact"), built |-> "intact", ack |-> TRUE]}
    BY <1>1, <1>2, <1>5, <1>6 DEF Handled, made, put
  <2> QED
    BY <2>1
<1>9. full # 0 .. n - 1 => Filling(put, n)
  BY <1>2 DEF Filling
<1> HIDE DEF made, put
<1> QED
  BY <1>2, <1>7, <1>8, <1>9

\* Whatever the slice, there is a builder then, and one that had a product has
\* it and hands it on again.
LEMMA HandledMade ==
    ASSUME NEW n \in Nat, NEW b \in BuilderOf(n), NEW part, NEW full,
           NEW h \in Handled(b, part, full, IF full THEN n ELSE 0)
    PROVE  /\ h.builder.made
           /\ b.made /\ b.product # "none" => h.builder = b /\ h.built = b.product
<1> DEFINE made == Made(b, IF full THEN n ELSE 0)
           put  == Put(made, part, full)
<1>1. made.made /\ (b.made => made = b)
  BY DEF Made, NoBuilder
<1>2. DOMAIN made = {"made", "max", "full", "void", "product"}
      /\ made = [f \in DOMAIN made |-> made[f]]
  BY DEF Made, NoBuilder, BuilderOf
<1>3. put.made /\ (made.product # "none" => put = made)
  BY <1>1, <1>2 DEF Put
<1>4. WithProduct(put, "intact").made /\ WithProduct(put, "garbled").made
  BY <1>1, <1>2, <1>3 DEF WithProduct, Put
<1> HIDE DEF made, put
<1>5. \/ h = [builder |-> put, built |-> put.product, ack |-> TRUE]
      \/ put.product = "none" /\
           (\/ h = [builder |-> made, built |-> "none", ack |-> FALSE]
            \/ h = [builder |-> put, built |-> "none", ack |-> TRUE]
            \/ h = [builder |-> put, built |-> "none", ack |-> FALSE]
            \/ h = [builder |-> WithProduct(put, "intact"), built |-> "intact", ack |-> TRUE]
            \/ h = [builder |-> WithProduct(put, "garbled"), built |-> "garbled", ack |-> TRUE])
  BY DEF Handled, made, put
<1> QED
  BY <1>1, <1>3, <1>4, <1>5

\* The second of these alone, for one slice.
LEMMA HandledKept ==
    ASSUME NEW n \in Nat, NEW b \in BuilderOf(n), NEW part, NEW full,
           NEW h \in Handled(b, part, full, IF full THEN n ELSE 0), b.made, b.product # "none"
    PROVE  h.builder = b /\ h.built = b.product
  BY HandledMade

\* One that had none has what is handed on, the packet whole or not.
LEMMA HandledNew ==
    ASSUME NEW n \in Nat, NEW b \in BuilderOf(n), NEW part, NEW full,
           NEW h \in Handled(b, part, full, IF full THEN n ELSE 0), b.product = "none"
    PROVE  h.built \in {"none", "intact", "garbled"} /\ h.builder.product = h.built
<1> DEFINE made == Made(b, IF full THEN n ELSE 0)
           put  == Put(made, part, full)
<1>1. made.product = "none"
  BY DEF Made, NoBuilder
<1>2. DOMAIN made = {"made", "max", "full", "void", "product"}
      /\ made = [f \in DOMAIN made |-> made[f]]
  BY DEF Made, NoBuilder, BuilderOf
<1>3. put.product = "none"
  BY <1>1, <1>2 DEF Put
<1>4. /\ WithProduct(put, "intact").product = "intact"
      /\ WithProduct(put, "garbled").product = "garbled"
  BY <1>1, <1>2 DEF WithProduct, Put
<1> HIDE DEF made, put
<1>5. \/ h = [builder |-> put, built |-> put.product, ack |-> TRUE]
      \/ h = [builder |-> made, built |-> "none", ack |-> FALSE]
      \/ h = [builder |-> put, built |-> "none", ack |-> TRUE]
      \/ h = [builder |-> put, built |-> "none", ack |-> FALSE]
      \/ h = [builder |-> WithProduct(put, "intact"), built |-> "intact", ack |-> TRUE]
      \/ h = [builder |-> WithProduct(put, "garbled"), built |-> "garbled", ack |-> TRUE]
  BY DEF Handled, made, put
<1> QED
  BY <1>1, <1>3, <1>4, <1>5

\* Releasing a packet takes no builder its product, and gives none one.
LEMMA ReleasedKeeps ==
    ASSUME TypeOK, NEW p \in Providers, NEW k \in Jobs, NEW q \in Providers
    PROVE  /\ Released(p, k)[q].product = "none" <=> builder[q].product = "none"
           /\ Released(p, k)[q].made = builder[q].made
           /\ builder[q].product = "none" => Released(p, k)[q] = builder[q]
<1> DEFINE left == IF builder[p].product # "none" /\ job[k].source = evictions[p].builders
                   THEN "released" ELSE builder[p].product
<1>1. builder \in [Providers -> BuilderOf(ReqParts)] /\ builder[p] \in BuilderOf(ReqParts)
  BY DEF TypeOK
<1>2. Released(p, k) = [builder EXCEPT ![p] = [builder[p] EXCEPT !.product = left]]
  BY <1>1 DEF Released
<1>3. /\ [builder[p] EXCEPT !.product = left].product = left
      /\ [builder[p] EXCEPT !.product = left].made = builder[p].made
  BY <1>1 DEF BuilderOf
<1>4. left = "none" <=> builder[p].product = "none"
  OBVIOUS
<1>5. builder[p].product = "none" => [builder[p] EXCEPT !.product = left] = builder[p]
  BY <1>1 DEF BuilderOf
<1> HIDE DEF left
<1> QED
  BY <1>1, <1>2, <1>3, <1>4, <1>5
-----------------------------------------------------------------------------
(* Request and reply *)

\* A run that was not started yet is none; one whose handler has not returned
\* has no reply to send; only an invoker that was dropped is closing.
Fits(rec, dropped) ==
    /\ rec.state \in {"none", "invoking", "closing", "stuck"} => rec.answer = "none" /\ rec.round = {}
    /\ rec.state = "invoked" => rec.answer \in Answers
    /\ rec.state = "closing" => dropped > 0

JobInv ==
    \A k \in Jobs :
      /\ k[2] > runs[k[1]] => job[k] = NoJob
      /\ Fits(job[k], evictions[k[1]].invokers)

\* Until the call is settled, with no invoker dropped, no reply is whole yet:
\* so no reply slicer is done, every slice of a reply is a real one, and what a
\* provider takes for acknowledged is held by the client's builder.
Unsettled == outcome = "none" /\ \A p \in Providers : evictions[p].invokers = 0

ReplyHeld(k) ==
    /\ Filling(reply[k], RepParts)
    /\ job[k].state \in {"none", "invoking", "invoked", "stuck"}
    /\ job[k].state = "invoked" => (0 .. RepParts - 1) \ job[k].unsent \subseteq reply[k].full

ReplyCarried(m) ==
    /\ m.type = "repSlice" => m.full /\ job[m.job].state = "invoked"
    /\ m.type = "repAck" => m.part \in reply[m.job].full

ReplyInv == Unsettled => (\A k \in Jobs : ReplyHeld(k)) /\ (\A m \in net : ReplyCarried(m))

\* Likewise of the request, while its one provider has not got it whole and the
\* client's slicer has its data: until the caller's timeout it has.
Gathering(p) ==
    Providers = {p} /\ evictions[p].builders = 0 /\ builder[p].product = "none" /\ ~cut

CutInv == cut => outcome # "none"

RequestHeld(p) ==
    /\ Filling(builder[p], ReqParts)
    /\ (0 .. ReqParts - 1) \ unsent \subseteq builder[p].full
    /\ \A m \in net : /\ m.type = "reqSlice" => m.full
                      /\ m.type = "reqAck" => m.part \in builder[p].full

RequestInv == \A p \in Providers : Gathering(p) => RequestHeld(p)

\* A whole request has started the handler, and was whole when it did.
Sole(p) == Providers = {p} /\ evictions[p].builders = 0 /\ evictions[p].invokers = 0

NewInv == \A p \in Providers : Sole(p) /\ runs[p] = 0 => builder[p].product = "none"

Inputs == {"none", "intact"} \cup (IF cut THEN {"garbled"} ELSE {})

InputInv == \A k \in Jobs : Sole(k[1]) => job[k].input \in Inputs

\* A product is that of a builder that is there.
MadeInv ==
    /\ \A p \in Providers : builder[p].product # "none" => builder[p].made
    /\ \A k \in Jobs : reply[k].product # "none" => reply[k].made

\* A value that settled the call is that of a reply the client has released, and
\* what came in after that was the same reply again, or that of another run.
NothingDropped == \A p \in Providers : evictions[p].invokers = 0

From(k) ==
    /\ job[k].answer = outcome /\ reply[k].product = "released"
    /\ resultType = outcome \/ \E j \in Arrived : j # k

ResultInv ==
    NothingDropped =>
      /\ outcome \notin {"garbled", "released"}
      /\ outcome \in Values => \E k \in Jobs : From(k)

CallInv ==
    /\ JobInv /\ ReplyInv /\ RequestInv /\ MadeInv
    /\ NewInv /\ InputInv /\ CutInv /\ ResultInv

-----------------------------------------------------------------------------
(* Steps that leave the one or the other half alone *)

LEMMA ReplyFrame ==
    ASSUME ReplyInv, UNCHANGED <<job, reply>>, Unsettled' => Unsettled,
           \A m \in net' : m \in net \/ m.type \in {"reqSlice", "reqAck"}
    PROVE  ReplyInv'
  BY DEF ReplyInv, ReplyHeld, ReplyCarried

LEMMA RequestFrame ==
    ASSUME RequestInv, UNCHANGED <<unsent, cut>>,
           \A p \in Providers : Gathering(p)' => Gathering(p) /\ builder'[p] = builder[p],
           \A m \in net' : m \in net \/ m.type \in {"repSlice", "repAck"}
    PROVE  RequestInv'
  BY DEF RequestInv, RequestHeld

\* A step that leaves the client's result and replies alone, and every answer a
\* handler has given.
LEMMA ResultFrame ==
    ASSUME ResultInv, UNCHANGED <<outcome, resultType, reply>>, NothingDropped' => NothingDropped,
           \A k \in Jobs : job[k].answer # "none" => job'[k].answer = job[k].answer
    PROVE  ResultInv'
<1>1. Arrived' = Arrived
  BY DEF Arrived
<1>2. \A k \in Jobs : outcome \in Values /\ From(k) => From(k)'
  BY <1>1 DEF From, Values
<1> QED
  BY <1>2 DEF ResultInv

\* A step on a job that has been started already.
LEMMA JobFrame ==
    ASSUME IInv, JobInv, InputInv, ResultInv, NEW k \in Jobs, NEW rec \in JobRecord,
           job' = [job EXCEPT ![k] = rec], job[k].state # "none",
           rec.input = job[k].input, Fits(rec, evictions[k[1]].invokers),
           rec.answer = job[k].answer \/ job[k].answer = "none",
           UNCHANGED <<outcome, resultType, cut, runs, evictions, reply>>
    PROVE  JobInv' /\ InputInv' /\ ResultInv'
<1>1. job \in [Jobs -> JobRecord]
  BY DEF IInv, TypeOK, JobRecord
<1>2. ~(k[2] > runs[k[1]])
  BY DEF JobInv, NoJob
<1>3. \A o \in Jobs : job'[o] = IF o = k THEN rec ELSE job[o]
  BY <1>1
<1>4. JobInv'
  BY <1>2, <1>3 DEF JobInv
<1>5. InputInv'
  BY <1>3 DEF InputInv, Inputs, Sole
<1>6. ResultInv'
  BY <1>3, ResultFrame DEF NothingDropped
<1> QED
  BY <1>4, <1>5, <1>6

LEMMA InitCallInv == Init => CallInv
<1> SUFFICES ASSUME Init PROVE CallInv
  OBVIOUS
<1> USE PartsAssumption, BoundsAssumption
<1>1. \A k \in Jobs : k[1] \in Providers /\ k[2] \in 1 .. MaxEvictions + 1
  BY DEF Jobs
<1>2. JobInv /\ InputInv
  BY <1>1 DEF Init, JobInv, InputInv, Inputs, Fits, NoJob
<1>3. \A n \in Nat \ {0} : Filling(NoBuilder, n)
  <2>1. \A n \in Nat \ {0} : 0 \in 0 .. n - 1
    OBVIOUS
  <2> QED
    BY <2>1 DEF Filling, NoBuilder
<1>4. ReplyInv
  BY <1>3 DEF Init, ReplyInv, ReplyHeld, NoJob
<1>5. RequestInv /\ NewInv /\ MadeInv
  BY <1>3 DEF Init, RequestInv, RequestHeld, NewInv, MadeInv, SliceIds, NoBuilder
<1>6. ResultInv /\ CutInv
  BY DEF Init, ResultInv, CutInv, Values
<1> QED
  BY <1>2, <1>4, <1>5, <1>6 DEF CallInv
-----------------------------------------------------------------------------
(* The steps of the client *)

\* With the request still gathering, one of its slices is unacknowledged.
LEMMA GatheringUnsent ==
    ASSUME RequestInv, TypeOK, NEW p \in Providers, Gathering(p)
    PROVE  unsent # {}
<1>1. builder[p].full \subseteq 0 .. ReqParts - 1 /\ builder[p].full # 0 .. ReqParts - 1
  BY DEF RequestInv, RequestHeld, Filling, TypeOK, BuilderOf
<1> QED
  BY <1>1 DEF RequestInv, RequestHeld

LEMMA ClientCall ==
    ASSUME IInv, CallInv, Client
    PROVE  CallInv'
<1>0. TypeOK /\ ReplyInv /\ RequestInv /\ ResultInv /\ CutInv
  BY DEF IInv, CallInv
<1> USE DEF StartRound, SendSlice, GiveUp, Close, ReqSlicerTimeout
<1>1. UNCHANGED <<builder, current, runs, job, evictions, reply>>
  BY DEF Client, providerVars
<1>2. /\ outcome' = outcome \/ (outcome = "none" /\ outcome' = "failed")
      /\ cut' = cut \/ (outcome # "none" /\ cut' = TRUE)
      /\ UNCHANGED <<resultType, unsent>>
  BY DEF Client
<1>3. \A m \in net' : m \in net \/ (m.type = "reqSlice" /\ m.full = (unsent # {} /\ ~cut))
  <2>1. CASE StartRound
    BY <2>1 DEF ReqSlice
  <2>2. CASE SendSlice
    BY <2>2 DEF ReqSlice
  <2>3. CASE GiveUp \/ Close \/ ReqSlicerTimeout
    BY <2>3
  <2> QED
    BY <2>1, <2>2, <2>3 DEF Client
<1> USE DEF Client
<1> HIDE DEF StartRound, SendSlice, GiveUp, Close, ReqSlicerTimeout, Client
<1>4. JobInv' /\ InputInv' /\ NewInv' /\ MadeInv' /\ CutInv'
  BY <1>1, <1>2 DEF CallInv, JobInv, InputInv, Inputs, Sole, NewInv, MadeInv, CutInv, TypeOK
<1>5. Unsettled' => Unsettled
  BY <1>1, <1>2 DEF Unsettled
<1>6. ReplyInv'
  BY <1>0, <1>1, <1>3, <1>5, ReplyFrame
<1>7. RequestInv'
  <2> SUFFICES ASSUME NEW p \in Providers, Gathering(p)'
               PROVE  RequestHeld(p)'
    BY DEF RequestInv
  <2>1. Gathering(p)
    BY <1>1, <1>2 DEF Gathering
  <2>2. unsent # {} /\ RequestHeld(p) /\ ~cut
    BY <1>0, <2>1, GatheringUnsent DEF RequestInv, Gathering
  <2> QED
    BY <1>1, <1>2, <1>3, <2>2 DEF RequestHeld
<1>8. ResultInv'
  <2>1. NothingDropped' => NothingDropped
    BY <1>1 DEF NothingDropped
  <2>2. CASE outcome' = outcome
    BY <1>0, <1>1, <1>2, <2>1, <2>2, ResultFrame
  <2>3. CASE outcome' = "failed"
    BY <2>3 DEF ResultInv, Values
  <2> QED
    BY <1>2, <2>2, <2>3
<1> QED
  BY <1>4, <1>6, <1>7, <1>8 DEF CallInv

LEMMA RecvReqAckCall ==
    ASSUME IInv, CallInv, NEW i \in 0 .. ReqParts - 1, RecvReqAck(i)
    PROVE  CallInv'
<1>1. UNCHANGED <<outcome, resultType, cut, builder, current, runs, job, evictions, reply, net>>
  BY DEF RecvReqAck, providerVars
<1>2. JobInv' /\ InputInv' /\ NewInv' /\ MadeInv' /\ CutInv' /\ ReplyInv'
  BY <1>1 DEF CallInv, JobInv, InputInv, Inputs, Sole, NewInv, MadeInv, CutInv,
              ReplyInv, Unsettled, ReplyHeld, ReplyCarried
<1>4. ResultInv'
  BY <1>1, ResultFrame DEF CallInv, NothingDropped
<1>3. RequestInv'
  <2> SUFFICES ASSUME NEW p \in Providers, Gathering(p)
               PROVE  RequestHeld(p)'
    BY <1>1 DEF RequestInv, Gathering
  <2>1. RequestHeld(p)
    BY DEF CallInv, RequestInv
  <2>2. i \in builder[p].full
    BY <2>1 DEF RecvReqAck, RequestHeld
  <2>3. unsent' = unsent \ {i}
    BY DEF RecvReqAck
  <2> QED
    BY <1>1, <2>1, <2>2, <2>3 DEF RequestHeld
<1> QED
  BY <1>2, <1>3, <1>4 DEF CallInv

\* A slice of a reply, of a call not settled yet, is a real one: the client's
\* builder has it, or gives the whole reply, which settles the call.
LEMMA RecvRepSliceCall ==
    ASSUME IInv, CallInv, NEW m \in net, RecvRepSlice(m)
    PROVE  CallInv'
<1>0. TypeOK /\ ReplyInv /\ RequestInv /\ m.type = "repSlice"
  BY DEF IInv, CallInv, RecvRepSlice
<1>1. UNCHANGED <<unsent, cut, builder, current, runs, job, evictions>>
  BY DEF RecvRepSlice, providerVars
<1>2. m.job \in Jobs /\ m.part \in 0 .. RepParts - 1
  BY <1>0 DEF TypeOK, Message
<1>3. PICK h \in Handled(reply[m.job], m.part, m.full, IF m.full THEN RepParts ELSE 0) :
        /\ reply' = [reply EXCEPT ![m.job] =
               IF h.built = "intact" /\ job[m.job].answer \in Values
               THEN [h.builder EXCEPT !.product = "released"] ELSE h.builder]
        /\ outcome' = Settled(h.built, job[m.job].answer)
        /\ resultType' \in ReadAs(h.built, job[m.job].answer)
        /\ net' = IF h.ack
                  THEN net \cup {[type |-> "repAck", job |-> m.job, part |-> m.part]}
                  ELSE net
  BY DEF RecvRepSlice
<1>4. \A o \in net' : o \in net \/ /\ o.type = "repAck"
                                   /\ o.job = m.job /\ o.part = m.part
  BY <1>3
<1>5. JobInv' /\ InputInv' /\ NewInv'
  BY <1>1 DEF CallInv, JobInv, InputInv, Inputs, Sole, NewInv
<1>6. RequestInv'
  BY <1>0, <1>1, <1>4, RequestFrame DEF Gathering
<1>7. (outcome # "none" => outcome' = outcome) /\ CutInv'
  BY <1>1, <1>3 DEF Settled, CallInv, CutInv
<1>10. reply[m.job] \in BuilderOf(RepParts) /\ reply \in [Jobs -> BuilderOf(RepParts)]
  BY <1>0, <1>2 DEF TypeOK
<1>11. /\ h.builder.made /\ h.builder \in BuilderOf(RepParts)
       /\ reply[m.job].product = "none" =>
            h.built \in {"none", "intact", "garbled"} /\ h.builder.product = h.built
       /\ reply[m.job].product # "none" =>
            h.builder = reply[m.job] /\ h.built = reply[m.job].product
  <2>1. m.full \in BOOLEAN /\ RepParts \in Nat
    BY <1>0, PartsAssumption DEF TypeOK, Message
  <2>2. reply[m.job].product # "none" => reply[m.job].made
    BY <1>2 DEF CallInv, MadeInv
  <2>3. h.builder.made
    BY <1>3, <1>10, <2>1, HandledMade
  <2>4. h.builder \in BuilderOf(RepParts)
    BY <1>2, <1>3, <1>10, <2>1, HandledType
  <2> DEFINE b == reply[m.job]
  <2>7. h \in Handled(b, m.part, m.full, IF m.full THEN RepParts ELSE 0) /\ b \in BuilderOf(RepParts)
    BY <1>3, <1>10
  <2> HIDE DEF b
  <2>5. ASSUME b.product = "none"
        PROVE  h.built \in {"none", "intact", "garbled"} /\ h.builder.product = h.built
    <3> DEFINE part == m.part
               full == m.full
    <3>1. h \in Handled(b, part, full, IF full THEN RepParts ELSE 0)
      BY <2>7
    <3> HIDE DEF part, full
    <3> QED
      BY <2>1, <2>5, <2>7, <3>1, HandledNew
  <2>6. ASSUME b.product # "none"
        PROVE  h.builder = b /\ h.built = b.product
    <3>1. b.made
      BY <2>2, <2>6 DEF b
    <3> QED
      BY <2>1, <2>6, <2>7, <3>1, HandledKept
  <2> QED
    BY <2>3, <2>4, <2>5, <2>6 DEF b
<1> DEFINE new == IF h.built = "intact" /\ job[m.job].answer \in Values
                  THEN [h.builder EXCEPT !.product = "released"] ELSE h.builder
<1>12. /\ new.made
       /\ h.built = "intact" /\ job[m.job].answer \in Values => new.product = "released"
       /\ h.built # "none" => new.product # "none"
       /\ reply[m.job].product # "none" /\ h.built # "intact" => new = reply[m.job]
       /\ reply[m.job].product # "none" => new.product # "none"
  BY <1>11 DEF BuilderOf
<1>13. \A k \in Jobs : reply'[k] = IF k = m.job THEN new ELSE reply[k]
  BY <1>3, <1>10
<1> HIDE DEF new
<1>14. MadeInv'
  BY <1>1, <1>12, <1>13 DEF CallInv, MadeInv
<1>15. Arrived \subseteq Arrived' /\ (h.built # "none" => m.job \in Arrived')
  BY <1>2, <1>12, <1>13 DEF Arrived
<1>8. ASSUME Unsettled
      PROVE  ReplyInv' /\ ResultInv'
  <2>1. /\ m.full /\ job[m.job].answer \in Answers
        /\ Filling(reply[m.job], RepParts) /\ reply[m.job] \in BuilderOf(RepParts)
    BY <1>0, <1>2, <1>8 DEF CallInv, JobInv, Fits, ReplyInv, ReplyHeld, ReplyCarried, TypeOK
  <2>2. h \in Handled(reply[m.job], m.part, TRUE, RepParts)
    BY <1>3, <2>1
  <2>3. CASE h.built = "intact"
    <3>1. outcome' \in Answers
      BY <1>3, <1>8, <2>1, <2>3 DEF Settled, Unsettled
    <3>2. outcome' \in {"raw", "json", "error"}
      BY <3>1, AnswersAssumption
    <3>3. outcome' \in Values => From(m.job)'
      <4> SUFFICES ASSUME outcome' \in Values PROVE From(m.job)'
        OBVIOUS
      <4>1. outcome' = job[m.job].answer
        BY <1>3, <1>8, <2>3 DEF Settled, Unsettled
      <4>2. resultType' = job[m.job].answer
        BY <1>3, <2>3, <4>1 DEF ReadAs
      <4> QED
        BY <1>1, <1>2, <1>12, <1>13, <2>3, <4>1, <4>2 DEF From
    <3> QED
      BY <1>2, <3>2, <3>3 DEF ReplyInv, Unsettled, ResultInv
  <2>4. CASE /\ h.built = "none" /\ Filling(h.builder, RepParts)
             /\ h.builder.full = reply[m.job].full \cup {m.part}
    <3>1. outcome' = "none"
      BY <1>3, <1>8, <2>4 DEF Settled, Unsettled
    <3>2. \A k \in Jobs : reply'[k] = IF k = m.job THEN h.builder ELSE reply[k]
      BY <1>0, <1>3, <2>4 DEF TypeOK
    <3>3. \A k \in Jobs : ReplyHeld(k)'
      BY <1>1, <1>8, <2>4, <3>2 DEF CallInv, ReplyInv, ReplyHeld
    <3>4. \A k \in Jobs : reply[k].full \subseteq reply'[k].full
      BY <2>4, <3>2
    <3>5. \A o \in net' : ReplyCarried(o)'
      <4> SUFFICES ASSUME NEW o \in net' PROVE ReplyCarried(o)'
        OBVIOUS
      <4>1. CASE o \in net
        <5>1. ReplyCarried(o)
          BY <1>8, <4>1 DEF CallInv, ReplyInv
        <5>2. o.type = "repAck" => o.job \in Jobs
          BY <1>0, <4>1 DEF TypeOK, Message
        <5> QED
          BY <1>1, <3>4, <5>1, <5>2 DEF ReplyCarried
      <4>2. CASE o.type = "repAck" /\ o.job = m.job /\ o.part = m.part
        BY <1>2, <2>4, <3>2, <4>2 DEF ReplyCarried
      <4> QED
        BY <1>4, <4>1, <4>2
    <3> QED
      BY <3>1, <3>3, <3>5 DEF ReplyInv, ResultInv, Values
  <2> QED
    BY <1>2, <2>1, <2>2, <2>3, <2>4, HandledFull, PartsAssumption
<1>9. ASSUME ~Unsettled
      PROVE  ReplyInv' /\ ResultInv'
  <2>1. ~Unsettled'
    BY <1>1, <1>7, <1>9 DEF Unsettled
  <2>2. ReplyInv'
    BY <2>1 DEF ReplyInv
  <2>3. ASSUME NothingDropped'
        PROVE  /\ outcome' \notin {"garbled", "released"}
               /\ outcome' \in Values => \E k \in Jobs : From(k)'
    <3>1. NothingDropped /\ outcome' = outcome
      BY <1>1, <1>7, <1>9, <2>3 DEF NothingDropped, Unsettled
    <3>2. /\ outcome \notin {"garbled", "released"}
          /\ outcome \in Values => \E k \in Jobs : From(k)
      BY <3>1 DEF CallInv, ResultInv
    <3>3. ASSUME NEW k \in Jobs, From(k), outcome \in Values PROVE From(k)'
      <4>1. reply'[k].product = "released" /\ job'[k].answer = outcome'
        BY <1>1, <1>11, <1>12, <1>13, <3>1, <3>3 DEF From
      <4>2. CASE h.built = "none" \/ (job[m.job].answer \notin Values /\ h.built # "garbled")
        <5>1. resultType' = resultType
          BY <1>3, <4>2 DEF ReadAs
        <5> QED
          BY <1>15, <3>1, <3>3, <4>1, <5>1 DEF From
      <4>3. CASE h.built # "none" /\ m.job # k
        BY <1>15, <4>1, <4>3 DEF From
      <4>4. CASE h.built # "none" /\ m.job = k
        <5>1. h.built = "released" /\ job[m.job].answer = outcome
          BY <1>11, <3>3, <4>4 DEF From
        <5>2. resultType' = outcome
          BY <1>3, <3>3, <5>1 DEF ReadAs
        <5> QED
          BY <3>1, <4>1, <5>2 DEF From
      <4> QED
        BY <4>2, <4>3, <4>4
    <3> QED
      BY <3>1, <3>2, <3>3
  <2> QED
    BY <2>2, <2>3 DEF ResultInv
<1> QED
  BY <1>5, <1>6, <1>7, <1>8, <1>9, <1>14 DEF CallInv
-----------------------------------------------------------------------------
(* The steps of a provider, and of the network *)

\* A slice of the request: with one provider that dropped nothing it is a real
\* one until the request is whole, and a request that starts the handler has
\* just become whole.
LEMMA RecvReqSliceCall ==
    ASSUME IInv, CallInv, NEW m \in net, RecvReqSlice(m)
    PROVE  CallInv'
<1> DEFINE p == m.to
           k == <<p, current[p]>>
           next == runs[p] + 1
<1>0. TypeOK /\ RunsInv /\ m.type = "reqSlice"
  BY DEF IInv, RecvReqSlice
<1>1. p \in Providers /\ m.part \in 0 .. ReqParts - 1
  BY <1>0 DEF TypeOK, Message
<1>2. builder[p] \in BuilderOf(ReqParts) /\ runs[p] \in Nat /\ current[p] \in 0 .. MaxEvictions + 1
  BY <1>0, <1>1, BoundsAssumption DEF TypeOK
<1>3. UNCHANGED <<outcome, resultType, unsent, cut, evictions, reply>>
  BY DEF RecvReqSlice, clientVars
<1>4. PICK h \in Handled(builder[p], m.part, m.full, IF m.full THEN ReqParts ELSE 0) :
        /\ builder' = [builder EXCEPT ![p] = h.builder]
        /\ net' = IF h.ack THEN net \cup {[type |-> "reqAck", part |-> m.part]} ELSE net
        /\ \/ /\ h.built # "none" /\ IsNew(p)
              /\ next <= MaxEvictions + 1
              /\ runs' = [runs EXCEPT ![p] = next]
              /\ current' = [current EXCEPT ![p] = next]
              /\ job' = [job EXCEPT ![<<p, next>>] =
                           [NoJob EXCEPT !.state = "invoking", !.input = h.built,
                                         !.source = evictions[p].builders]]
           \/ /\ h.built # "none" /\ ~IsNew(p)
              /\ job[k].state = "invoked"
              /\ \E r \in Rounds(job[k].unsent) : job' = [job EXCEPT ![k].round = @ \cup r]
              /\ UNCHANGED <<runs, current>>
           \/ /\ h.built = "none" \/ (~IsNew(p) /\ job[k].state # "invoked")
              /\ UNCHANGED <<runs, current, job>>
  BY DEF RecvReqSlice
<1>5. \A o \in net' : o \in net \/ (o.type = "reqAck" /\ o.part = m.part)
  BY <1>4
<1>6. \A q \in Providers : builder'[q] = IF q = p THEN h.builder ELSE builder[q]
  BY <1>0, <1>1, <1>4 DEF TypeOK
<1> HIDE DEF p, k, next
<1>7. ASSUME Gathering(p)
      PROVE  \/ /\ h.built = "none" /\ Filling(h.builder, ReqParts)
                /\ h.builder.full = builder[p].full \cup {m.part}
             \/ h.built = "intact" /\ h.builder.product = "intact"
  <2>1. m.full /\ Filling(builder[p], ReqParts)
    BY <1>0, <1>1, <1>7 DEF CallInv, RequestInv, RequestHeld
  <2>2. h \in Handled(builder[p], m.part, TRUE, ReqParts)
    BY <1>4, <2>1 DEF p
  <2> QED
    BY <1>1, <1>2, <2>1, <2>2, HandledFull, PartsAssumption
<1>8. /\ h.builder.made
      /\ builder[p].made /\ builder[p].product # "none" => h.builder = builder[p]
      /\ builder[p].product = "none" =>
           h.built \in {"none", "intact", "garbled"} /\ h.builder.product = h.built
  <2>1. h \in Handled(builder[p], m.part, m.full, IF m.full THEN ReqParts ELSE 0)
    BY <1>4 DEF p
  <2>2. ReqParts \in Nat
    BY PartsAssumption
  <2>3. h.builder.made
    BY <1>2, <2>1, <2>2, HandledMade
  <2>4. ASSUME builder[p].made, builder[p].product # "none" PROVE h.builder = builder[p]
    BY <1>2, <2>1, <2>2, <2>4, HandledKept
  <2>5. ASSUME builder[p].product = "none"
        PROVE  h.built \in {"none", "intact", "garbled"} /\ h.builder.product = h.built
    <3> DEFINE b == builder[p]
               part == m.part
               full == m.full
    <3>1. /\ h \in Handled(b, part, full, IF full THEN ReqParts ELSE 0)
          /\ b \in BuilderOf(ReqParts) /\ b.product = "none"
      BY <1>2, <2>1, <2>5
    <3> HIDE DEF b, part, full
    <3> QED
      BY <2>2, <3>1, HandledNew
  <2> QED
    BY <2>3, <2>4, <2>5
<1>9. RequestInv'
  <2> SUFFICES ASSUME NEW q \in Providers, Gathering(q)'
               PROVE  RequestHeld(q)'
    BY DEF RequestInv
  <2>1. q = p /\ Providers = {p}
    BY <1>1 DEF Gathering
  <2>2. CASE builder[p].product # "none"
    <3>1. h.builder = builder[p]
      BY <1>1, <1>8, <2>2 DEF CallInv, MadeInv
    <3> QED
      BY <1>6, <2>1, <2>2, <3>1 DEF Gathering
  <2>3. CASE builder[p].product = "none"
    <3>1. Gathering(p)
      BY <1>3, <2>1, <2>3 DEF Gathering
    <3>2. /\ Filling(h.builder, ReqParts) /\ h.builder.full = builder[p].full \cup {m.part}
          /\ builder'[q] = h.builder
      BY <1>6, <1>7, <2>1, <3>1 DEF Gathering
    <3>3. RequestHeld(p)
      BY <1>1, <3>1 DEF CallInv, RequestInv
    <3> QED
      BY <1>3, <1>5, <2>1, <3>2, <3>3 DEF RequestHeld
  <2> QED
    BY <2>2, <2>3
<1>10. MadeInv'
  BY <1>1, <1>3, <1>6, <1>8 DEF CallInv, MadeInv
<1>11. runs[p] = 0 /\ Sole(p) =>
         current[p] = 0 /\ builder[p].product = "none" /\ (~cut => Gathering(p))
  BY <1>0, <1>1, <1>2 DEF RunsInv, CallInv, NewInv, Sole, Gathering
<1>12. NewInv'
  <2> SUFFICES ASSUME NEW q \in Providers, Sole(q)', runs'[q] = 0
               PROVE  builder'[q].product = "none"
    BY DEF NewInv
  <2>1. q = p /\ Sole(p)
    BY <1>1, <1>3 DEF Sole
  <2>2. next # 0 /\ (runs' = [runs EXCEPT ![p] = next] => runs'[p] = next)
    BY <1>0, <1>1, <1>2 DEF next, TypeOK
  <2>3. runs[p] = 0
    BY <1>4, <2>1, <2>2 DEF p, k, next
  <2>4. h.built = "none"
    BY <1>4, <1>11, <2>1, <2>2, <2>3 DEF p, k, next, IsNew
  <2> QED
    BY <1>6, <1>8, <1>11, <2>1, <2>3, <2>4
<1>16. CutInv'
  BY <1>3 DEF CallInv, CutInv
<1>13. CASE UNCHANGED <<runs, current, job>>
  <2>1. JobInv' /\ InputInv'
    BY <1>3, <1>13 DEF CallInv, JobInv, InputInv, Inputs, Sole
  <2>2. ReplyInv'
    BY <1>3, <1>5, <1>13, ReplyFrame DEF CallInv, Unsettled
  <2>3. ResultInv'
    BY <1>3, <1>13, ResultFrame DEF CallInv, NothingDropped
  <2> QED
    BY <1>9, <1>10, <1>12, <1>16, <2>1, <2>2, <2>3 DEF CallInv
<1>14. CASE /\ h.built # "none" /\ IsNew(p) /\ next <= MaxEvictions + 1
            /\ runs' = [runs EXCEPT ![p] = next]
            /\ job' = [job EXCEPT ![<<p, next>>] =
                         [NoJob EXCEPT !.state = "invoking", !.input = h.built,
                                       !.source = evictions[p].builders]]
  <2> DEFINE new == <<p, next>>
             rec == [NoJob EXCEPT !.state = "invoking", !.input = h.built,
                                  !.source = evictions[p].builders]
  <2>1. next = runs[p] + 1 /\ new \in Jobs /\ new[1] = p /\ new[2] = next
    BY <1>1, <1>2, <1>14, BoundsAssumption DEF next, Jobs
  <2>2. job[new] = NoJob
    BY <1>2, <2>1 DEF CallInv, JobInv
  <2>3. /\ rec.state = "invoking" /\ rec.input = h.built
        /\ rec.answer = "none" /\ rec.round = {}
    BY DEF NoJob
  <2> HIDE DEF new, rec
  <2>4. \A o \in Jobs : job'[o] = IF o = new THEN rec ELSE job[o]
    BY <1>0, <1>14, <2>1 DEF new, rec, TypeOK
  <2>5. JobInv'
    <3> SUFFICES ASSUME NEW o \in Jobs
                 PROVE  /\ o[2] > runs'[o[1]] => job'[o] = NoJob
                        /\ Fits(job'[o], evictions'[o[1]].invokers)
      BY DEF JobInv
    <3>1. o[1] \in Providers /\ o[2] \in Nat /\ (o = new <=> o[1] = p /\ o[2] = next)
      BY <2>1, BoundsAssumption DEF new, Jobs
    <3>2. runs'[o[1]] = IF o[1] = p THEN next ELSE runs[o[1]]
      BY <1>0, <1>1, <1>14, <3>1 DEF TypeOK
    <3>3. CASE o = new
      BY <1>2, <2>1, <2>3, <2>4, <3>2, <3>3 DEF Fits
    <3>4. CASE o # new
      BY <1>2, <1>3, <2>1, <2>4, <3>1, <3>2, <3>4 DEF CallInv, JobInv
    <3> QED
      BY <3>3, <3>4
  <2>6. Sole(p) => h.built \in Inputs
    BY <1>0, <1>1, <1>2, <1>7, <1>8, <1>11, <1>14 DEF IsNew, RunsInv, Sole, Inputs
  <2>7. InputInv'
    BY <1>3, <2>1, <2>3, <2>4, <2>6 DEF CallInv, InputInv, Inputs, Sole
  <2>8. ASSUME Unsettled'
        PROVE  (\A o \in Jobs : ReplyHeld(o)') /\ (\A o \in net' : ReplyCarried(o)')
    <3>1. Unsettled
      BY <1>3, <2>8 DEF Unsettled
    <3>2. \A o \in Jobs : ReplyHeld(o)'
      BY <1>3, <2>3, <2>4, <3>1 DEF CallInv, ReplyInv, ReplyHeld
    <3>3. \A o \in net : o.type = "repSlice" => o.job \in Jobs /\ o.job # new
      BY <1>0, <2>2, <3>1 DEF CallInv, ReplyInv, ReplyCarried, NoJob, TypeOK, Message
    <3>4. \A o \in net' : ReplyCarried(o)'
      BY <1>3, <1>5, <2>4, <3>1, <3>3 DEF CallInv, ReplyInv, ReplyCarried
    <3> QED
      BY <3>2, <3>4
  <2>9. ResultInv'
    BY <1>3, <2>2, <2>4, ResultFrame DEF CallInv, NothingDropped, NoJob
  <2> QED
    BY <1>9, <1>10, <1>12, <1>16, <2>5, <2>7, <2>8, <2>9 DEF CallInv, ReplyInv
<1>15. CASE /\ ~IsNew(p) /\ job[k].state = "invoked"
            /\ \E r \in Rounds(job[k].unsent) : job' = [job EXCEPT ![k].round = @ \cup r]
            /\ UNCHANGED runs
  <2>1. k \in Jobs
    BY <1>1, <1>2, <1>15 DEF k, Jobs, IsNew
  <2>2. PICK r \in Rounds(job[k].unsent) : job' = [job EXCEPT ![k].round = @ \cup r]
    BY <1>15
  <2> DEFINE rec == [job[k] EXCEPT !.round = @ \cup r]
  <2>3. job[k] \in JobRecord /\ job \in [Jobs -> JobRecord]
    BY <1>0, <2>1 DEF TypeOK, JobRecord
  <2>4. /\ rec \in JobRecord /\ rec.input = job[k].input /\ rec.state = "invoked"
        /\ rec.answer = job[k].answer /\ rec.unsent = job[k].unsent
    BY <1>15, <2>2, <2>3, RoundsAreParts DEF JobRecord
  <2>5. job' = [job EXCEPT ![k] = rec]
    BY <2>1, <2>2, <2>3
  <2> HIDE DEF rec
  <2>6. JobInv' /\ InputInv' /\ ResultInv'
    <3>1. Fits(rec, evictions[k[1]].invokers)
      BY <1>15, <2>1, <2>4 DEF CallInv, JobInv, Fits
    <3> QED
      BY <1>3, <1>15, <2>1, <2>4, <2>5, <3>1, JobFrame DEF CallInv
  <2>7. \A o \in Jobs : job'[o].state = job[o].state /\ job'[o].unsent = job[o].unsent
    BY <1>15, <2>3, <2>4, <2>5
  <2>8. ReplyInv'
    <3>1. \A o \in net : o.type = "repSlice" => o.job \in Jobs
      BY <1>0 DEF TypeOK, Message
    <3> QED
      BY <1>3, <1>5, <2>7, <3>1 DEF CallInv, ReplyInv, ReplyHeld, ReplyCarried, Unsettled
  <2> QED
    BY <1>9, <1>10, <1>12, <1>16, <2>6, <2>8 DEF CallInv
<1> QED
  BY <1>4, <1>13, <1>14, <1>15 DEF p, k, next

\* Whatever a reply releases, the request is gathered, or was, as before.
LEMMA ReleaseCall ==
    ASSUME IInv, CallInv, UNCHANGED <<outcome, unsent, cut, runs, evictions, reply>>,
           \/ builder' = builder
           \/ \E p \in Providers, k \in Jobs : builder' = Released(p, k),
           \A m \in net' : m \in net \/ m.type \in {"repSlice", "repAck"}
    PROVE  RequestInv' /\ NewInv' /\ MadeInv' /\ CutInv'
<1>1. \A q \in Providers : /\ builder'[q].product = "none" <=> builder[q].product = "none"
                           /\ builder'[q].made = builder[q].made
                           /\ builder[q].product = "none" => builder'[q] = builder[q]
  BY ReleasedKeeps DEF IInv
<1>2. NewInv' /\ MadeInv' /\ CutInv'
  BY <1>1 DEF CallInv, NewInv, MadeInv, CutInv, Sole
<1>3. RequestInv'
  BY <1>1, RequestFrame DEF CallInv, Gathering
<1> QED
  BY <1>2, <1>3

LEMMA HandlerEndsCall ==
    ASSUME IInv, CallInv, NEW p \in Providers, NEW n \in 1 .. MaxEvictions + 1, HandlerEnds(p, n)
    PROVE  CallInv'
<1> DEFINE k == <<p, n>>
<1>0. /\ job \in [Jobs -> JobRecord] /\ k \in Jobs /\ k[1] = p
      /\ UNCHANGED <<outcome, resultType, unsent, cut, runs, evictions, reply, net>>
  BY DEF IInv, Jobs, TypeOK, JobRecord, HandlerEnds, clientVars
<1>1. PICK a \in Answers :
        IF job[k].state = "invoking"
        THEN /\ \E r \in Rounds(SliceIds(RepParts)) :
                  job' = [job EXCEPT ![k] = [@ EXCEPT !.state = "invoked", !.answer = a,
                                               !.unsent = SliceIds(RepParts), !.round = r]]
             /\ UNCHANGED builder
        ELSE /\ job' = [job EXCEPT ![k] = [@ EXCEPT !.state = "done", !.answer = a]]
             /\ builder' = Released(p, k)
  BY DEF HandlerEnds
<1>2. job[k].state \in {"invoking", "closing"}
  BY DEF HandlerEnds
<1>6. job[k].answer = "none"
  BY <1>0, <1>2 DEF CallInv, JobInv, Fits
<1> HIDE DEF k
<1>3. RequestInv' /\ NewInv' /\ MadeInv' /\ CutInv'
  BY <1>0, <1>1, ReleaseCall
<1>4. CASE job[k].state = "invoking"
  <2>1. PICK r \in Rounds(SliceIds(RepParts)) :
          job' = [job EXCEPT ![k] = [@ EXCEPT !.state = "invoked", !.answer = a,
                                       !.unsent = SliceIds(RepParts), !.round = r]]
    BY <1>1, <1>4
  <2> DEFINE rec == [job[k] EXCEPT !.state = "invoked", !.answer = a,
                                   !.unsent = SliceIds(RepParts), !.round = r]
  <2>2. r \subseteq 0 .. RepParts - 1
    BY RoundsAreParts DEF SliceIds
  <2>3. /\ rec \in JobRecord /\ rec.input = job[k].input /\ rec.answer = a
        /\ rec.state = "invoked" /\ rec.unsent = 0 .. RepParts - 1
    BY <1>0, <2>2 DEF JobRecord, SliceIds
  <2>4. job' = [job EXCEPT ![k] = rec]
    BY <1>0, <2>1
  <2> HIDE DEF rec
  <2>5. Fits(rec, evictions[k[1]].invokers)
    BY <2>3 DEF Fits
  <2>6. JobInv' /\ InputInv' /\ ResultInv'
    BY <1>0, <1>4, <2>3, <2>4, <1>6, <2>5, JobFrame DEF CallInv
  <2>7. ASSUME Unsettled'
        PROVE  (\A o \in Jobs : ReplyHeld(o)') /\ (\A m \in net' : ReplyCarried(m)')
    <3>1. Unsettled
      BY <1>0, <2>7 DEF Unsettled
    <3>2. \A o \in Jobs : job'[o] = IF o = k THEN rec ELSE job[o]
      BY <1>0, <2>4
    <3>3. \A o \in Jobs : ReplyHeld(o)'
      BY <1>0, <2>3, <3>1, <3>2 DEF CallInv, ReplyInv, ReplyHeld
    <3>4. \A m \in net : m.type = "repSlice" => m.job \in Jobs
      BY DEF IInv, TypeOK, Message
    <3>5. \A m \in net' : ReplyCarried(m)'
      BY <1>0, <2>3, <3>1, <3>2, <3>4 DEF CallInv, ReplyInv, ReplyCarried
    <3> QED
      BY <3>3, <3>5
  <2> QED
    BY <1>3, <2>6, <2>7 DEF CallInv, ReplyInv
<1>5. CASE job[k].state = "closing"
  <2> DEFINE rec == [job[k] EXCEPT !.state = "done", !.answer = a]
  <2>1. rec \in JobRecord /\ rec.input = job[k].input /\ rec.state = "done"
    BY <1>0 DEF JobRecord
  <2>2. job' = [job EXCEPT ![k] = rec]
    BY <1>0, <1>1, <1>5
  <2> HIDE DEF rec
  <2>3. JobInv' /\ InputInv' /\ ResultInv'
    <3>1. Fits(rec, evictions[k[1]].invokers)
      BY <2>1 DEF Fits
    <3> QED
      BY <1>0, <1>5, <2>1, <2>2, <1>6, <3>1, JobFrame DEF CallInv
  <2>4. ~Unsettled'
    <3>1. evictions[p].invokers > 0
      BY <1>0, <1>5 DEF CallInv, JobInv, Fits
    <3> QED
      BY <1>0, <3>1 DEF Unsettled
  <2> QED
    BY <1>3, <2>3, <2>4 DEF CallInv, ReplyInv
<1> QED
  BY <1>2, <1>4, <1>5

LEMMA CannotReplyCall ==
    ASSUME IInv, CallInv, NEW p \in Providers, NEW n \in 1 .. MaxEvictions + 1, CannotReply(p, n)
    PROVE  CallInv'
<1> DEFINE k == <<p, n>>
           rec == [job[k] EXCEPT !.state = "stuck"]
<1>0. /\ job \in [Jobs -> JobRecord] /\ k \in Jobs /\ job[k].state \in {"invoking", "closing"}
      /\ UNCHANGED <<outcome, resultType, unsent, cut, builder, runs, evictions, reply, net>>
  BY DEF IInv, Jobs, TypeOK, JobRecord, CannotReply, clientVars
<1>1. /\ rec \in JobRecord /\ rec.input = job[k].input /\ rec.state = "stuck"
      /\ rec.answer = job[k].answer /\ rec.round = job[k].round
  BY <1>0 DEF JobRecord
<1>2. job' = [job EXCEPT ![k] = rec]
  BY <1>0 DEF CannotReply
<1> HIDE DEF k, rec
<1>3. RequestInv' /\ NewInv' /\ MadeInv' /\ CutInv'
  BY <1>0, ReleaseCall
<1>4. Fits(rec, evictions[k[1]].invokers)
  BY <1>0, <1>1 DEF Fits, CallInv, JobInv
<1>5. JobInv' /\ InputInv' /\ ResultInv'
  BY <1>0, <1>1, <1>2, <1>4, JobFrame DEF CallInv
<1>6. \A o \in Jobs : job'[o] = IF o = k THEN rec ELSE job[o]
  BY <1>0, <1>2
<1>7. ASSUME Unsettled'
      PROVE  (\A o \in Jobs : ReplyHeld(o)') /\ (\A m \in net' : ReplyCarried(m)')
  <2>1. Unsettled
    BY <1>0, <1>7 DEF Unsettled
  <2>2. \A m \in net : m.type = "repSlice" => m.job \in Jobs
    BY DEF IInv, TypeOK, Message
  <2>3. \A o \in Jobs : ReplyHeld(o)'
    BY <1>0, <1>1, <1>6, <2>1 DEF CallInv, ReplyInv, ReplyHeld
  <2>4. \A m \in net' : ReplyCarried(m)'
    BY <1>0, <1>6, <2>1, <2>2 DEF CallInv, ReplyInv, ReplyCarried
  <2> QED
    BY <2>3, <2>4
<1> QED
  BY <1>3, <1>5, <1>7 DEF CallInv, ReplyInv

LEMMA SendReplyCall ==
    ASSUME IInv, CallInv, NEW p \in Providers, NEW n \in 1 .. MaxEvictions + 1, SendReply(p, n)
    PROVE  CallInv'
<1> DEFINE k == <<p, n>>
<1>0. /\ job \in [Jobs -> JobRecord] /\ k \in Jobs /\ k[1] = p
      /\ UNCHANGED <<outcome, resultType, unsent, cut, builder, runs, evictions, reply>>
  BY DEF IInv, Jobs, TypeOK, JobRecord, SendReply, clientVars
<1>1. PICK i \in job[k].round :
        /\ job' = [job EXCEPT ![k].round = @ \ {i}]
        /\ net' = net \cup {[type |-> "repSlice", job |-> k, part |-> i,
                             full |-> job[k].state = "invoked"]}
  BY DEF SendReply
<1> HIDE DEF k
<1>2. \A m \in net' : \/ m \in net
                      \/ /\ m.type = "repSlice" /\ m.job = k
                         /\ m.full = (job[k].state = "invoked")
  BY <1>1
<1>3. RequestInv' /\ NewInv' /\ MadeInv' /\ CutInv'
  BY <1>0, <1>2, ReleaseCall
<1> DEFINE rec == [job[k] EXCEPT !.round = @ \ {i}]
<1>4. /\ rec \in JobRecord /\ rec.input = job[k].input /\ rec.state = job[k].state
      /\ rec.answer = job[k].answer /\ rec.unsent = job[k].unsent
      /\ rec.round \subseteq job[k].round /\ job' = [job EXCEPT ![k] = rec]
  BY <1>0, <1>1 DEF JobRecord
<1> HIDE DEF rec
<1>5. job[k].state \in {"invoked", "done"}
  BY <1>0, <1>1 DEF CallInv, JobInv, Fits, JobRecord
<1>6. JobInv' /\ InputInv' /\ ResultInv'
  <2>1. Fits(rec, evictions[k[1]].invokers)
    BY <1>0, <1>4, <1>5 DEF CallInv, JobInv, Fits
  <2> QED
    BY <1>0, <1>4, <1>5, <2>1, JobFrame DEF CallInv
<1>7. \A o \in Jobs : job'[o].state = job[o].state /\ job'[o].unsent = job[o].unsent
  BY <1>0, <1>4
<1>8. ASSUME Unsettled'
      PROVE  (\A o \in Jobs : ReplyHeld(o)') /\ (\A m \in net' : ReplyCarried(m)')
  <2>1. Unsettled /\ job[k].state = "invoked"
    BY <1>0, <1>5, <1>8 DEF CallInv, ReplyInv, ReplyHeld, Unsettled
  <2>2. \A m \in net : m.type = "repSlice" => m.job \in Jobs
    BY DEF IInv, TypeOK, Message
  <2> QED
    BY <1>0, <1>2, <1>7, <2>1, <2>2 DEF CallInv, ReplyInv, ReplyHeld, ReplyCarried
<1> QED
  BY <1>3, <1>6, <1>8 DEF CallInv, ReplyInv

\* The acknowledgement of a reply: the last one would show the client to have
\* the whole reply, and so its call to be settled.
LEMMA RecvRepAckCall ==
    ASSUME IInv, CallInv, NEW m \in net, RecvRepAck(m)
    PROVE  CallInv'
<1> DEFINE k == m.job
           left == job[k].unsent \ {m.part}
           state == IF left = {} THEN "done" ELSE "invoked"
           rec == [job[k] EXCEPT !.unsent = left, !.state = state]
<1>0. /\ job \in [Jobs -> JobRecord] /\ k \in Jobs /\ k[1] \in Providers
      /\ job[k].state = "invoked" /\ m.type = "repAck"
      /\ UNCHANGED <<outcome, resultType, unsent, cut, runs, evictions, reply, net>>
  BY DEF IInv, RecvRepAck, Message, TypeOK, JobRecord, Jobs, clientVars
<1>1. builder' = builder \/ builder' = Released(k[1], k)
  BY DEF RecvRepAck
<1>2. job' = [job EXCEPT ![k] = [@ EXCEPT !.unsent = left, !.state = state]]
  BY DEF RecvRepAck
<1>3. state \in {"invoked", "done"}
  OBVIOUS
<1> HIDE DEF k
<1>4. RequestInv' /\ NewInv' /\ MadeInv' /\ CutInv'
  BY <1>0, <1>1, ReleaseCall
<1>5. /\ rec \in JobRecord /\ rec.input = job[k].input /\ rec.answer = job[k].answer
      /\ rec.unsent = left /\ rec.state = state /\ job' = [job EXCEPT ![k] = rec]
  BY <1>0, <1>2, <1>3 DEF JobRecord
<1> HIDE DEF rec
<1>6. JobInv' /\ InputInv' /\ ResultInv'
  <2>1. Fits(rec, evictions[k[1]].invokers)
    BY <1>0, <1>3, <1>5 DEF CallInv, JobInv, Fits
  <2> QED
    BY <1>0, <1>5, <2>1, JobFrame DEF CallInv
<1>7. ASSUME Unsettled'
      PROVE  (\A o \in Jobs : ReplyHeld(o)') /\ (\A o \in net' : ReplyCarried(o)')
  <2>1. Unsettled
    BY <1>0, <1>7 DEF Unsettled
  <2>2. m.part \in reply[k].full /\ ReplyHeld(k)
    BY <1>0, <2>1 DEF k, CallInv, ReplyInv, ReplyCarried
  <2>3. /\ reply[k].full \subseteq 0 .. RepParts - 1 /\ reply[k].full # 0 .. RepParts - 1
        /\ (0 .. RepParts - 1) \ left \subseteq reply[k].full
    BY <1>0, <2>2 DEF ReplyHeld, Filling, IInv, TypeOK, BuilderOf
  <2>4. left # {} /\ state = "invoked"
    BY <2>3
  <2>5. \A o \in Jobs : job'[o] = IF o = k THEN rec ELSE job[o]
    BY <1>0, <1>5
  <2>6. \A o \in net : o.type = "repSlice" => o.job \in Jobs
    BY DEF IInv, TypeOK, Message
  <2> HIDE DEF left, state
  <2>7. \A o \in Jobs : ReplyHeld(o)'
    BY <1>0, <1>5, <2>1, <2>2, <2>3, <2>4, <2>5 DEF CallInv, ReplyInv, ReplyHeld
  <2>8. \A o \in net' : ReplyCarried(o)'
    BY <1>0, <1>5, <2>1, <2>4, <2>5, <2>6 DEF CallInv, ReplyInv, ReplyCarried
  <2> QED
    BY <2>7, <2>8
<1> QED
  BY <1>4, <1>6, <1>7 DEF CallInv, ReplyInv

LEMMA SlicerTimeoutCall ==
    ASSUME IInv, CallInv, NEW p \in Providers, NEW n \in 1 .. MaxEvictions + 1, SlicerTimeout(p, n)
    PROVE  CallInv'
<1> DEFINE k == <<p, n>>
           rec == [job[k] EXCEPT !.state = "done"]
<1>0. /\ job \in [Jobs -> JobRecord] /\ k \in Jobs /\ job[k].state = "invoked"
      /\ outcome # "none" /\ builder' = Released(p, k)
      /\ UNCHANGED <<outcome, resultType, unsent, cut, runs, evictions, reply, net>>
  BY DEF IInv, Jobs, TypeOK, JobRecord, SlicerTimeout, clientVars
<1>1. rec \in JobRecord /\ rec.input = job[k].input /\ rec.state = "done" /\ rec.answer = job[k].answer
  BY <1>0 DEF JobRecord
<1>2. job' = [job EXCEPT ![k] = rec]
  BY <1>0 DEF SlicerTimeout
<1> HIDE DEF k, rec
<1>3. RequestInv' /\ NewInv' /\ MadeInv' /\ CutInv'
  BY <1>0, ReleaseCall
<1>4. Fits(rec, evictions[k[1]].invokers)
  BY <1>1 DEF Fits
<1>5. JobInv' /\ InputInv' /\ ResultInv'
  BY <1>0, <1>1, <1>2, <1>4, JobFrame DEF CallInv
<1> QED
  BY <1>0, <1>3, <1>5 DEF CallInv, ReplyInv, Unsettled

\* An invoker dropped ends what is said of replies and inputs, but not of the
\* request: its builder is there still.
LEMMA EvictInvokerCall ==
    ASSUME IInv, CallInv, NEW p \in Providers, EvictInvoker(p)
    PROVE  CallInv'
<1> DEFINE k == <<p, current[p]>>
           state == Closed(job[k].state)
           rec == [job[k] EXCEPT !.state = state]
<1>0. /\ TypeOK /\ RunsInv /\ job \in [Jobs -> JobRecord]
      /\ k \in Jobs /\ k[1] = p /\ k[2] = current[p]
      /\ UNCHANGED <<outcome, resultType, unsent, cut, runs, reply, net>>
  BY DEF IInv, EvictInvoker, Jobs, TypeOK, JobRecord, clientVars
<1>1. /\ evictions' = [evictions EXCEPT ![p].invokers = @ + 1]
      /\ job' = [job EXCEPT ![k].state = state]
      /\ builder' = builder \/ builder' = Released(p, k)
      /\ current[p] # 0
  BY DEF EvictInvoker
<1>2. /\ rec \in JobRecord /\ rec.input = job[k].input /\ rec.state = state
      /\ rec.answer = job[k].answer /\ rec.round = job[k].round
      /\ job' = [job EXCEPT ![k] = rec]
  BY <1>0, <1>1 DEF JobRecord, Closed
<1>3. \A q \in Providers :
        /\ evictions'[q].builders = evictions[q].builders
        /\ evictions'[q].invokers = IF q = p THEN evictions[p].invokers + 1
                                             ELSE evictions[q].invokers
        /\ evictions[q].invokers \in Nat
  BY <1>0, <1>1 DEF TypeOK
<1> HIDE DEF k, rec
<1>4. ~Unsettled' /\ ReplyInv' /\ ResultInv' /\ CutInv'
  BY <1>0, <1>3 DEF Unsettled, ReplyInv, ResultInv, NothingDropped, CallInv, CutInv
<1>5. \A q \in Providers : /\ builder'[q].product = "none" <=> builder[q].product = "none"
                           /\ builder'[q].made = builder[q].made
                           /\ builder[q].product = "none" => builder'[q] = builder[q]
  BY <1>0, <1>1, ReleasedKeeps
<1>6. MadeInv' /\ RequestInv'
  BY <1>0, <1>3, <1>5, RequestFrame DEF CallInv, MadeInv, Gathering
<1>7. NewInv' /\ InputInv'
  <2>1. \A q \in Providers : ~Sole(q)'
    BY <1>3 DEF Sole
  <2>2. \A o \in Jobs : o[1] \in Providers
    BY DEF Jobs
  <2> QED
    BY <2>1, <2>2 DEF NewInv, InputInv
<1>8. JobInv'
  <2> SUFFICES ASSUME NEW o \in Jobs
               PROVE  /\ o[2] > runs'[o[1]] => job'[o] = NoJob
                      /\ Fits(job'[o], evictions'[o[1]].invokers)
    BY DEF JobInv
  <2>1. o[1] \in Providers /\ job'[o] = IF o = k THEN rec ELSE job[o]
    BY <1>0, <1>2 DEF Jobs
  <2>2. CASE o = k
    <3>1. ~(k[2] > runs[p]) /\ job[k].state \in {"none", "invoking", "closing", "invoked", "done", "stuck"}
      BY <1>0 DEF RunsInv, TypeOK, JobRecord
    <3>2. Fits(rec, evictions[p].invokers + 1)
      BY <1>0, <1>2, <1>3, <3>1 DEF CallInv, JobInv, Fits, Closed
    <3> QED
      BY <1>0, <1>3, <2>1, <2>2, <3>1, <3>2
  <2>3. CASE o # k
    BY <1>0, <1>3, <2>1, <2>3 DEF CallInv, JobInv, Fits
  <2> QED
    BY <2>2, <2>3
<1> QED
  BY <1>4, <1>6, <1>7, <1>8 DEF CallInv

LEMMA EvictBuilderCall ==
    ASSUME IInv, CallInv, NEW p \in Providers, EvictBuilder(p)
    PROVE  CallInv'
<1>1. /\ evictions' = [evictions EXCEPT ![p].builders = @ + 1]
      /\ builder' = [builder EXCEPT ![p] = NoBuilder]
      /\ UNCHANGED <<outcome, resultType, unsent, cut, runs, job, reply, net>>
  BY DEF EvictBuilder, clientVars
<1>2. \A q \in Providers :
        /\ evictions'[q].invokers = evictions[q].invokers
        /\ evictions'[q].builders = IF q = p THEN evictions[p].builders + 1
                                             ELSE evictions[q].builders
        /\ evictions[q].builders \in Nat
        /\ builder'[q] = IF q = p THEN NoBuilder ELSE builder[q]
  BY <1>1 DEF IInv, TypeOK
<1>3. Unsettled' <=> Unsettled
  BY <1>1, <1>2 DEF Unsettled
<1>10. ResultInv' /\ CutInv'
  BY <1>1, <1>2, ResultFrame DEF CallInv, NothingDropped, CutInv
<1>4. ReplyInv'
  BY <1>1, <1>2, <1>3 DEF CallInv, ReplyInv, ReplyHeld, ReplyCarried
<1>5. \A q \in Providers : /\ Gathering(q)' => Gathering(q) /\ builder'[q] = builder[q]
                           /\ Sole(q)' => Sole(q) /\ builder'[q] = builder[q]
  BY <1>2 DEF Gathering, Sole
<1>6. RequestInv' /\ NewInv'
  BY <1>1, <1>5, RequestFrame DEF CallInv, NewInv
<1>7. MadeInv'
  BY <1>1, <1>2 DEF CallInv, MadeInv, NoBuilder
<1>8. \A k \in Jobs : k[1] \in Providers
  BY DEF Jobs
<1>9. JobInv' /\ InputInv'
  BY <1>1, <1>2, <1>5, <1>8 DEF CallInv, JobInv, InputInv, Inputs
<1> QED
  BY <1>10, <1>4, <1>6, <1>7, <1>9 DEF CallInv

LEMMA LoseCall ==
    ASSUME IInv, CallInv, NEW m \in net, Lose(m)
    PROVE  CallInv'
<1>1. /\ net' = net \ {m}
      /\ UNCHANGED <<outcome, resultType, unsent, cut, builder, runs, job, evictions, reply>>
  BY DEF Lose, clientVars, providerVars
<1>2. ResultInv'
  BY <1>1, ResultFrame DEF CallInv, NothingDropped
<1> QED
  BY <1>1, <1>2 DEF CallInv, JobInv, ReplyInv, Unsettled, ReplyHeld, ReplyCarried, RequestInv,
              Gathering, RequestHeld, MadeInv, NewInv, InputInv, Inputs, Sole, CutInv

LEMMA NextCallInv == IInv /\ CallInv /\ [Next]_vars => CallInv'
<1> SUFFICES ASSUME IInv, CallInv, [Next]_vars PROVE CallInv'
  OBVIOUS
<1>1. CASE Client
  BY <1>1, ClientCall
<1>2. ASSUME NEW p \in Providers, NEW n \in 1 .. MaxEvictions + 1, Provider(p, n)
      PROVE  CallInv'
  BY <1>2, HandlerEndsCall, CannotReplyCall, SendReplyCall, SlicerTimeoutCall DEF Provider
<1>3. ASSUME NEW p \in Providers, EvictInvoker(p) \/ EvictBuilder(p)
      PROVE  CallInv'
  BY <1>3, EvictInvokerCall, EvictBuilderCall
<1>4. CASE Network
  BY <1>4, RecvReqAckCall, RecvRepSliceCall, RecvReqSliceCall, RecvRepAckCall, LoseCall
     DEF Network
<1>5. CASE UNCHANGED vars
  <2>1. UNCHANGED <<clientVars, providerVars, reply, net, spent>>
    BY <1>5 DEF vars
  <2>2. ResultInv'
    BY <2>1, ResultFrame DEF CallInv, NothingDropped, clientVars, providerVars
  <2> QED
    BY <2>1, <2>2 DEF vars, clientVars, providerVars, CallInv, JobInv, ReplyInv, Unsettled,
              ReplyHeld, ReplyCarried, RequestInv, Gathering, RequestHeld, MadeInv, NewInv,
              InputInv, Inputs, Sole, CutInv
<1> QED
  BY <1>1, <1>2, <1>3, <1>4, <1>5 DEF Next

LEMMA Invariants == Spec => [](IInv /\ CallInv)
<1>1. Init => IInv /\ CallInv
  BY InitIInv, InitCallInv
<1>2. IInv /\ CallInv /\ [Next]_vars => (IInv /\ CallInv)'
  BY NextIInv, NextCallInv
<1> QED
  BY <1>1, <1>2, PTL DEF Spec

LEMMA ResultInvGives == ResultInv => ResultIntact
<1> SUFFICES ASSUME ResultInv, NothingDropped PROVE
                 /\ outcome \notin {"garbled", "released"}
                 /\ outcome \in Values /\ resultType # outcome => \E j, k \in Arrived : j # k
  BY DEF ResultIntact, NothingDropped
<1>1. \A k \in Jobs : From(k) => k \in Arrived
  BY DEF From, Arrived
<1> QED
  BY <1>1 DEF ResultInv, From

\* What send() gives its caller is a whole reply, never one put together with
\* empty slices nor a packet already released, and it is read by that reply's
\* own isJSON unless a second run's reply has come in before the request was
\* closed: for any number of providers and slices, unless a provider drops an
\* invoker.
THEOREM ResultIntactAlways == Spec => []ResultIntact
<1>1. CallInv => ResultIntact
  BY ResultInvGives DEF CallInv
<1> QED
  BY Invariants, <1>1, PTL

\* With one provider, which drops nothing, every handler is given the request
\* its caller sent, however it was cut, resent and delayed: unless the request
\* slicer's own timer ran out under a round, and then never a released one.
THEOREM RequestIntactAlways == Spec => []RequestIntact
<1>1. IInv /\ CallInv => RequestIntact
  <2> SUFFICES ASSUME IInv, CallInv, NEW k \in Jobs, Providers = {k[1]},
                      evictions[k[1]].builders + evictions[k[1]].invokers = 0
               PROVE  job[k].input \in Inputs
    BY DEF RequestIntact, Inputs
  <2>1. k[1] \in Providers
    BY DEF Jobs
  <2>2. Sole(k[1])
    BY <2>1 DEF Sole, IInv, TypeOK
  <2> QED
    BY <2>2 DEF CallInv, InputInv
<1> QED
  BY Invariants, <1>1, PTL

\* With one provider that keeps its builder, a slice it has acknowledged is in
\* that builder or in the packet made of it, so the client may stop sending it:
\* as long as the request slicer's timer has not run out.
THEOREM AckedMeansHeldAlways == Spec => []AckedMeansHeld
<1>1. CallInv => AckedMeansHeld
  BY DEF CallInv, AckedMeansHeld, RequestInv, Gathering, RequestHeld
<1> QED
  BY Invariants, <1>1, PTL

-----------------------------------------------------------------------------
(* What a call waits for *)

\* A handler that was started has its record.
Begun == \A k \in Jobs : k[2] <= runs[k[1]] => job[k].state # "none"

\* It has not returned, or part of its reply is still to be sent that the client
\* has not got; or what it answered could not be encoded.
GoesOn(k) ==
    \/ job[k].state \in {"invoking", "stuck"}
    \/ job[k].state = "invoked" /\ job[k].unsent \ reply[k].full # {}

\* While the caller waits, with every slice of its request acknowledged by one
\* provider that drops nothing, the run that provider knows goes on.
SettleHasWork ==
    \A p \in Providers :
      Sole(p) /\ outcome = "none" /\ unsent = {} =>
        current[p] # 0 /\ GoesOn(<<p, current[p]>>)

LEMMA BegunBy ==
    ASSUME IInv, Begun, UNCHANGED runs, NEW k \in Jobs, NEW rec, rec.state # "none",
           job' = [job EXCEPT ![k] = rec]
    PROVE  Begun'
  BY DEF IInv, TypeOK, Begun

LEMMA HandlerEndsBegun ==
    ASSUME IInv, Begun, NEW p \in Providers, NEW n \in 1 .. MaxEvictions + 1, HandlerEnds(p, n)
    PROVE  Begun'
<1> DEFINE k == <<p, n>>
<1>0. job \in [Jobs -> JobRecord] /\ k \in Jobs /\ job[k] \in JobRecord
  BY DEF IInv, Jobs, TypeOK, JobRecord
<1>1. UNCHANGED runs
  BY DEF HandlerEnds
<1>2. PICK a \in Answers :
        IF job[k].state = "invoking"
        THEN /\ \E r \in Rounds(SliceIds(RepParts)) :
                  job' = [job EXCEPT ![k] = [@ EXCEPT !.state = "invoked", !.answer = a,
                                               !.unsent = SliceIds(RepParts), !.round = r]]
             /\ UNCHANGED builder
        ELSE /\ job' = [job EXCEPT ![k] = [@ EXCEPT !.state = "done", !.answer = a]]
             /\ builder' = Released(p, k)
  BY DEF HandlerEnds
<1> HIDE DEF k
<1>3. CASE job[k].state = "invoking"
  <2>1. PICK r \in Rounds(SliceIds(RepParts)) :
          job' = [job EXCEPT ![k] = [@ EXCEPT !.state = "invoked", !.answer = a,
                                       !.unsent = SliceIds(RepParts), !.round = r]]
    BY <1>2, <1>3
  <2> DEFINE rec == [job[k] EXCEPT !.state = "invoked", !.answer = a,
                                   !.unsent = SliceIds(RepParts), !.round = r]
  <2>2. rec.state = "invoked"
    BY <1>0 DEF JobRecord
  <2>3. job' = [job EXCEPT ![k] = rec]
    BY <1>0, <2>1
  <2> HIDE DEF rec
  <2> QED
    BY <1>0, <1>1, <2>2, <2>3, BegunBy
<1>4. CASE job[k].state # "invoking"
  <2> DEFINE rec == [job[k] EXCEPT !.state = "done", !.answer = a]
  <2>1. rec.state = "done"
    BY <1>0 DEF JobRecord
  <2>2. job' = [job EXCEPT ![k] = rec]
    BY <1>0, <1>2, <1>4
  <2> HIDE DEF rec
  <2> QED
    BY <1>0, <1>1, <2>1, <2>2, BegunBy
<1> QED
  BY <1>3, <1>4

LEMMA BegunKept == ASSUME IInv, Begun, [Next]_vars PROVE Begun'
<1>0. job \in [Jobs -> JobRecord] /\ runs \in [Providers -> 0 .. MaxEvictions + 1]
  BY DEF IInv, TypeOK, JobRecord
<1>1. CASE UNCHANGED <<runs, job>>
  BY <1>1 DEF Begun
<1>2. CASE Client
  BY <1>1, <1>2 DEF Client, StartRound, SendSlice, GiveUp, Close, ReqSlicerTimeout, providerVars
<1>3. ASSUME NEW p \in Providers, NEW n \in 1 .. MaxEvictions + 1, Provider(p, n)
      PROVE  Begun'
  <2>1. <<p, n>> \in Jobs /\ job[<<p, n>>] \in JobRecord
    BY <1>0 DEF Jobs
  <2>3. CASE SendReply(p, n)
    <3> DEFINE k == <<p, n>>
    <3>1. PICK i \in job[k].round : job' = [job EXCEPT ![k] = [job[k] EXCEPT !.round = @ \ {i}]]
      BY <2>3 DEF SendReply
    <3>2. [job[k] EXCEPT !.round = @ \ {i}].state = job[k].state
      BY <2>1 DEF JobRecord
    <3> HIDE DEF k
    <3>3. \A o \in Jobs : job'[o].state = job[o].state
      BY <1>0, <3>1, <3>2
    <3> QED
      BY <2>3, <3>3 DEF SendReply, Begun
  <2>4. CASE SlicerTimeout(p, n)
    BY <2>1, <2>4, BegunBy DEF SlicerTimeout, JobRecord
  <2>5. CASE CannotReply(p, n)
    BY <2>1, <2>5, BegunBy DEF CannotReply, JobRecord
  <2> QED
    BY <1>3, <2>3, <2>4, <2>5, HandlerEndsBegun DEF Provider
<1>4. ASSUME NEW p \in Providers, EvictInvoker(p) \/ EvictBuilder(p)
      PROVE  Begun'
  <2>1. CASE EvictInvoker(p)
    <3> DEFINE k == <<p, current[p]>>
               rec == [job[k] EXCEPT !.state = Closed(@)]
    <3>1. k \in Jobs /\ job[k].state # "none"
      BY <1>4, <2>1 DEF EvictInvoker, IInv, TypeOK, RunsInv, Jobs, Begun
    <3>2. job' = [job EXCEPT ![k] = rec] /\ UNCHANGED runs
      BY <2>1 DEF EvictInvoker
    <3>3. job[k] \in JobRecord
      BY <1>0, <3>1
    <3>4. rec.state # "none"
      BY <3>1, <3>3 DEF JobRecord, Closed
    <3> HIDE DEF k, rec
    <3> QED
      BY <3>1, <3>2, <3>4, BegunBy
  <2>2. CASE EvictBuilder(p)
    BY <1>1, <2>2 DEF EvictBuilder
  <2> QED
    BY <1>4, <2>1, <2>2
<1>5. CASE Network
  <2>1. ASSUME NEW m \in net, RecvRepAck(m) PROVE Begun'
    <3>1. m.job \in Jobs
      BY <2>1 DEF RecvRepAck, IInv, TypeOK, Message
    <3> DEFINE left == job[m.job].unsent \ {m.part}
               rec == [job[m.job] EXCEPT !.unsent = left,
                                         !.state = IF left = {} THEN "done" ELSE "invoked"]
    <3>2. job' = [job EXCEPT ![m.job] = rec] /\ UNCHANGED runs
      BY <2>1 DEF RecvRepAck
    <3>3. job[m.job] \in JobRecord
      BY <1>0, <3>1
    <3>4. rec.state # "none"
      BY <3>3 DEF JobRecord
    <3> HIDE DEF rec
    <3> QED
      BY <3>1, <3>2, <3>4, BegunBy
  <2>2. ASSUME NEW m \in net, RecvReqSlice(m) PROVE Begun'
    <3> DEFINE p == m.to
               k == <<p, current[p]>>
               next == runs[p] + 1
    <3>1. p \in Providers
      BY <2>2 DEF RecvReqSlice, IInv, TypeOK, Message
    <3>2. \/ /\ next <= MaxEvictions + 1
             /\ runs' = [runs EXCEPT ![p] = next]
             /\ \E what : job' = [job EXCEPT ![<<p, next>>] =
                          [NoJob EXCEPT !.state = "invoking", !.input = what,
                                        !.source = evictions[p].builders]]
          \/ /\ ~IsNew(p) /\ job[k].state = "invoked" /\ UNCHANGED runs
             /\ \E r : job' = [job EXCEPT ![k].round = @ \cup r]
          \/ UNCHANGED <<runs, job>>
      BY <2>2 DEF RecvReqSlice
    <3>3. CASE \E what : /\ next <= MaxEvictions + 1
                         /\ runs' = [runs EXCEPT ![p] = next]
                         /\ job' = [job EXCEPT ![<<p, next>>] =
                              [NoJob EXCEPT !.state = "invoking", !.input = what,
                                            !.source = evictions[p].builders]]
      <4>1. runs[p] \in Nat /\ <<p, next>> \in Jobs
        BY <1>0, <3>1, <3>3, BoundsAssumption DEF Jobs
      <4>2. \A o \in Jobs : o[2] <= runs'[o[1]] => o = <<p, next>> \/ o[2] <= runs[o[1]]
        BY <1>0, <3>1, <3>3, <4>1, BoundsAssumption DEF Jobs
      <4>3. job'[<<p, next>>].state = "invoking"
        BY <1>0, <3>3, <4>1 DEF NoJob
      <4>4. \A o \in Jobs : o # <<p, next>> => job'[o] = job[o]
        BY <1>0, <3>3
      <4> QED
        BY <4>2, <4>3, <4>4 DEF Begun
    <3>4. CASE ~IsNew(p) /\ UNCHANGED runs /\ \E r : job' = [job EXCEPT ![k].round = @ \cup r]
      <4>1. k \in Jobs
        BY <3>1, <3>4 DEF IsNew, IInv, TypeOK, Jobs
      <4>2. PICK r : job' = [job EXCEPT ![k] = [job[k] EXCEPT !.round = @ \cup r]]
        BY <3>4
      <4>3. job[k] \in JobRecord
        BY <1>0, <4>1
      <4>4. [job[k] EXCEPT !.round = @ \cup r].state = job[k].state
        BY <4>3 DEF JobRecord
      <4> HIDE DEF k
      <4>5. \A o \in Jobs : job'[o].state = job[o].state
        BY <1>0, <4>1, <4>2, <4>4
      <4> QED
        BY <3>4, <4>5 DEF Begun
    <3> QED
      BY <1>1, <3>2, <3>3, <3>4
  <2>3. ASSUME NEW m \in net, RecvRepSlice(m) \/ Lose(m) PROVE UNCHANGED <<runs, job>>
    BY <2>3 DEF RecvRepSlice, Lose, providerVars
  <2>4. ASSUME NEW i \in 0 .. ReqParts - 1, RecvReqAck(i) PROVE UNCHANGED <<runs, job>>
    BY <2>4 DEF RecvReqAck, providerVars
  <2> QED
    BY <1>1, <1>5, <2>1, <2>2, <2>3, <2>4 DEF Network
<1>6. CASE UNCHANGED vars
  BY <1>1, <1>6 DEF vars, providerVars
<1> QED
  BY <1>2, <1>3, <1>4, <1>5, <1>6 DEF Next

\* No provider takes its run for done while the caller waits for it: what the
\* client polls for with its empty slices is there (InvokeRequest, send() and
\* InvokeHandler, sendInvokeResult).
THEOREM SettleHasWorkAlways == Spec => []SettleHasWork
<1>1. Init => Begun
  BY DEF Init, Begun, Jobs
<1>2. Spec => []Begun
  BY <1>1, BegunKept, Invariants, PTL DEF Spec
<1>3. ASSUME IInv, CallInv, Begun PROVE SettleHasWork
  <2> SUFFICES ASSUME NEW p \in Providers, Sole(p), outcome = "none", unsent = {}
               PROVE  current[p] # 0 /\ GoesOn(<<p, current[p]>>)
    BY DEF SettleHasWork
  <2> DEFINE k == <<p, current[p]>>
  <2>1. builder[p].product # "none"
    BY <1>3, GatheringUnsent DEF Gathering, Sole, CallInv, CutInv, IInv
  <2>2. runs[p] # 0
    BY <1>3, <2>1 DEF CallInv, NewInv
  <2>3. current[p] # 0 /\ current[p] <= runs[p] /\ k \in Jobs
    BY <1>3, <2>2 DEF IInv, RunsInv, Sole, TypeOK, Jobs
  <2>4. job[k].state # "none"
    BY <1>3, <2>3 DEF Begun
  <2>5. ReplyHeld(k)
    BY <1>3, <2>3 DEF CallInv, ReplyInv, Unsettled, Sole
  <2>6. /\ reply[k].full \subseteq 0 .. RepParts - 1 /\ reply[k].full # 0 .. RepParts - 1
        /\ job[k].state \in {"invoking", "invoked", "stuck"}
        /\ job[k].state = "invoked" => (0 .. RepParts - 1) \ job[k].unsent \subseteq reply[k].full
    BY <1>3, <2>3, <2>4, <2>5 DEF ReplyHeld, Filling, IInv, TypeOK, BuilderOf
  <2> HIDE DEF k
  <2>7. job[k].state = "invoked" => job[k].unsent \ reply[k].full # {}
    BY <2>6
  <2> QED
    BY <2>3, <2>6, <2>7 DEF GoesOn, k
<1> QED
  BY <1>2, <1>3, Invariants, PTL

-----------------------------------------------------------------------------
(* One provider that drops nothing: the transfer implements RpcCall *)

\* A reply that settles the call gives the answer of its run.
LEMMA SettledBy ==
    ASSUME IInv, CallInv, Unsettled, NEW m \in net, RecvRepSlice(m)
    PROVE  /\ m.job \in Jobs /\ job[m.job].answer \in Answers
           /\ outcome' \in {"none", job[m.job].answer}
           /\ outcome' = "none" \/ job[m.job].answer \notin Values
                \/ resultType' = job[m.job].answer
<1>1. m.job \in Jobs /\ m.part \in 0 .. RepParts - 1
  BY DEF RecvRepSlice, IInv, TypeOK, Message
<1>2. /\ m.full /\ job[m.job].answer \in Answers
      /\ Filling(reply[m.job], RepParts) /\ reply[m.job] \in BuilderOf(RepParts)
  BY <1>1 DEF RecvRepSlice, CallInv, JobInv, Fits, ReplyInv, ReplyHeld, ReplyCarried, IInv, TypeOK
<1>3. PICK h \in Handled(reply[m.job], m.part, TRUE, RepParts) :
        /\ outcome' = Settled(h.built, job[m.job].answer)
        /\ resultType' \in ReadAs(h.built, job[m.job].answer)
  BY <1>2 DEF RecvRepSlice
<1>4. h.built \in {"none", "intact"}
  BY <1>1, <1>2, <1>3, HandledFull, PartsAssumption
<1> QED
  BY <1>1, <1>2, <1>3, <1>4 DEF Settled, Unsettled, ReadAs

\* What starting the handler changes.
StartsRun(p, what) ==
    /\ current[p] = 0
    /\ runs' = [runs EXCEPT ![p] = runs[p] + 1]
    /\ job' = [job EXCEPT ![<<p, runs[p] + 1>>] =
                 [NoJob EXCEPT !.state = "invoking", !.input = what,
                               !.source = evictions[p].builders]]

LEMMA CallStep ==
    ASSUME NEW p, Providers = {p}, MaxEvictions = 0, IInv, CallInv, [Next]_vars
    PROVE  [Call!Next]_Call!vars
<1> DEFINE k == <<p, 1>>
<1> USE DEF Call!vars, Call!Next, Call!Run, Call!Answer, Call!Return, Call!Fail
<1>1. Only = p /\ Jobs = {k} /\ k[1] = p /\ k[2] = 1
  BY DEF Only, Jobs
<1>2. /\ job \in [{k} -> JobRecord] /\ runs \in [{p} -> 0 .. 1]
      /\ current[p] \in 0 .. 1 /\ current[p] <= runs[p]
      /\ evictions[p].builders = 0 /\ evictions[p].invokers = 0 /\ spent.evictions = 0
      /\ runs[p] = IF current[p] = 0 THEN 0 ELSE 1
  BY <1>1 DEF IInv, TypeOK, RunsInv, JobRecord
<1>3. /\ runs[p] = 0 => job[k] = NoJob
      /\ job[k].state # "closing"
      /\ job[k].state \in {"none", "invoking"} => job[k].answer = "none"
  BY <1>1, <1>2 DEF CallInv, JobInv, Fits
<1>15. "none" \notin Values /\ "failed" \notin Values
  BY DEF Values
\* No other run's reply can have come in.
<1>16. ResultInv /\ outcome \in Values => resultType = outcome /\ outcome = job[k].answer
  BY <1>1, <1>2 DEF ResultInv, NothingDropped, From, Arrived
<1> HIDE DEF k
<1> DEFINE Same == UNCHANGED <<runs[p], job[k].answer, Returned>>
<1>4. Same => [Call!Next]_Call!vars
  BY <1>1 DEF k
<1>17. UNCHANGED <<outcome, resultType>> => UNCHANGED Returned
  BY DEF Returned
<1>5. CASE Client
  <2>1. /\ UNCHANGED <<runs, job, resultType>>
        /\ outcome' = outcome \/ (outcome = "none" /\ outcome' = "failed")
    BY <1>5 DEF Client, StartRound, SendSlice, GiveUp, Close, ReqSlicerTimeout, providerVars
  <2>2. UNCHANGED Returned \/ (Returned = "none" /\ Returned' = "failed")
    BY <1>15, <1>17, <2>1 DEF Returned
  <2> QED
    BY <1>1, <2>1, <2>2
<1>6. ASSUME HandlerEnds(p, 1)
      PROVE  [Call!Next]_Call!vars
  <2>1. job[k].state = "invoking" /\ UNCHANGED <<runs, Returned>>
    BY <1>3, <1>6, <1>17 DEF HandlerEnds, k, clientVars
  <2>2. job[k].answer = "none" /\ runs[p] = 1
    BY <1>2, <1>3, <2>1 DEF NoJob
  <2>3. job'[k].answer \in Answers
    BY <1>2, <1>6, <2>1 DEF HandlerEnds, k, JobRecord
  <2> QED
    BY <1>1, <2>1, <2>2, <2>3 DEF k
<1>7. ASSUME SendReply(p, 1) \/ SlicerTimeout(p, 1) \/ CannotReply(p, 1)
      PROVE  Same
  BY <1>2, <1>7, <1>17 DEF SendReply, SlicerTimeout, CannotReply, k, clientVars, JobRecord
<1>8. ASSUME NEW m \in net, RecvRepAck(m)
      PROVE  Same
  <2>1. m.job = k
    BY <1>1, <1>8 DEF RecvRepAck, IInv, TypeOK, Message
  <2> QED
    BY <1>2, <1>8, <1>17, <2>1 DEF RecvRepAck, clientVars, JobRecord
<1>9. ASSUME NEW m \in net, RecvRepSlice(m)
      PROVE  [Call!Next]_Call!vars
  <2>1. UNCHANGED <<runs, job>>
    BY <1>9 DEF RecvRepSlice, providerVars
  <2>2. CASE outcome # "none"
    <3>1. outcome' = outcome /\ ResultInv /\ ResultInv'
      BY <1>9, <2>2, RecvRepSliceCall DEF RecvRepSlice, Settled, CallInv
    <3>2. UNCHANGED Returned
      <4>1. CASE outcome \in Values
        <5>1. resultType' = outcome'
          <6>1. NothingDropped'
            BY <1>2, <1>9 DEF NothingDropped, RecvRepSlice, providerVars
          <6>2. \E o \in Jobs : From(o)'
            BY <3>1, <4>1, <6>1 DEF ResultInv
          <6> QED
            BY <1>1, <6>2 DEF From, Arrived
        <5> QED
          BY <1>16, <3>1, <4>1, <5>1 DEF Returned
      <4>2. CASE outcome \notin Values
        BY <3>1, <4>2 DEF Returned
      <4> QED
        BY <4>1, <4>2
    <3> QED
      BY <1>4, <2>1, <3>2
  <2>3. CASE outcome = "none"
    <3>1. /\ m.job = k /\ job[k].answer \in Answers /\ outcome' \in {"none", job[k].answer}
          /\ outcome' = "none" \/ job[k].answer \notin Values \/ resultType' = job[k].answer
      BY <1>1, <1>2, <1>9, <2>3, SettledBy DEF Unsettled
    <3>2. Returned = "none" /\ Returned' \in {"none", job[k].answer} /\ job[k].answer # "none"
      BY <1>15, <2>3, <3>1, AnswersAssumption DEF Returned
    <3> QED
      BY <1>1, <1>4, <2>1, <3>2 DEF k
  <2> QED
    BY <2>2, <2>3
<1>10. ASSUME NEW m \in net, RecvReqSlice(m)
       PROVE  [Call!Next]_Call!vars
  <2>1. m.to = p /\ UNCHANGED Returned
    BY <1>10, <1>17 DEF RecvReqSlice, IInv, TypeOK, Message, clientVars
  <2>2. \/ \E what : StartsRun(p, what)
        \/ /\ current[p] # 0 /\ UNCHANGED runs
           /\ \E r : job' = [job EXCEPT ![<<p, current[p]>>].round = @ \cup r]
        \/ UNCHANGED <<runs, job>>
    BY <1>10, <2>1 DEF RecvReqSlice, IsNew, StartsRun
  <2>3. ASSUME NEW what, StartsRun(p, what)
        PROVE  [Call!Next]_Call!vars
    <3>1. /\ runs[p] = 0 /\ runs'[p] = 1 /\ job[k].answer = "none" /\ <<p, runs[p] + 1>> = k
      BY <1>2, <1>3, <2>3 DEF NoJob, StartsRun, k
    <3>2. job'[k].answer = "none"
      BY <1>2, <2>3, <3>1 DEF StartsRun, NoJob
    <3> QED
      BY <1>1, <2>1, <3>1, <3>2 DEF k
  <2>4. CASE /\ current[p] # 0 /\ UNCHANGED runs
             /\ \E r : job' = [job EXCEPT ![<<p, current[p]>>].round = @ \cup r]
    <3>1. <<p, current[p]>> = k
      BY <1>2, <2>4 DEF k
    <3> QED
      BY <1>2, <1>4, <2>1, <2>4, <3>1 DEF JobRecord
  <2> QED
    BY <1>4, <2>1, <2>2, <2>3, <2>4
<1>11. ASSUME NEW i, RecvReqAck(i)
       PROVE  Same
  BY <1>11, <1>17 DEF RecvReqAck, providerVars
<1>12. ASSUME NEW m, Lose(m)
       PROVE  Same
  BY <1>12, <1>17 DEF Lose, clientVars, providerVars
<1>13. ~EvictInvoker(p) /\ ~EvictBuilder(p)
  BY <1>2 DEF EvictInvoker, EvictBuilder
<1>14. CASE UNCHANGED vars
  BY <1>4, <1>14, <1>17 DEF vars, clientVars, providerVars
<1> HIDE DEF Same
<1> QED
  BY <1>4, <1>5, <1>6, <1>7, <1>8, <1>9, <1>10, <1>11, <1>12, <1>13, <1>14
     DEF Next, Provider, Network

\* One call to one provider that drops no builder and no invoker runs the
\* handler at most once and gives its caller that run's answer, or fails:
\* whatever the network duplicates, delays and loses, in any number of slices.
THEOREM ImplementsCallAlways ==
    ASSUME NEW p, Providers = {p}, MaxEvictions = 0
    PROVE  Spec => ImplementsCall
<1>1. Init => Call!Init
  <2>1. Only = p /\ <<p, 1>> \in Jobs
    BY DEF Only, Jobs
  <2> QED
    BY <2>1 DEF Init, Call!Init, NoJob, Returned, Values
<1>2. IInv /\ CallInv /\ [Next]_vars => [Call!Next]_Call!vars
  BY CallStep
<1> QED
  BY Invariants, <1>1, <1>2, PTL DEF Spec, ImplementsCall, Call!Spec
=============================================================================
