---------------------------- MODULE JigsawProof ----------------------------
(***************************************************************************)
(* That no router is closed with a handler plugged, that requests never    *)
(* meet a closed resolver, and that a closed jigsaw is quiet, for any      *)
(* number of sends and of requests served.                                 *)
(*                                                                         *)
(* The inductive invariant says of every router who has plugs in it, by    *)
(* the phases of the sends, the queries and the handlers (OwnPlugs,        *)
(* PublicPlugs), and of close() what each of its steps has awaited         *)
(* (Order).  That the drain leaves no request alive rests on the count of  *)
(* references (Counted).                                                   *)
(***************************************************************************)
EXTENDS Jigsaw, FiniteSetTheorems, TLAPS

Alive == {s \in Sends : send[s].phase \in {"preloading", "running"}}

Counted == refs = leaked + Cardinality(Alive)

Types ==
    /\ invoker \in {"starting", "ready", "closed"}
    /\ closing \in {"none", "drain", "resolver", "done"}
    /\ leaked \in Nat
    /\ send \in [Sends -> [kind : Kinds, phase : Phases]]
    /\ query \in [Sends -> {"none", "running", "closing"}]
    /\ plugged \in [Routers -> SUBSET Holders]
    /\ life \in {"starting", "ready", "closing", "closed"}
    /\ step \in {"none", "invoker", "updater", "handler", "asserted", "socket", "done"}
    /\ named \in BOOLEAN
    /\ served \in [Served -> {"none", "running", "stuck", "replying", "ended"}]

Own(s) ==
    /\ plugged[s] \subseteq {"request", "notify", s}
    /\ "request" \in plugged[s] <=> send[s].phase = "running"
    /\ "notify" \in plugged[s] <=>
         /\ send[s].kind = "usend"
         /\ send[s].phase \in {"pre", "preloading", "running", "post", "resolver"}
    /\ s \in plugged[s] <=> send[s].kind = "usend" /\ query[s] # "none"
    /\ query[s] # "none" => send[s].phase \notin {"none", "opening", "failed"}
    /\ send[s].phase = "preloading" => query[s] = "running"
    /\ send[s].kind = "usend" /\ query[s] # "none" =>
         send[s].phase \notin {"router", "asserted", "socket", "over"}

OwnPlugs == \A s \in Sends : Own(s)

\* What is plugged into the public router: by the sends,
Asking(s) == s \in plugged[Public] <=> send[s].kind # "usend" /\ query[s] # "none"
AskedPlugs == \A s \in Sends : Asking(s)

\* by the requests served,
ServedPlugs ==
    /\ \A h \in Served : h \in plugged[Public] <=> served[h] = "replying"
    /\ "invoke" \notin plugged[Public] => \A h \in Served : served[h] # "replying"

\* and by the jigsaw.
PublicPlugs ==
    /\ "request" \notin plugged[Public]
    /\ "notify" \in plugged[Public] <=> invoker # "starting" /\ closing \in {"none", "drain"}
    /\ "invoke" \in plugged[Public] <=>
         invoker # "starting" /\ step \in {"none", "invoker", "updater"}
    /\ "purge" \in plugged[Public] => step = "updater"

Order ==
    /\ invoker = "closed" <=> closing = "done"
    /\ closing = "none" <=> life \in {"starting", "ready"}
    /\ closing = "none" <=> step = "none"
    /\ life = "closed" <=> step = "done"
    /\ closing \in {"resolver", "done"} => refs = 0
    /\ step \notin {"none", "invoker"} => closing = "done"
    /\ step \in {"socket", "done"} => \A h \in Served : served[h] \notin {"running", "stuck"}

\* Before the invoker starts it refuses every send,
Early(s) ==
    invoker = "starting" =>
      /\ query[s] = "none"
      /\ send[s].phase \notin {"pre", "preloading", "running", "post"}
      /\ send[s].phase = "opening" => send[s].kind # "call"
NotStarted ==
    /\ invoker = "starting" => life = "starting" /\ \A h \in Served : served[h] = "none"
    /\ \A s \in Sends : Early(s)

\* and it is closed when its resolver has no query left.
Late(s) == closing = "done" /\ send[s].kind # "usend" => query[s] = "none"
NoQueryLeft == \A s \in Sends : Late(s)

Quiet(s) == send[s].phase # "asserted"

IInv ==
    /\ Types /\ Counted
    /\ OwnPlugs /\ AskedPlugs /\ ServedPlugs /\ PublicPlugs
    /\ Order /\ NotStarted /\ NoQueryLeft
    /\ step # "asserted" /\ \A s \in Sends : Quiet(s)

-----------------------------------------------------------------------------
LEMMA AliveFinite == IsFiniteSet(Alive)
  BY SendsAssumption, FS_Subset DEF Alive

LEMMA CountIsNat == ASSUME Types, Counted PROVE refs \in Nat
  BY AliveFinite, FS_CardinalityType DEF Types, Counted

LEMMA NoneAlive == ASSUME Types, Counted, refs = 0 PROVE Alive = {} /\ leaked = 0
  BY AliveFinite, FS_CardinalityType, FS_EmptySet DEF Types, Counted

LEMMA NotDrained ==
  ASSUME IInv, NEW s \in Sends, send[s].phase \in {"preloading", "running"}
  PROVE  closing \in {"none", "drain"}
  BY NoneAlive DEF IInv, Types, Order, Alive

(* The three ways in which the living requests change.                       *)
LEMMA CountSame ==
  ASSUME Counted, Alive' = Alive, UNCHANGED <<refs, leaked>>
  PROVE  Counted'
  BY DEF Counted

LEMMA CountMore ==
  ASSUME Types, Counted, NEW s \in Sends, s \notin Alive, Alive' = Alive \cup {s},
         refs' = refs + 1, leaked' = leaked
  PROVE  Counted'
  <1>1. Cardinality(Alive') = Cardinality(Alive) + 1
    BY AliveFinite, FS_AddElement
  <1>2. Cardinality(Alive) \in Nat
    BY AliveFinite, FS_CardinalityType
  <1>. QED
    BY <1>1, <1>2 DEF Counted, Types

LEMMA CountLess ==
  ASSUME Types, Counted, NEW s \in Sends, s \in Alive, Alive' = Alive \ {s},
         refs' = refs - 1, leaked' = leaked
  PROVE  Counted'
  <1>1. Cardinality(Alive') = Cardinality(Alive) - 1
    BY AliveFinite, FS_RemoveElement
  <1>2. Cardinality(Alive) \in Nat
    BY AliveFinite, FS_CardinalityType
  <1>. QED
    BY <1>1, <1>2 DEF Counted, Types

-----------------------------------------------------------------------------
(* A step of a send changes its own part and no other's.                     *)

\* What the invariant says of one send
Sound(s) == Own(s) /\ Asking(s) /\ Late(s) /\ Early(s) /\ Quiet(s)

Touches(s) ==
    /\ \A o \in Sends \ {s} :
         send'[o] = send[o] /\ query'[o] = query[o] /\ plugged'[o] = plugged[o]
    /\ plugged'[Public] \ {s} = plugged[Public] \ {s}
    /\ UNCHANGED <<invoker, closing, life, step, named, served>>

LEMMA SoundSends == ASSUME IInv, NEW s \in Sends PROVE Sound(s)
  BY DEF IInv, OwnPlugs, AskedPlugs, NoQueryLeft, NotStarted, Sound

LEMMA Touched ==
  ASSUME IInv, NEW s \in Sends, Touches(s), Types', Counted', Sound(s)',
         closing \in {"resolver", "done"} => refs' = 0
  PROVE  IInv'
  <1>. USE SendsAssumption, ServedAssumption DEF Touches
  <1>1. ASSUME NEW o \in Sends, o # s PROVE Sound(o)'
    <2>1. Sound(o) /\ (o \in plugged'[Public] <=> o \in plugged[Public])
      BY <1>1, SoundSends
    <2>. QED
      BY <1>1, <2>1 DEF Sound, Own, Asking, Late, Early, Quiet
  <1>2. \A o \in Sends : Sound(o)'
    BY <1>1
  <1>3. OwnPlugs' /\ AskedPlugs' /\ NoQueryLeft' /\ \A o \in Sends : Early(o)' /\ Quiet(o)'
    BY <1>2 DEF OwnPlugs, AskedPlugs, NoQueryLeft, Sound
  <1>4. \A x \in {"request", "notify", "invoke", "purge"} \cup Served :
          x \in plugged'[Public] <=> x \in plugged[Public]
    BY DEF InvokerHolders, Public
  <1>5. ServedPlugs' /\ PublicPlugs'
    BY <1>4 DEF IInv, ServedPlugs, PublicPlugs
  <1>6. Order' /\ NotStarted' /\ step' # "asserted"
    BY <1>3 DEF IInv, Order, NotStarted
  <1>. QED
    BY <1>3, <1>5, <1>6 DEF IInv

-----------------------------------------------------------------------------
LEMMA BeginStep ==
  ASSUME IInv, NEW s \in Sends, NEW kind \in Kinds, Begin(s, kind),
         UNCHANGED <<life, step, named, served>>
  PROVE  IInv'
  <1>. USE SendsAssumption, ServedAssumption DEF Begin, At
  <1>1. Types'
    BY DEF IInv, Types, Kinds, Phases, Routers, Holders, InvokerHolders, Public
  <1>2. Counted'
    <2>1. Alive' = Alive
      BY DEF IInv, Types, Alive, Kinds, Phases
    <2>. QED
      BY <2>1, CountSame DEF IInv
  <1>3. Touches(s)
    BY DEF IInv, Types, Touches, Routers, Public
  <1>4. Sound(s)'
    BY SoundSends DEF Sound, Own, Asking, Late, Early, Quiet,
       IInv, Types, Order, PublicPlugs, Kinds, Phases, Routers, Public
  <1>. QED
    BY <1>1, <1>2, <1>3, <1>4, Touched DEF IInv, Order

LEMMA OpenedStep ==
  ASSUME IInv, NEW s \in Sends, Opened(s), UNCHANGED <<life, step, named, served>>
  PROVE  IInv'
  <1>. USE SendsAssumption, ServedAssumption DEF Opened, At, GoTo, Plug, AfterAll
  <1>1. Types'
    BY DEF IInv, Types, Kinds, Phases, Routers, Holders, InvokerHolders, Public
  <1>2. Counted'
    <2>1. Alive' = Alive
      BY DEF IInv, Types, Alive, Kinds, Phases
    <2>. QED
      BY <2>1, CountSame DEF IInv
  <1>3. Touches(s)
    BY DEF IInv, Types, Touches, Routers, Public
  <1>4. Sound(s)'
    BY SoundSends DEF Sound, Own, Asking, Late, Early, Quiet,
       IInv, Types, Order, PublicPlugs, Kinds, Phases, Routers, Public
  <1>. QED
    BY <1>1, <1>2, <1>3, <1>4, Touched DEF IInv, Order

LEMMA OpenFailsStep ==
  ASSUME IInv, NEW s \in Sends, OpenFails(s), UNCHANGED <<life, step, named, served>>
  PROVE  IInv'
  <1>. USE SendsAssumption, ServedAssumption DEF OpenFails, At, GoTo
  <1>1. Types'
    BY DEF IInv, Types, Kinds, Phases, Routers, Holders, InvokerHolders, Public
  <1>2. Counted'
    <2>1. Alive' = Alive
      BY DEF IInv, Types, Alive, Kinds, Phases
    <2>. QED
      BY <2>1, CountSame DEF IInv
  <1>3. Touches(s)
    BY DEF IInv, Types, Touches, Routers, Public
  <1>4. Sound(s)'
    BY SoundSends DEF Sound, Own, Asking, Late, Early, Quiet,
       IInv, Types, Order, PublicPlugs, Kinds, Phases, Routers, Public
  <1>. QED
    BY <1>1, <1>2, <1>3, <1>4, Touched DEF IInv, Order

LEMMA PreThrowsStep ==
  ASSUME IInv, NEW s \in Sends, PreThrows(s), UNCHANGED <<life, step, named, served>>
  PROVE  IInv'
  <1>. USE SendsAssumption, ServedAssumption DEF PreThrows, At, GoTo, AfterAll
  <1>1. Types'
    BY DEF IInv, Types, Kinds, Phases, Routers, Holders, InvokerHolders, Public
  <1>2. Counted'
    <2>1. Alive' = Alive
      BY DEF IInv, Types, Alive, Kinds, Phases
    <2>. QED
      BY <2>1, CountSame DEF IInv
  <1>3. Touches(s)
    BY DEF IInv, Types, Touches, Routers, Public
  <1>4. Sound(s)'
    BY SoundSends DEF Sound, Own, Asking, Late, Early, Quiet,
       IInv, Types, Order, PublicPlugs, Kinds, Phases, Routers, Public
  <1>. QED
    BY <1>1, <1>2, <1>3, <1>4, Touched DEF IInv, Order

LEMMA RefusedStep ==
  ASSUME IInv, NEW s \in Sends, Refused(s), UNCHANGED <<life, step, named, served>>
  PROVE  IInv'
  <1>. USE SendsAssumption, ServedAssumption DEF Refused, At, GoTo, AfterRequest
  <1>1. Types'
    BY DEF IInv, Types, Kinds, Phases, Routers, Holders, InvokerHolders, Public
  <1>2. Counted'
    <2>1. Alive' = Alive
      BY DEF IInv, Types, Alive, Kinds, Phases
    <2>. QED
      BY <2>1, CountSame DEF IInv
  <1>3. Touches(s)
    BY DEF IInv, Types, Touches, Routers, Public
  <1>4. Sound(s)'
    BY SoundSends DEF Sound, Own, Asking, Late, Early, Quiet,
       IInv, Types, Order, PublicPlugs, Kinds, Phases, Routers, Public
  <1>. QED
    BY <1>1, <1>2, <1>3, <1>4, Touched DEF IInv, Order

LEMMA LeaksStep ==
  ASSUME IInv, NEW s \in Sends, Leaks(s), UNCHANGED <<life, step, named, served>>
  PROVE  IInv'
  <1>. USE SendsAssumption, ServedAssumption DEF Leaks, At, GoTo, AfterRequest, Waiting
  <1>1. Types'
    BY DEF IInv, Types, Kinds, Phases, Routers, Holders, InvokerHolders, Public
  <1>2. Counted'
    <2>1. Alive' = Alive
      BY DEF IInv, Types, Alive, Kinds, Phases
    <2>. QED
      BY <2>1, AliveFinite, FS_CardinalityType DEF IInv, Counted, Types
  <1>3. Touches(s)
    BY DEF IInv, Types, Touches, Routers, Public
  <1>4. Sound(s)'
    BY SoundSends DEF Sound, Own, Asking, Late, Early, Quiet,
       IInv, Types, Order, PublicPlugs, Kinds, Phases, Routers, Public
  <1>. QED
    BY <1>1, <1>2, <1>3, <1>4, Touched DEF IInv, Order

LEMMA RunAtOnceStep ==
  ASSUME IInv, NEW s \in Sends, RunAtOnce(s), UNCHANGED <<life, step, named, served>>
  PROVE  IInv'
  <1>. USE SendsAssumption, ServedAssumption DEF RunAtOnce, At, GoTo, Plug, Waiting
  <1>1. Types'
    <2>1. send' \in [Sends -> [kind : Kinds, phase : Phases]]
      BY DEF IInv, Types, Kinds, Phases
    <2>2. plugged' \in [Routers -> SUBSET Holders]
      BY DEF IInv, Types, Routers, Holders, InvokerHolders, Public
    <2>. QED
      BY <2>1, <2>2 DEF IInv, Types
  <1>2. Counted'
    <2>1. s \notin Alive /\ Alive' = Alive \cup {s}
      BY DEF IInv, Types, Alive, Kinds, Phases
    <2>. QED
      BY <2>1, CountMore DEF IInv
  <1>3. Touches(s)
    BY DEF IInv, Types, Touches, Routers, Public
  <1>4. Sound(s)'
    BY SoundSends DEF Sound, Own, Asking, Late, Early, Quiet,
       IInv, Types, Order, PublicPlugs, Kinds, Phases, Routers, Public
  <1>. QED
    BY <1>1, <1>2, <1>3, <1>4, Touched DEF IInv, Order

LEMMA PreloadStep ==
  ASSUME IInv, NEW s \in Sends, Preload(s), UNCHANGED <<life, step, named, served>>
  PROVE  IInv'
  <1>. USE SendsAssumption, ServedAssumption DEF Preload, At, GoTo, Plug, AsksOver, Waiting
  <1>1. Types'
    BY DEF IInv, Types, Kinds, Phases, Routers, Holders, InvokerHolders, Public
  <1>2. Counted'
    <2>1. s \notin Alive /\ Alive' = Alive \cup {s}
      BY DEF IInv, Types, Alive, Kinds, Phases
    <2>. QED
      BY <2>1, CountMore DEF IInv
  <1>3. Touches(s)
    BY DEF IInv, Types, Touches, Routers, Public
  <1>4. Sound(s)'
    BY SoundSends DEF Sound, Own, Asking, Late, Early, Quiet,
       IInv, Types, Order, PublicPlugs, Kinds, Phases, Routers, Public
  <1>. QED
    BY <1>1, <1>2, <1>3, <1>4, Touched DEF IInv, Order

LEMMA PreloadedStep ==
  ASSUME IInv, NEW s \in Sends, Preloaded(s), UNCHANGED <<life, step, named, served>>
  PROVE  IInv'
  <1>. USE SendsAssumption, ServedAssumption DEF Preloaded, At, GoTo, Plug
  <1>0. closing \in {"none", "drain"}
    BY NotDrained
  <1>1. Types'
    BY DEF IInv, Types, Kinds, Phases, Routers, Holders, InvokerHolders, Public
  <1>2. Counted'
    <2>1. Alive' = Alive
      BY DEF IInv, Types, Alive, Kinds, Phases
    <2>. QED
      BY <2>1, CountSame DEF IInv
  <1>3. Touches(s)
    BY DEF IInv, Types, Touches, Routers, Public
  <1>4. Sound(s)'
    BY <1>0, SoundSends DEF Sound, Own, Asking, Late, Early, Quiet,
       IInv, Types, Order, PublicPlugs, Kinds, Phases, Routers, Public
  <1>. QED
    BY <1>0, <1>1, <1>2, <1>3, <1>4, Touched DEF IInv, Order

LEMMA DiesStartingStep ==
  ASSUME IInv, NEW s \in Sends, DiesStarting(s), UNCHANGED <<life, step, named, served>>
  PROVE  IInv'
  <1>. USE SendsAssumption, ServedAssumption DEF DiesStarting, At, GoTo, AfterRequest
  <1>0. closing \in {"none", "drain"}
    BY NotDrained
  <1>1. Types'
    BY DEF IInv, Types, Kinds, Phases, Routers, Holders, InvokerHolders, Public
  <1>2. Counted'
    <2>1. s \in Alive /\ Alive' = Alive \ {s}
      BY DEF IInv, Types, Alive, Kinds, Phases
    <2>. QED
      BY <2>1, CountLess DEF IInv
  <1>3. Touches(s)
    BY DEF IInv, Types, Touches, Routers, Public
  <1>4. Sound(s)'
    BY <1>0, SoundSends DEF Sound, Own, Asking, Late, Early, Quiet,
       IInv, Types, Order, PublicPlugs, Kinds, Phases, Routers, Public
  <1>. QED
    BY <1>0, <1>1, <1>2, <1>3, <1>4, Touched DEF IInv, Order

LEMMA AsksAgainStep ==
  ASSUME IInv, NEW s \in Sends, AsksAgain(s), UNCHANGED <<life, step, named, served>>
  PROVE  IInv'
  <1>. USE SendsAssumption, ServedAssumption DEF AsksAgain, At, Plug, AsksOver
  <1>0. closing \in {"none", "drain"}
    BY NotDrained
  <1>1. Types'
    BY DEF IInv, Types, Kinds, Phases, Routers, Holders, InvokerHolders, Public
  <1>2. Counted'
    <2>1. Alive' = Alive
      BY DEF IInv, Types, Alive, Kinds, Phases
    <2>. QED
      BY <2>1, CountSame DEF IInv
  <1>3. Touches(s)
    BY DEF IInv, Types, Touches, Routers, Public
  <1>4. Sound(s)'
    BY <1>0, SoundSends DEF Sound, Own, Asking, Late, Early, Quiet,
       IInv, Types, Order, PublicPlugs, Kinds, Phases, Routers, Public
  <1>. QED
    BY <1>0, <1>1, <1>2, <1>3, <1>4, Touched DEF IInv, Order

LEMMA AnsweredStep ==
  ASSUME IInv, NEW s \in Sends, Answered(s), UNCHANGED <<life, step, named, served>>
  PROVE  IInv'
  <1>. USE SendsAssumption, ServedAssumption DEF Answered, At
  <1>1. Types'
    BY DEF IInv, Types, Kinds, Phases, Routers, Holders, InvokerHolders, Public
  <1>2. Counted'
    <2>1. Alive' = Alive
      BY DEF IInv, Types, Alive, Kinds, Phases
    <2>. QED
      BY <2>1, CountSame DEF IInv
  <1>3. Touches(s)
    BY DEF IInv, Types, Touches, Routers, Public
  <1>4. Sound(s)'
    BY SoundSends DEF Sound, Own, Asking, Late, Early, Quiet,
       IInv, Types, Order, PublicPlugs, Kinds, Phases, Routers, Public
  <1>. QED
    BY <1>1, <1>2, <1>3, <1>4, Touched DEF IInv, Order

LEMMA QueryClosesStep ==
  ASSUME IInv, NEW s \in Sends, QueryCloses(s), UNCHANGED <<life, step, named, served>>
  PROVE  IInv'
  <1>. USE SendsAssumption, ServedAssumption DEF QueryCloses, Unplug, AsksOver
  <1>1. Types'
    BY DEF IInv, Types, Kinds, Phases, Routers, Holders, InvokerHolders, Public
  <1>2. Counted'
    <2>1. Alive' = Alive
      BY DEF IInv, Types, Alive, Kinds, Phases
    <2>. QED
      BY <2>1, CountSame DEF IInv
  <1>3. Touches(s)
    BY DEF IInv, Types, Touches, Routers, Public
  <1>4. Sound(s)'
    BY SoundSends DEF Sound, Own, Asking, Late, Early, Quiet,
       IInv, Types, Order, PublicPlugs, Kinds, Phases, Routers, Public
  <1>. QED
    BY <1>1, <1>2, <1>3, <1>4, Touched DEF IInv, Order

LEMMA RequestEndsStep ==
  ASSUME IInv, NEW s \in Sends, RequestEnds(s), UNCHANGED <<life, step, named, served>>
  PROVE  IInv'
  <1>. USE SendsAssumption, ServedAssumption DEF RequestEnds, At, GoTo, Unplug, AfterRequest
  <1>0. closing \in {"none", "drain"}
    BY NotDrained
  <1>1. Types'
    BY DEF IInv, Types, Kinds, Phases, Routers, Holders, InvokerHolders, Public
  <1>2. Counted'
    <2>1. s \in Alive /\ Alive' = Alive \ {s}
      BY DEF IInv, Types, Alive, Kinds, Phases
    <2>. QED
      BY <2>1, CountLess DEF IInv
  <1>3. Touches(s)
    BY DEF IInv, Types, Touches, Routers, Public
  <1>4. Sound(s)'
    BY <1>0, SoundSends DEF Sound, Own, Asking, Late, Early, Quiet,
       IInv, Types, Order, PublicPlugs, Kinds, Phases, Routers, Public
  <1>. QED
    BY <1>0, <1>1, <1>2, <1>3, <1>4, Touched DEF IInv, Order

LEMMA PostEndsStep ==
  ASSUME IInv, NEW s \in Sends, PostEnds(s), UNCHANGED <<life, step, named, served>>
  PROVE  IInv'
  <1>. USE SendsAssumption, ServedAssumption DEF PostEnds, At, GoTo, AfterAll
  <1>1. Types'
    BY DEF IInv, Types, Kinds, Phases, Routers, Holders, InvokerHolders, Public
  <1>2. Counted'
    <2>1. Alive' = Alive
      BY DEF IInv, Types, Alive, Kinds, Phases
    <2>. QED
      BY <2>1, CountSame DEF IInv
  <1>3. Touches(s)
    BY DEF IInv, Types, Touches, Routers, Public
  <1>4. Sound(s)'
    BY SoundSends DEF Sound, Own, Asking, Late, Early, Quiet,
       IInv, Types, Order, PublicPlugs, Kinds, Phases, Routers, Public
  <1>. QED
    BY <1>1, <1>2, <1>3, <1>4, Touched DEF IInv, Order

LEMMA ResolverClosesStep ==
  ASSUME IInv, NEW s \in Sends, ResolverCloses(s), UNCHANGED <<life, step, named, served>>
  PROVE  IInv'
  <1>. USE SendsAssumption, ServedAssumption DEF ResolverCloses, At, GoTo, Unplug
  <1>1. Types'
    BY DEF IInv, Types, Kinds, Phases, Routers, Holders, InvokerHolders, Public
  <1>2. Counted'
    <2>1. Alive' = Alive
      BY DEF IInv, Types, Alive, Kinds, Phases
    <2>. QED
      BY <2>1, CountSame DEF IInv
  <1>3. Touches(s)
    BY DEF IInv, Types, Touches, Routers, Public
  <1>4. Sound(s)'
    BY SoundSends DEF Sound, Own, Asking, Late, Early, Quiet,
       IInv, Types, Order, PublicPlugs, Kinds, Phases, Routers, Public
  <1>. QED
    BY <1>1, <1>2, <1>3, <1>4, Touched DEF IInv, Order

LEMMA RouterClosesStep ==
  ASSUME IInv, NEW s \in Sends, RouterCloses(s), UNCHANGED <<life, step, named, served>>
  PROVE  IInv'
  <1>. USE SendsAssumption, ServedAssumption DEF RouterCloses, At, GoTo
  <1>1. Types'
    BY DEF IInv, Types, Kinds, Phases, Routers, Holders, InvokerHolders, Public
  <1>2. Counted'
    <2>1. Alive' = Alive
      BY DEF IInv, Types, Alive, Kinds, Phases
    <2>. QED
      BY <2>1, CountSame DEF IInv
  <1>3. Touches(s)
    BY DEF IInv, Types, Touches, Routers, Public
  <1>4. Sound(s)'
    BY SoundSends DEF Sound, Own, Asking, Late, Early, Quiet,
       IInv, Types, Order, PublicPlugs, Kinds, Phases, Routers, Public
  <1>. QED
    BY <1>1, <1>2, <1>3, <1>4, Touched DEF IInv, Order

LEMMA SocketClosesStep ==
  ASSUME IInv, NEW s \in Sends, SocketCloses(s), UNCHANGED <<life, step, named, served>>
  PROVE  IInv'
  <1>. USE SendsAssumption, ServedAssumption DEF SocketCloses, At, GoTo
  <1>1. Types'
    BY DEF IInv, Types, Kinds, Phases, Routers, Holders, InvokerHolders, Public
  <1>2. Counted'
    <2>1. Alive' = Alive
      BY DEF IInv, Types, Alive, Kinds, Phases
    <2>. QED
      BY <2>1, CountSame DEF IInv
  <1>3. Touches(s)
    BY DEF IInv, Types, Touches, Routers, Public
  <1>4. Sound(s)'
    BY SoundSends DEF Sound, Own, Asking, Late, Early, Quiet,
       IInv, Types, Order, PublicPlugs, Kinds, Phases, Routers, Public
  <1>. QED
    BY <1>1, <1>2, <1>3, <1>4, Touched DEF IInv, Order

-----------------------------------------------------------------------------
(* A step of the jigsaw's leaves the sends, their queries and plugs alone.    *)

Spares ==
    /\ UNCHANGED <<refs, leaked, send, query>>
    /\ \A o \in Sends : /\ plugged'[o] = plugged[o]
                        /\ o \in plugged'[Public] <=> o \in plugged[Public]

LEMMA Spared ==
  ASSUME IInv, Spares,
         closing' = "done" =>
           closing = "done" \/ \A s \in Sends : AsksOver(s) = Public => query[s] = "none",
         invoker' = "starting" => invoker = "starting"
  PROVE  Counted' /\ \A s \in Sends : Sound(s)'
  <1>. USE DEF Spares
  <1>1. Counted'
    BY CountSame DEF IInv, Alive
  <1>2. ASSUME NEW s \in Sends PROVE Sound(s)'
    BY <1>2, SoundSends DEF Sound, Own, Asking, Late, Early, Quiet, AsksOver
  <1>. QED
    BY <1>1, <1>2

LEMMA Closes ==
  ASSUME Types', Counted', \A s \in Sends : Sound(s)', ServedPlugs', PublicPlugs', Order',
         step' # "asserted",
         invoker' = "starting" => life' = "starting" /\ \A h \in Served : served'[h] = "none"
  PROVE  IInv'
  BY DEF IInv, OwnPlugs, AskedPlugs, NoQueryLeft, NotStarted, Sound

LEMMA StartsStep ==
  ASSUME IInv, Starts PROVE IInv'
  <1>. USE SendsAssumption, ServedAssumption DEF Starts, Start
  <1>1. Types'
    BY DEF IInv, Types, Routers, Holders, InvokerHolders, Public
  <1>2. Counted' /\ \A s \in Sends : Sound(s)'
    <2>1. Spares
      BY DEF IInv, Types, Spares, AskedPlugs, Asking, NotStarted, Early, Routers,
             InvokerHolders, Public
    <2>. QED
      BY <2>1, Spared
  <1>3. ServedPlugs' /\ PublicPlugs'
    BY DEF IInv, Types, ServedPlugs, PublicPlugs, Order, NotStarted, Routers, InvokerHolders, Public
  <1>4. Order'
    BY DEF IInv, Types, Order, NotStarted, PublicPlugs
  <1>. QED
    BY <1>1, <1>2, <1>3, <1>4, Closes DEF IInv, Types, NotStarted, PublicPlugs

LEMMA ReadyStep ==
  ASSUME IInv, Ready PROVE IInv'
  <1>. USE SendsAssumption, ServedAssumption DEF Ready, invokerVars
  <1>1. Types'
    BY DEF IInv, Types, Routers, Holders, InvokerHolders, Public
  <1>2. Counted' /\ \A s \in Sends : Sound(s)'
    BY Spared DEF Spares
  <1>3. ServedPlugs' /\ PublicPlugs'
    BY DEF IInv, Types, ServedPlugs, PublicPlugs, Order, NotStarted, Routers, InvokerHolders, Public
  <1>4. Order'
    BY DEF IInv, Types, Order, NotStarted, PublicPlugs
  <1>. QED
    BY <1>1, <1>2, <1>3, <1>4, Closes DEF IInv, Types, NotStarted, PublicPlugs

LEMMA CloseCalledStep ==
  ASSUME IInv, CloseCalled PROVE IInv'
  <1>. USE SendsAssumption, ServedAssumption DEF CloseCalled, Close, Drain
  <1>1. Types'
    BY DEF IInv, Types, Routers, Holders, InvokerHolders, Public
  <1>2. Counted' /\ \A s \in Sends : Sound(s)'
    BY Spared DEF Spares
  <1>3. ServedPlugs' /\ PublicPlugs'
    BY DEF IInv, Types, ServedPlugs, PublicPlugs, Order, NotStarted, Routers, InvokerHolders, Public
  <1>4. Order'
    BY DEF IInv, Types, Order, NotStarted, PublicPlugs
  <1>. QED
    BY <1>1, <1>2, <1>3, <1>4, Closes DEF IInv, Types, NotStarted, PublicPlugs

LEMMA ServeStep ==
  ASSUME IInv, NEW h \in Served, Serve(h) PROVE IInv'
  <1>. USE SendsAssumption, ServedAssumption DEF Serve, invokerVars
  <1>1. Types'
    BY DEF IInv, Types, Routers, Holders, InvokerHolders, Public
  <1>2. Counted' /\ \A s \in Sends : Sound(s)'
    BY Spared DEF Spares
  <1>3. ServedPlugs' /\ PublicPlugs'
    BY DEF IInv, Types, ServedPlugs, PublicPlugs, Order, NotStarted, Routers, InvokerHolders, Public
  <1>4. Order'
    BY DEF IInv, Types, Order, NotStarted, PublicPlugs
  <1>. QED
    BY <1>1, <1>2, <1>3, <1>4, Closes DEF IInv, Types, NotStarted, PublicPlugs

LEMMA AwaitsCloseStep ==
  ASSUME IInv, NEW h \in Served, AwaitsClose(h) PROVE IInv'
  <1>. USE SendsAssumption, ServedAssumption DEF AwaitsClose, Close, Drain
  <1>1. Types'
    BY DEF IInv, Types, Routers, Holders, InvokerHolders, Public
  <1>2. Counted' /\ \A s \in Sends : Sound(s)'
    BY Spared DEF Spares
  <1>3. ServedPlugs' /\ PublicPlugs'
    BY DEF IInv, Types, ServedPlugs, PublicPlugs, Order, NotStarted, Routers, InvokerHolders, Public
  <1>4. Order'
    BY DEF IInv, Types, Order, NotStarted, PublicPlugs
  <1>. QED
    BY <1>1, <1>2, <1>3, <1>4, Closes DEF IInv, Types, NotStarted, PublicPlugs

LEMMA CannotReplyStep ==
  ASSUME IInv, NEW h \in Served, CannotReply(h) PROVE IInv'
  <1>. USE SendsAssumption, ServedAssumption DEF CannotReply, invokerVars
  <1>1. Types'
    BY DEF IInv, Types, Routers, Holders, InvokerHolders, Public
  <1>2. Counted' /\ \A s \in Sends : Sound(s)'
    BY Spared DEF Spares
  <1>3. ServedPlugs' /\ PublicPlugs'
    BY DEF IInv, Types, ServedPlugs, PublicPlugs, Order, NotStarted, Routers, InvokerHolders, Public
  <1>4. Order'
    BY DEF IInv, Types, Order, NotStarted, PublicPlugs
  <1>. QED
    BY <1>1, <1>2, <1>3, <1>4, Closes DEF IInv, Types, NotStarted, PublicPlugs

LEMMA HandlerEndsStep ==
  ASSUME IInv, NEW h \in Served, HandlerEnds(h) PROVE IInv'
  <1>. USE SendsAssumption, ServedAssumption DEF HandlerEnds, Plug
  <1>1. Types'
    BY DEF IInv, Types, Routers, Holders, InvokerHolders, Public
  <1>2. Counted' /\ \A s \in Sends : Sound(s)'
    <2>1. Spares
      BY DEF IInv, Types, Spares, Routers, InvokerHolders, Public
    <2>. QED
      BY <2>1, Spared
  <1>3. ServedPlugs' /\ PublicPlugs'
    BY DEF IInv, Types, ServedPlugs, PublicPlugs, Order, NotStarted, Routers, InvokerHolders, Public
  <1>4. Order'
    BY DEF IInv, Types, Order, NotStarted, PublicPlugs
  <1>. QED
    BY <1>1, <1>2, <1>3, <1>4, Closes DEF IInv, Types, NotStarted, PublicPlugs

LEMMA AcknowledgedStep ==
  ASSUME IInv, NEW h \in Served, Acknowledged(h) PROVE IInv'
  <1>. USE SendsAssumption, ServedAssumption DEF Acknowledged, Unplug
  <1>1. Types'
    BY DEF IInv, Types, Routers, Holders, InvokerHolders, Public
  <1>2. Counted' /\ \A s \in Sends : Sound(s)'
    <2>1. Spares
      BY DEF IInv, Types, Spares, Routers, InvokerHolders, Public
    <2>. QED
      BY <2>1, Spared
  <1>3. ServedPlugs' /\ PublicPlugs'
    BY DEF IInv, Types, ServedPlugs, PublicPlugs, Order, NotStarted, Routers, InvokerHolders, Public
  <1>4. Order'
    BY DEF IInv, Types, Order, NotStarted, PublicPlugs
  <1>. QED
    BY <1>1, <1>2, <1>3, <1>4, Closes DEF IInv, Types, NotStarted, PublicPlugs

LEMMA CloseResolverStep ==
  ASSUME IInv, CloseResolver, UNCHANGED <<life, step, named, served>> PROVE IInv'
  <1>. USE SendsAssumption, ServedAssumption DEF CloseResolver, Unplug
  <1>1. Types'
    BY DEF IInv, Types, Routers, Holders, InvokerHolders, Public
  <1>2. Counted' /\ \A s \in Sends : Sound(s)'
    <2>1. Spares
      BY DEF IInv, Types, Spares, Routers, InvokerHolders, Public
    <2>. QED
      BY <2>1, Spared
  <1>3. ServedPlugs' /\ PublicPlugs'
    BY DEF IInv, Types, ServedPlugs, PublicPlugs, Order, NotStarted, Routers, InvokerHolders, Public
  <1>4. Order'
    BY DEF IInv, Types, Order, NotStarted, PublicPlugs
  <1>. QED
    BY <1>1, <1>2, <1>3, <1>4, Closes DEF IInv, Types, NotStarted, PublicPlugs

LEMMA InvokerClosesStep ==
  ASSUME IInv, InvokerCloses, UNCHANGED <<life, step, named, served>> PROVE IInv'
  <1>. USE SendsAssumption, ServedAssumption DEF InvokerCloses
  <1>1. Types'
    BY DEF IInv, Types, Routers, Holders, InvokerHolders, Public
  <1>2. Counted' /\ \A s \in Sends : Sound(s)'
    BY Spared DEF Spares
  <1>3. ServedPlugs' /\ PublicPlugs'
    BY DEF IInv, Types, ServedPlugs, PublicPlugs, Order, NotStarted, Routers, InvokerHolders, Public
  <1>4. Order'
    BY DEF IInv, Types, Order, NotStarted, PublicPlugs
  <1>. QED
    BY <1>1, <1>2, <1>3, <1>4, Closes DEF IInv, Types, NotStarted, PublicPlugs

LEMMA UpdaterClosesStep ==
  ASSUME IInv, UpdaterCloses PROVE IInv'
  <1>. USE SendsAssumption, ServedAssumption DEF UpdaterCloses, Plug
  <1>1. Types'
    BY DEF IInv, Types, Routers, Holders, InvokerHolders, Public
  <1>2. Counted' /\ \A s \in Sends : Sound(s)'
    <2>1. Spares
      BY DEF IInv, Types, Spares, Routers, InvokerHolders, Public
    <2>. QED
      BY <2>1, Spared
  <1>3. ServedPlugs' /\ PublicPlugs'
    BY DEF IInv, Types, ServedPlugs, PublicPlugs, Order, NotStarted, Routers, InvokerHolders, Public
  <1>4. Order'
    BY DEF IInv, Types, Order, NotStarted, PublicPlugs
  <1>. QED
    BY <1>1, <1>2, <1>3, <1>4, Closes DEF IInv, Types, NotStarted, PublicPlugs

LEMMA PurgeEndsStep ==
  ASSUME IInv, PurgeEnds PROVE IInv'
  <1>. USE SendsAssumption, ServedAssumption DEF PurgeEnds, Unplug
  <1>1. Types'
    BY DEF IInv, Types, Routers, Holders, InvokerHolders, Public
  <1>2. Counted' /\ \A s \in Sends : Sound(s)'
    <2>1. Spares
      BY DEF IInv, Types, Spares, Routers, InvokerHolders, Public
    <2>. QED
      BY <2>1, Spared
  <1>3. ServedPlugs' /\ PublicPlugs'
    BY DEF IInv, Types, ServedPlugs, PublicPlugs, Order, NotStarted, Routers, InvokerHolders, Public
  <1>4. Order'
    BY DEF IInv, Types, Order, NotStarted, PublicPlugs
  <1>. QED
    BY <1>1, <1>2, <1>3, <1>4, Closes DEF IInv, Types, NotStarted, PublicPlugs

LEMMA HandlerClosesStep ==
  ASSUME IInv, HandlerCloses PROVE IInv'
  <1>. USE SendsAssumption, ServedAssumption DEF HandlerCloses, Replying
  <1>1. Types'
    BY DEF IInv, Types, Routers, Holders, InvokerHolders, Public
  <1>2. Counted' /\ \A s \in Sends : Sound(s)'
    <2>1. Spares
      BY DEF IInv, Types, Spares, Routers, InvokerHolders, Public
    <2>. QED
      BY <2>1, Spared
  <1>3. ServedPlugs' /\ PublicPlugs'
    BY DEF IInv, Types, ServedPlugs, PublicPlugs, Order, NotStarted, Routers, InvokerHolders, Public
  <1>4. Order'
    BY DEF IInv, Types, Order, NotStarted, PublicPlugs
  <1>. QED
    BY <1>1, <1>2, <1>3, <1>4, Closes DEF IInv, Types, NotStarted, PublicPlugs

LEMMA PublicRouterClosesStep ==
  ASSUME IInv, PublicRouterCloses PROVE IInv'
  <1>. USE SendsAssumption, ServedAssumption DEF PublicRouterCloses, invokerVars
  <1>1. Types'
    BY DEF IInv, Types, Routers, Holders, InvokerHolders, Public
  <1>2. Counted' /\ \A s \in Sends : Sound(s)'
    BY Spared DEF Spares
  <1>3. ServedPlugs' /\ PublicPlugs'
    BY DEF IInv, Types, ServedPlugs, PublicPlugs, Order, NotStarted, Routers, InvokerHolders, Public
  <1>4. Order'
    BY DEF IInv, Types, Order, NotStarted, PublicPlugs
  <1>5. plugged[Public] = {}
    BY DEF IInv, Types, Order, AskedPlugs, Asking, NoQueryLeft, Late, ServedPlugs, PublicPlugs, Routers,
           Holders, InvokerHolders, Public
  <1>. QED
    BY <1>1, <1>2, <1>3, <1>4, <1>5, Closes DEF IInv, NotStarted, PublicPlugs

LEMMA ClosedStep ==
  ASSUME IInv, Closed PROVE IInv'
  <1>. USE SendsAssumption, ServedAssumption DEF Closed, invokerVars
  <1>1. Types'
    BY DEF IInv, Types, Routers, Holders, InvokerHolders, Public
  <1>2. Counted' /\ \A s \in Sends : Sound(s)'
    BY Spared DEF Spares
  <1>3. ServedPlugs' /\ PublicPlugs'
    BY DEF IInv, Types, ServedPlugs, PublicPlugs, Order, NotStarted, Routers, InvokerHolders, Public
  <1>4. Order'
    BY DEF IInv, Types, Order, NotStarted, PublicPlugs
  <1>. QED
    BY <1>1, <1>2, <1>3, <1>4, Closes DEF IInv, Types, NotStarted, Order

-----------------------------------------------------------------------------
LEMMA InitHolds == Init => IInv
  <1>. SUFFICES ASSUME Init PROVE IInv
    OBVIOUS
  <1>. USE SendsAssumption, ServedAssumption DEF Init, InvokerInit
  <1>1. Types /\ refs = 0 /\ leaked = 0
    BY DEF Types, Kinds, Phases, Routers
  <1>2. Counted
    <2>1. Alive = {}
      BY DEF Alive
    <2>. QED
      BY <1>1, <2>1, FS_EmptySet DEF Counted
  <1>3. OwnPlugs /\ AskedPlugs /\ ServedPlugs /\ PublicPlugs
    BY DEF OwnPlugs, Own, AskedPlugs, Asking, ServedPlugs, PublicPlugs, Routers
  <1>4. Order /\ NotStarted /\ NoQueryLeft
    BY DEF Order, NotStarted, Early, NoQueryLeft, Late
  <1>5. step # "asserted" /\ \A s \in Sends : Quiet(s)
    BY DEF Quiet
  <1>. QED
    BY <1>1, <1>2, <1>3, <1>4, <1>5 DEF IInv

LEMMA SendStep ==
  ASSUME IInv, NEW s \in Sends, SendNext(s), UNCHANGED <<life, step, named, served>>
  PROVE  IInv'
  BY BeginStep, OpenedStep, OpenFailsStep, PreThrowsStep, RefusedStep, LeaksStep, RunAtOnceStep,
     PreloadStep, PreloadedStep, DiesStartingStep, AsksAgainStep, AnsweredStep, QueryClosesStep,
     RequestEndsStep, PostEndsStep, ResolverClosesStep, RouterClosesStep, SocketClosesStep
  DEF SendNext, Requests

LEMMA StepHolds == IInv /\ [Next]_vars => IInv'
  <1>. SUFFICES ASSUME IInv, [Next]_vars PROVE IInv'
    OBVIOUS
  <1>1. ASSUME NEW s \in Sends, Invokes(SendNext(s)) PROVE IInv'
    BY <1>1, SendStep DEF Invokes
  <1>2. ASSUME NEW h \in Served,
               Serve(h) \/ AwaitsClose(h) \/ CannotReply(h) \/ HandlerEnds(h) \/ Acknowledged(h)
        PROVE  IInv'
    BY <1>2, ServeStep, AwaitsCloseStep, CannotReplyStep, HandlerEndsStep, AcknowledgedStep
  <1>3. CASE Invokes(CloseResolver) \/ Invokes(InvokerCloses)
    BY <1>3, CloseResolverStep, InvokerClosesStep DEF Invokes
  <1>4. CASE Starts \/ Ready \/ CloseCalled
    BY <1>4, StartsStep, ReadyStep, CloseCalledStep
  <1>5. CASE UpdaterCloses \/ PurgeEnds \/ HandlerCloses \/ PublicRouterCloses \/ Closed
    BY <1>5, UpdaterClosesStep, PurgeEndsStep, HandlerClosesStep, PublicRouterClosesStep, ClosedStep
  <1>6. CASE UNCHANGED vars
    BY <1>6 DEF vars, invokerVars, IInv, Types, Counted, Alive, OwnPlugs, Own, AskedPlugs, Asking,
                ServedPlugs, PublicPlugs, Order, NotStarted, Early, NoQueryLeft, Late, Quiet
  <1>. QED
    BY <1>1, <1>2, <1>3, <1>4, <1>5, <1>6 DEF Next

THEOREM Invariant == Spec => []IInv
  BY InitHolds, StepHolds, PTL DEF Spec

-----------------------------------------------------------------------------
(* The state of a jigsaw is well formed; its references, which are one for   *)
(* each living request and one for each that was counted and never made,     *)
(* never fall below 0 (AsyncReference.ts).                                    *)
THEOREM TypeCorrect == Spec => []TypeOK
  <1>1. IInv => TypeOK
    BY CountIsNat DEF IInv, Types, TypeOK, InvokerTypeOK
  <1>. QED
    BY <1>1, Invariant, PTL

(* No router is closed while a handler is plugged into it: neither a send's  *)
(* nor the public one (AbstractPacketRouter.ts, assert in close()).          *)
THEOREM RoutersQuietAlways == Spec => []RoutersQuiet
  <1>1. IInv => RoutersQuiet
    BY DEF IInv, RoutersQuiet, Quiet, At
  <1>. QED
    BY <1>1, Invariant, PTL

(* The resolver outlives the requests that ask it: close() drains them       *)
(* before it closes the resolver (SimpleInvoker.ts, close()).                *)
THEOREM ResolverOpenAlways == Spec => []ResolverOpen
  <1>1. ASSUME IInv PROVE ResolverOpen
    <2>. SUFFICES ASSUME NEW s \in Sends, send[s].phase \in {"preloading", "running"},
                         send[s].kind = "send"
                  PROVE  closing \in {"none", "drain"} /\ "notify" \in plugged[Public]
      BY DEF ResolverOpen
    <2>1. closing \in {"none", "drain"}
      BY <1>1, NotDrained
    <2>2. invoker # "starting"
      BY <1>1 DEF IInv, NotStarted, Early
    <2>. QED
      BY <1>1, <2>1, <2>2 DEF IInv, PublicPlugs
  <1>. QED
    BY <1>1, Invariant, PTL

(* When close() of a jigsaw has returned, no request is being served and     *)
(* none of its own is under way (SimpleJigsaw.ts, close()).                   *)
THEOREM ClosedIsQuietAlways == Spec => []ClosedIsQuiet
  <1>1. ASSUME IInv PROVE ClosedIsQuiet
    <2>. SUFFICES ASSUME life = "closed"
                  PROVE  /\ \A h \in Served : served[h] \in {"none", "ended"}
                         /\ \A s \in Sends : send[s].phase \notin {"preloading", "running"}
      BY DEF ClosedIsQuiet
    <2>1. step = "done" /\ closing = "done" /\ Alive = {}
      BY <1>1, NoneAlive DEF IInv, Order
    <2>. QED
      BY <1>1, <2>1 DEF IInv, Types, Order, Alive, ServedPlugs, PublicPlugs
  <1>. QED
    BY <1>1, Invariant, PTL

-----------------------------------------------------------------------------
(* What close() waits for *)

\* The invoker's close() waits for a request, of the resolver for a query,
DrainHasWork ==
    closing = "drain" /\ refs # 0 /\ leaked = 0 =>
      \E s \in Sends :
        \/ At(s, "preloading") /\ query[s] = "running"
        \/ At(s, "running")

ResolverHasWork ==
    closing = "resolver" =>
      \/ \A s \in Sends : AsksOver(s) = Public => query[s] = "none"
      \/ \E s \in Sends :
           \/ query[s] = "closing"
           \/ query[s] = "running" /\ ~At(s, "preloading")

\* and the jigsaw's for the invoker, its own steps and the handlers.
CloseHasWork ==
    life = "closing" =>
      \/ step = "invoker" /\ closing # "none" /\ DrainHasWork /\ ResolverHasWork
      \/ step \in {"updater", "socket"} /\ closing = "done"
      \/ step = "handler" /\ \A h \in Served : served[h] # "replying"

(* close() of a jigsaw never waits for what nobody gives back: unless a       *)
(* reference has leaked, a drain waits for a request that runs or whose query *)
(* does, the resolver for a query that no preload waits for, and the invoke   *)
(* handler for handlers, never for a reply's acknowledgement (SimpleJigsaw.ts *)
(* and SimpleInvoker.ts, close()).                                            *)
THEOREM CloseHasWorkAlways == Spec => []CloseHasWork
  <1>1. ASSUME IInv PROVE DrainHasWork
    <2>. SUFFICES ASSUME closing = "drain", refs # 0, leaked = 0
                  PROVE  \E s \in Alive : At(s, "preloading") => query[s] = "running"
      BY DEF DrainHasWork, Alive, At
    <2>1. Cardinality(Alive) # 0
      BY <1>1, AliveFinite, FS_CardinalityType DEF IInv, Counted
    <2>2. Alive # {}
      BY <2>1, FS_EmptySet
    <2>. QED
      BY <1>1, <2>2 DEF IInv, OwnPlugs, Own, Alive, At
  <1>2. ASSUME IInv PROVE ResolverHasWork
    <2>1. ASSUME closing = "resolver", NEW s \in Sends PROVE ~At(s, "preloading")
      BY <1>2, <2>1, NotDrained DEF At
    <2>. QED
      BY <1>2, <2>1 DEF ResolverHasWork, IInv, Types
  <1>3. ASSUME IInv, life = "closing"
        PROVE  step \in {"invoker", "updater", "handler", "socket"} /\ closing # "none"
    BY <1>3 DEF IInv, Types, Order
  <1>4. ASSUME IInv, step = "handler" PROVE \A h \in Served : served[h] # "replying"
    BY <1>4 DEF IInv, ServedPlugs, PublicPlugs
  <1>5. ASSUME IInv, step \in {"updater", "socket"} PROVE closing = "done"
    BY <1>5 DEF IInv, Order
  <1>6. IInv => CloseHasWork
    BY <1>1, <1>2, <1>3, <1>4, <1>5, Zenon DEF CloseHasWork
  <1>. QED
    BY <1>6, Invariant, PTL
=============================================================================
