------------------------------ MODULE WorkFlow ------------------------------
(***************************************************************************)
(* WorkFlow: the wares of a jigsaw, and the calls that run through them.   *)
(* A ware goes on to the next one by calling next(), which the user's code *)
(* may do not at all, more than once, without awaiting it, or when the     *)
(* call is long over.  All wares of a call share one position.             *)
(***************************************************************************)
EXTENDS Naturals

CONSTANTS MaxWares,  \* bound on the wares pushed
          WorkCalls, \* calls of call()
          MaxSteps   \* bound on the position of a call, which grows past the last ware

ASSUME StepsAssumption == MaxWares \in Nat /\ MaxSteps \in Nat \ {0}

Positions == 1 .. MaxSteps

VARIABLES works,   \* how many wares have been pushed
          calling, \* each call: its state, and current_work while it is in callings
          ware,    \* the wares of each call, by position
          awaits,  \* the position whose promise each of them awaits, or 0
          loose    \* history: calls with a next() that is not awaited

workVars == <<works, calling, ware, awaits, loose>>

WorkTypeOK ==
    /\ works \in 0 .. MaxWares
    /\ calling \in [WorkCalls -> [state : {"none", "running", "returned", "threw"},
                                  current : 0 .. MaxSteps]]
    /\ ware \in [WorkCalls -> [Positions -> {"none", "running", "ended"}]]
    /\ awaits \in [WorkCalls -> [Positions -> 0 .. MaxSteps]]
    /\ loose \subseteq WorkCalls

WorkInit ==
    /\ works = 0
    /\ calling = [c \in WorkCalls |-> [state |-> "none", current |-> 0]]
    /\ ware = [c \in WorkCalls |-> [i \in Positions |-> "none"]]
    /\ awaits = [c \in WorkCalls |-> [i \in Positions |-> 0]]
    /\ loose = {}

-----------------------------------------------------------------------------
\* pushWork, of one whose hash is new, also while calls are running
PushWork ==
    /\ works < MaxWares
    /\ works' = works + 1
    /\ UNCHANGED <<calling, ware, awaits, loose>>

InCallings(c) == calling[c].state = "running"

IsOver(c)  == calling[c].state \in {"returned", "threw"}
Active(c, i) == ware[c][i] = "running" /\ awaits[c][i] = 0

\* callNextWork: the position moves on, past the last ware too.
Starts(c) ==
    LET i == calling[c].current + 1
    IN  ware' = IF i <= works THEN [ware EXCEPT ![c][i] = "running"] ELSE ware

\* call() up to its await
CallWorks(c) ==
    /\ calling[c].state = "none"
    /\ Starts(c)
    /\ calling' = [calling EXCEPT ![c] = [state |-> "running", current |-> 1]]
    /\ UNCHANGED <<works, awaits, loose>>

\* next() of the ware at i, a closure that may be kept and called while the ware
\* awaits something, and after it has ended.  Only a ware still at work can await
\* the promise.  A call that is no longer in callings makes next() a TypeError,
\* and starts nothing.
CallsNext(c, i) ==
    LET j == calling[c].current + 1
    IN  /\ ware[c][i] # "none"
        /\ InCallings(c)
        /\ j <= MaxSteps
        /\ Starts(c)
        /\ calling' = [calling EXCEPT ![c].current = j]
        /\ \/ Active(c, i) /\ awaits' = [awaits EXCEPT ![c][i] = j] /\ UNCHANGED loose
           \/ loose' = loose \cup {c} /\ UNCHANGED awaits
        /\ UNCHANGED works

\* Fault: next() does not return the ware's promise.
GoesOn_AtOnce(c, i) ==
    /\ awaits[c][i] # 0
    /\ awaits' = [awaits EXCEPT ![c][i] = 0]
    /\ UNCHANGED <<works, calling, ware, loose>>

\* The awaited promise is settled: by the ware's end, or there was none.
GoesOn(c, i) ==
    /\ awaits[c][i] # 0
    /\ ware[c][awaits[c][i]] # "running"
    /\ awaits' = [awaits EXCEPT ![c][i] = 0]
    /\ UNCHANGED <<works, calling, ware, loose>>

\* A ware returns, or throws, which its caller may catch.
WareEnds(c, i) ==
    /\ Active(c, i)
    /\ ware' = [ware EXCEPT ![c][i] = "ended"]
    /\ UNCHANGED <<works, calling, awaits, loose>>

\* The first ware's promise is the call's, to a result or an error.
CallOver(c) ==
    /\ calling[c].state = "running"
    /\ \/ ware[c][1] # "running" /\ calling' = [calling EXCEPT ![c].state = "returned"]
       \/ ware[c][1] = "ended" /\ calling' = [calling EXCEPT ![c].state = "threw"]
    /\ UNCHANGED <<works, ware, awaits, loose>>

WorkNext ==
    \/ PushWork
    \/ \E c \in WorkCalls :
         \/ CallOver(c)
         \/ \E i \in Positions : CallsNext(c, i) \/ GoesOn(c, i) \/ WareEnds(c, i)

(* Fairness.  Wares end, which is up to the user, and continuations run.      *)
WorkFairness ==
    \A c \in WorkCalls :
      /\ WF_workVars(CallOver(c))
      /\ \A i \in Positions : WF_workVars(GoesOn(c, i)) /\ WF_workVars(WareEnds(c, i))

-----------------------------------------------------------------------------
(* Properties *)

\* A call ends with its context final: no ware of it is left at work, unless a
\* next() was not awaited.
OverWhenDone ==
    \A c \in WorkCalls : IsOver(c) /\ c \notin loose =>
      \A i \in Positions : ware[c][i] # "running"
=============================================================================
