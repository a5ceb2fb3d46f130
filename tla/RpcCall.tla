------------------------------ MODULE RpcCall ------------------------------
(***************************************************************************)
(* What one send() promises, without slices, retransmissions or providers: *)
(* the handler runs at most once, the caller gets the answer of that very  *)
(* run (a Buffer, JSON or the handler's error) or its own failure, and     *)
(* gets it once.  Giving up does not undo the run: the handler may run, or *)
(* still answer, after the caller has failed.                              *)
(***************************************************************************)
EXTENDS Naturals

CONSTANT Answers

VARIABLES runs,     \* how often the handler was started
          answer,   \* what it answered
          outcome   \* what the caller of send() was given

vars == <<runs, answer, outcome>>

Init == runs = 0 /\ answer = "none" /\ outcome = "none"

Run ==
    /\ runs = 0
    /\ runs' = 1
    /\ UNCHANGED <<answer, outcome>>

Answer ==
    /\ runs = 1 /\ answer = "none"
    /\ answer' \in Answers
    /\ UNCHANGED <<runs, outcome>>

Return ==
    /\ outcome = "none" /\ answer # "none"
    /\ outcome' = answer
    /\ UNCHANGED <<runs, answer>>

Fail ==
    /\ outcome = "none"
    /\ outcome' = "failed"
    /\ UNCHANGED <<runs, answer>>

Next == Run \/ Answer \/ Return \/ Fail

Spec == Init /\ [][Next]_vars
=============================================================================
