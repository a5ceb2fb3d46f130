----------------------------- MODULE Directory -----------------------------
(***************************************************************************)
(* What the registry promises of its registrations: a flat set of paths,   *)
(* each a name and an id, none of them above another.  An update adds or   *)
(* refreshes one, a purge or its age takes one out, and nothing that       *)
(* happens to one changes another.                                         *)
(***************************************************************************)
EXTENDS SequencesExt

CONSTANT Entries   \* the paths that may be registered

VARIABLES registered,
          aged       \* those not updated for the expiry time

vars == <<registered, aged>>

Init == registered = {} /\ aged = {}

\* A path above or below a registered one cannot be registered.
Free(p) == \A q \in registered : ~IsStrictPrefix(q, p) /\ ~IsStrictPrefix(p, q)

Update(p) ==
    /\ Free(p)
    /\ registered' = registered \cup {p}
    /\ aged' = aged \ {p}

Leave(p) ==
    /\ p \in registered
    /\ registered' = registered \ {p}
    /\ aged' = aged \ {p}

Age(p) ==
    /\ p \in registered
    /\ aged' = aged \cup {p}
    /\ UNCHANGED registered

Next == \E p \in Entries : Update(p) \/ Leave(p) \/ Age(p)

Spec == Init /\ [][Next]_vars
=============================================================================
