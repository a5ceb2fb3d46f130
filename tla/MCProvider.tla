----------------------------- MODULE MCProvider -----------------------------
(* One request more than the map holds, so that an invoker is dropped; three *)
(* wares, any of which may not be there yet when a call comes to it.         *)
EXTENDS Provider, TLC
=============================================================================
