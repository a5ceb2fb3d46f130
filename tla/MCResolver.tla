----------------------------- MODULE MCResolver -----------------------------
(* Two names, two calls and one place for running queries, so that a query is *)
(* dropped while it runs.                                                     *)
EXTENDS Resolver, TLC
=============================================================================
