------------------------------ MODULE MCJigsaw ------------------------------
(* Sends of every kind, two at a time, and a request that is served.         *)
EXTENDS Jigsaw

CONSTANTS s1, s2, h1
=============================================================================
