--------------------------- MODULE MCNetComponent ---------------------------
(* One packet that is longer than a batch is meant to be, to one peer, and   *)
(* three small ones to another, of which two make a batch; one packet comes  *)
(* in, to handlers under its name and under its request id.                  *)
EXTENDS NetComponent, TLC

CONSTANTS peerA, peerB, typeName, requestKey, incoming

MCDst == <<peerB, peerA, peerA, peerA>>
MCSize == <<9, 1, 1, 1>>
MCName == incoming :> typeName
MCId == incoming :> requestKey
=============================================================================
