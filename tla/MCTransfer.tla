----------------------------- MODULE MCTransfer -----------------------------
(* Instances of Transfer: the providers are model values, interchangeable. *)
EXTENDS Transfer, TLC

ProviderSymmetry == Permutations(Providers)

\* Answers of every kind while nothing is dropped, and JSON only afterwards.
JSONWhenDropping ==
    spent.evictions > 0 => \A k \in Jobs : job[k].answer \in {"none", "json"}
=============================================================================
