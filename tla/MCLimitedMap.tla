---- MODULE MCLimitedMap ----
\* Small instance of LimitedMap: four keys compete for three slots, so
\* insertions evict, and every third set sweeps.
EXTENDS LimitedMap, TLC

Symmetry == Permutations(Keys) \cup Permutations(Vals)
====
