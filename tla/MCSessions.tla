----------------------------- MODULE MCSessions -----------------------------
(* Sessions with a browser and a few requests for TLC.                     *)
EXTENDS Sessions, TLC

CONSTANTS h1, h2, h3, t1, t2, s1, s2

Symmetry == Permutations({h1, h2, h3}) \union Permutations({t1, t2})
                \union Permutations({s1, s2})
=============================================================================
