------------------------- MODULE MCProviderProfile -------------------------
(* ProviderProfile with a few requests for TLC.                            *)
EXTENDS ProviderProfile, TLC

CONSTANTS h1, h2, d1, d2, j1, j2, n1, n2

Symmetry == Permutations({h1, h2}) \union Permutations({d1, d2})
                \union Permutations({j1, j2}) \union Permutations({n1, n2})
=============================================================================
