--------------------------- MODULE MCMarketplace ----------------------------
(* Marketplace on small instances for TLC.                                 *)
EXTENDS Marketplace, TLC

CONSTANTS s1, s2, r1, r2

\* A single request.
Single == r1 :> s1

\* Two requests of one seeker: broadcast again, or after a finished job.
TwoOfOne == (r1 :> s1) @@ (r2 :> s1)

\* One request of each seeker: two seekers compete for a provider.
OneEach == (r1 :> s1) @@ (r2 :> s2)

\* Handlers differ in nothing but their names, and neither do providers.
Alike == Permutations(Handlers) \union Permutations(Providers)
=============================================================================
