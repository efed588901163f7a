------------------------------ MODULE JobLock -------------------------------
(***************************************************************************)
(* What an engagement promises, with none of its machinery: a seeker and a *)
(* provider who work together hold each other exclusively.  The set held   *)
(* of pairs <<seeker, provider>> is a matching, it grows by one free pair  *)
(* at a time and shrinks by one pair at a time.                            *)
(*                                                                         *)
(* The promise is the class comment of engagement.entity.ts ("Both are     *)
(* locked ... until completed"); Marketplace is shown to implement it.     *)
(***************************************************************************)
CONSTANTS Seekers, Providers

VARIABLE held

Pairs == Seekers \X Providers

\* Neither party of the pair is in a job.
Free(s, p) == \A l \in held : l[1] # s /\ l[2] # p

Init == held = {}

Acquire(s, p) ==
    /\ Free(s, p)
    /\ held' = held \union {<<s, p>>}

Release(l) == held' = held \ {l}

Next ==
    \/ \E s \in Seekers, p \in Providers : Acquire(s, p)
    \/ \E l \in held : Release(l)

Spec == Init /\ [][Next]_held

-----------------------------------------------------------------------------
(* The abstract invariant: held is a matching between seekers and          *)
(* providers, so nobody is in two jobs at once.                            *)
Matching ==
    /\ held \subseteq Pairs
    /\ \A k, l \in held : k[1] = l[1] \/ k[2] = l[2] => k = l
=============================================================================
