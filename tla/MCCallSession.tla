--------------------------- MODULE MCCallSession ----------------------------
(* CallSession on small instances for TLC.                                 *)
EXTENDS CallSession, TLC

CONSTANTS c1, c2

\* Either side may start either call.
Anyone == Peers \X Ids

\* The seeker calls and calls again.
Again == {<<Seeker, c1>>, <<Seeker, c2>>}

\* Nothing tells one unused id from another.
AnyId == Permutations(Ids)
=============================================================================
