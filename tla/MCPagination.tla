---------------------------- MODULE MCPagination ----------------------------
(* Pagination on a small table for TLC.                                    *)
EXTENDS Pagination

\* Two milliseconds of two ticks; rows share the time at and after a cut.
TwoPerTick ==
    {[time |-> 0, id |-> 1], [time |-> 1, id |-> 2], [time |-> 1, id |-> 3],
     [time |-> 2, id |-> 1], [time |-> 2, id |-> 3], [time |-> 3, id |-> 2]}
=============================================================================
