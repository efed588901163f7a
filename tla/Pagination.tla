----------------------------- MODULE Pagination -----------------------------
(***************************************************************************)
(* Infinite scroll over a table that changes meanwhile: the cursor of      *)
(* common/pagination.ts as ReviewsService.received and                     *)
(* EngagementsService.completedJobs use it, and the page that asks for one *)
(* page after the other (features/jobs, useInfiniteQuery).                 *)
(*                                                                         *)
(* Time is counted in ticks of the ordering column.  A cursor is made from *)
(* a JavaScript Date, which knows only every Grain-th tick: reviews are    *)
(* stamped by the database in microseconds (Grain = 1000 in the code),     *)
(* completedAt is written by the service in milliseconds (Grain = 1).      *)
(***************************************************************************)
EXTENDS Integers, FiniteSets

CONSTANTS
    Rows,       \* the rows [time, id] that may be stored
    Grain,      \* ticks in the unit of a cursor
    Limits,     \* page sizes that clients ask for
    Least, Most \* the bounds of the page size: 1 and 50 in the code

ASSUME PaginationAssumption ==
    /\ Rows \subseteq [time : Nat, id : Nat]
    /\ Grain \in Nat \ {0}
    /\ Limits \subseteq Nat
    /\ Least \in Nat \ {0} /\ Most \in Nat /\ Least <= Most

VARIABLES
    stored,     \* the rows of the table that match the query
    since,      \* of these, the ones there when the first page was read
    earlier,    \* rows shown on the pages before the last one
    page,       \* rows of the last page read
    cursor,     \* nextCursor of that page, or Start, or Done after the last
    cuts        \* the rows that cursors were made from

vars == <<stored, since, earlier, page, cursor, cuts>>

Cursor == [t : Nat, id : Nat]
Start  == [t |-> -1, id |-> 0]      \* no cursor
Done   == [t |-> -2, id |-> 0]      \* nextCursor is null

TypeOK ==
    /\ stored \subseteq Rows
    /\ since \subseteq stored
    /\ earlier \subseteq Rows
    /\ page \subseteq Rows
    /\ cuts \subseteq Rows
    /\ cursor \in Cursor \union {Start, Done}

Init ==
    /\ stored \in SUBSET Rows
    /\ since = {} /\ earlier = {} /\ page = {} /\ cuts = {}
    /\ cursor = Start

\* ORDER BY time DESC, id DESC: x stands before y.
Newer(x, y) == x.time > y.time \/ (x.time = y.time /\ x.id > y.id)

AsLocalDate(t) == t - (t % Grain) - Grain   \* mutant: moved by the zone
\* The time column as a Date: what lies between two milliseconds is cut off.
AsDate(t) == t - (t % Grain)

EncodeTimeOnly(x) == [t |-> AsDate(x.time), id |-> 0]   \* mutant: no id
EncodeCursor(x) == [t |-> AsDate(x.time), id |-> x.id]

\* Mutant: rows at the cursor's time are taken in again.
OlderOrSame(x, c) == x.time < c.t \/ (x.time = c.t /\ x.id <= c.id)
\* The WHERE clause for a cursor.
Older(x, c) == x.time < c.t \/ (x.time = c.t /\ x.id < c.id)

Matching(c) == IF c = Start THEN stored ELSE {x \in stored : Older(x, c)}

Clamp(limit) ==
    LET low == IF limit > Least THEN limit ELSE Least
    IN  IF low < Most THEN low ELSE Most

\* P is what LIMIT n leaves of the matching rows M.
FirstOf(P, M, n) ==
    /\ P \subseteq M
    /\ \/ P = M /\ Cardinality(M) <= n
       \/ Cardinality(P) = n /\ \A x \in P, y \in M \ P : Newer(x, y)

IsLast(x, P) == x \in P /\ \A y \in P \ {x} : Newer(y, x)

\* Mutant: a full page is taken for the last one.
ReadPageStoppingEarly(limit) ==
    LET M == Matching(cursor) IN
    /\ cursor # Done
    /\ \E P \in SUBSET M :
         /\ FirstOf(P, M, Clamp(limit))
         /\ page' = P
         /\ cursor' = Done
    /\ earlier' = earlier \union page
    /\ since' = IF cursor = Start THEN stored ELSE since
    /\ UNCHANGED <<stored, cuts>>

\* One page.  The query asks for one row more than the page holds; if it gets
\* it, there is a next page, and its cursor is made from the page's last row.
ReadPage(limit) ==
    LET M == Matching(cursor) IN
    /\ cursor # Done
    /\ \E P \in SUBSET M :
         /\ FirstOf(P, M, Clamp(limit))
         /\ page' = P
         /\ \/ P = M /\ cursor' = Done /\ UNCHANGED cuts
            \/ P # M /\ \E x \in P : /\ IsLast(x, P)
                                     /\ cursor' = EncodeCursor(x)
                                     /\ cuts' = cuts \union {x}
    /\ earlier' = earlier \union page
    /\ since' = IF cursor = Start THEN stored ELSE since
    /\ UNCHANGED stored

\* The list is refetched from its first page.
Restart ==
    /\ cursor # Start
    /\ cursor' = Start
    /\ since' = {} /\ earlier' = {} /\ page' = {} /\ cuts' = {}
    /\ UNCHANGED stored

\* A review is written, a job completed: anywhere in the order, because the
\* stamp is taken before the row becomes visible.
Appear(x) ==
    /\ x \notin stored
    /\ stored' = stored \union {x}
    /\ UNCHANGED <<since, earlier, page, cursor, cuts>>

\* The author's account is purged, a job is active again.
Vanish(x) ==
    /\ x \in stored
    /\ stored' = stored \ {x}
    /\ since' = since \ {x}
    /\ UNCHANGED <<earlier, page, cursor, cuts>>

Next ==
    \/ \E limit \in Limits : ReadPage(limit)
    \/ Restart
    \/ \E x \in Rows : Appear(x) \/ Vanish(x)

Spec == Init /\ [][Next]_vars

-----------------------------------------------------------------------------
(* What a reader sees is the order of the query, newest first, and no row  *)
(* twice, whatever is written or removed between two pages and however     *)
(* coarse the cursor is ("the next page is everything strictly older than  *)
(* the cursor", common/pagination.ts).                                     *)
NewestFirst == \A x \in earlier, y \in page : Newer(x, y)

(* A row that was there all the time is missing from a list read to its    *)
(* end only if it lies between the row a cursor was made from and the      *)
(* cursor itself, in the part of a millisecond that the Date cut off.      *)
LostInTheCut(x) ==
    \E c \in cuts : /\ Newer(c, x)
                    /\ \/ x.time > AsDate(c.time)
                       \/ x.time = AsDate(c.time) /\ x.id >= c.id
MissingOnlyInTheCut ==
    cursor = Done =>
        \A x \in since : x \in earlier \union page \/ LostInTheCut(x)

(* If the column is no finer than the cursor, as for completedJobs, the    *)
(* list read to its end holds every row that was there all the time.       *)
CompleteWhenExact ==
    Grain = 1 /\ cursor = Done => since \subseteq earlier \union page
=============================================================================
