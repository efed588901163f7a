-------------------------- MODULE PaginationProofs --------------------------
(***************************************************************************)
(* Proofs about Pagination, for every table, grain and page size.          *)
(***************************************************************************)
EXTENDS Pagination, TLAPS

-----------------------------------------------------------------------------
(* The order of the query and the cursor.                                  *)

LEMMA NewerTransitive ==
    ASSUME NEW x \in Rows, NEW y \in Rows, NEW z \in Rows,
           Newer(x, y), Newer(y, z)
    PROVE  Newer(x, z)
BY PaginationAssumption DEF Newer

LEMMA CutIsEarlier ==
    ASSUME NEW t \in Nat
    PROVE  AsDate(t) \in Nat /\ AsDate(t) <= t
BY PaginationAssumption DEF AsDate

LEMMA CutIsExact ==
    ASSUME NEW t \in Nat, Grain = 1
    PROVE  AsDate(t) = t
BY DEF AsDate

(* The next page holds rows behind the row that its cursor was made from.  *)
LEMMA OlderIsBehind ==
    ASSUME NEW c \in Rows, NEW x \in Rows, Older(x, EncodeCursor(c))
    PROVE  Newer(c, x)
<1>1. c.time \in Nat /\ c.id \in Nat /\ x.time \in Nat /\ x.id \in Nat
  BY PaginationAssumption
<1>2. AsDate(c.time) \in Nat /\ AsDate(c.time) <= c.time
  BY <1>1, CutIsEarlier
<1>3. x.time < AsDate(c.time) \/ (x.time = AsDate(c.time) /\ x.id < c.id)
  BY DEF Older, EncodeCursor
<1> QED  BY <1>1, <1>2, <1>3 DEF Newer

LEMMA CursorIsNoMark ==
    ASSUME NEW c \in Rows
    PROVE  /\ EncodeCursor(c) \in Cursor
           /\ EncodeCursor(c) \notin {Start, Done}
<1>1. c.time \in Nat /\ c.id \in Nat
  BY PaginationAssumption
<1>2. AsDate(c.time) \in Nat
  BY <1>1, CutIsEarlier
<1> QED  BY <1>1, <1>2 DEF EncodeCursor, Cursor, Start, Done

LEMMA MarksDiffer == Start # Done
BY DEF Start, Done

-----------------------------------------------------------------------------
(* The type invariant.                                                     *)

LEMMA TypeStep == TypeOK /\ [Next]_vars => TypeOK'
<1> SUFFICES ASSUME TypeOK, [Next]_vars PROVE TypeOK'
  OBVIOUS
<1> USE DEF TypeOK
<1>1. ASSUME NEW limit \in Limits, ReadPage(limit) PROVE TypeOK'
  <2>1. page' \subseteq stored
    BY <1>1 DEF ReadPage, Matching, FirstOf
  <2>2. cursor' \in Cursor \union {Start, Done} /\ cuts' \subseteq Rows
    BY <1>1, <2>1, CursorIsNoMark DEF ReadPage, IsLast
  <2> QED  BY <1>1, <2>1, <2>2 DEF ReadPage
<1>2. CASE Restart
  BY <1>2 DEF Restart
<1>3. ASSUME NEW x \in Rows, Appear(x) PROVE TypeOK'
  BY <1>3 DEF Appear
<1>4. ASSUME NEW x \in Rows, Vanish(x) PROVE TypeOK'
  BY <1>4 DEF Vanish
<1>5. CASE UNCHANGED vars
  BY <1>5 DEF vars
<1> QED  BY <1>1, <1>2, <1>3, <1>4, <1>5 DEF Next

(* The reader's state and the table stay within their types.               *)
THEOREM TypeCorrect == Spec => []TypeOK
<1>1. Init => TypeOK
  BY DEF Init, TypeOK
<1> QED  BY <1>1, TypeStep, PTL DEF Spec

-----------------------------------------------------------------------------
(* The invariant behind both properties: the cursor was made from the last *)
(* row of the page, and a row not yet shown is ahead or lost in a cut.     *)

CursorOfPage ==
    /\ cursor = Start => earlier = {} /\ page = {} /\ since = {}
    /\ cursor \notin {Start, Done} =>
         \E c \in page : /\ IsLast(c, page)
                         /\ cursor = EncodeCursor(c)

Ahead(x) == cursor \notin {Start, Done} /\ Older(x, cursor)

NothingElseMissing ==
    \A x \in since : \/ x \in earlier \union page
                     \/ LostInTheCut(x)
                     \/ Ahead(x)

IInv == TypeOK /\ CursorOfPage /\ NewestFirst /\ NothingElseMissing

(* What one page does: its rows stand behind everything shown before.      *)
LEMMA PageIsBehind ==
    ASSUME IInv, NEW limit \in Limits, ReadPage(limit)
    PROVE  \A x \in earlier \union page, y \in page' : Newer(x, y)
<1> SUFFICES ASSUME NEW x \in earlier \union page, NEW y \in page'
             PROVE  Newer(x, y)
  OBVIOUS
<1>1. cursor # Start
  BY DEF IInv, CursorOfPage
<1>2. cursor # Done
  BY DEF ReadPage
<1>3. y \in Rows /\ Older(y, cursor)
  BY <1>1 DEF ReadPage, Matching, FirstOf, IInv, TypeOK
<1>4. PICK c \in page : IsLast(c, page) /\ cursor = EncodeCursor(c)
  BY <1>1, <1>2 DEF IInv, CursorOfPage
<1>5. c \in Rows /\ x \in Rows
  BY DEF IInv, TypeOK
<1>6. Newer(c, y)
  BY <1>3, <1>4, <1>5, OlderIsBehind
<1>7. x = c \/ Newer(x, c)
  BY <1>4 DEF IsLast, IInv, NewestFirst
<1> QED  BY <1>3, <1>5, <1>6, <1>7, NewerTransitive

LEMMA PageKeepsOrder ==
    ASSUME IInv, NEW limit \in Limits, ReadPage(limit)
    PROVE  CursorOfPage' /\ NewestFirst'
<1>1. NewestFirst'
  BY PageIsBehind DEF ReadPage, NewestFirst
<1>2. CursorOfPage'
  <2>1. cursor' # Start
    <3>1. page' \subseteq Rows
      BY DEF ReadPage, Matching, FirstOf, IInv, TypeOK
    <3> QED  BY <3>1, CursorIsNoMark, MarksDiffer DEF ReadPage
  <2>2. cursor' # Done =>
          \E c \in page' : IsLast(c, page') /\ cursor' = EncodeCursor(c)
    BY DEF ReadPage
  <2> QED  BY <2>1, <2>2 DEF CursorOfPage
<1> QED  BY <1>1, <1>2

(* A row that the page leaves out although it matches is ahead or cut.     *)
LEMMA PageLosesNothing ==
    ASSUME IInv, NEW limit \in Limits, ReadPage(limit)
    PROVE  NothingElseMissing'
<1> SUFFICES ASSUME NEW x \in since', x \notin earlier' \union page',
                    ~ LostInTheCut(x)'
             PROVE  Ahead(x)'
  BY DEF NothingElseMissing
<1>1. cuts \subseteq cuts'
  BY DEF ReadPage
<1>2. ~ LostInTheCut(x)
  BY <1>1 DEF LostInTheCut
<1>3. x \in stored /\ x \in Rows
  BY DEF ReadPage, IInv, TypeOK
<1>4. x \in Matching(cursor)
  <2>1. CASE cursor = Start
    BY <2>1, <1>3 DEF Matching
  <2>2. CASE cursor # Start
    <3>1. x \in since /\ x \notin earlier \union page
      BY <2>2, PageIsBehind DEF ReadPage, IInv, TypeOK
    <3>2. Ahead(x)
      BY <3>1, <1>2 DEF IInv, NothingElseMissing
    <3> QED  BY <2>2, <3>2, <1>3 DEF Ahead, Matching
  <2> QED  BY <2>1, <2>2
<1>5. page' # Matching(cursor)
  BY <1>4
<1>6. PICK c \in page' : /\ IsLast(c, page')
                         /\ cursor' = EncodeCursor(c)
                         /\ cuts' = cuts \union {c}
  BY <1>5 DEF ReadPage
<1>7. Newer(c, x)
  BY <1>4, <1>5 DEF ReadPage, FirstOf
<1>8. c \in Rows
  BY <1>6 DEF ReadPage, Matching, FirstOf, IInv, TypeOK
<1>9. c.time \in Nat /\ c.id \in Nat /\ x.time \in Nat /\ x.id \in Nat
  BY <1>3, <1>8, PaginationAssumption
<1>10. AsDate(c.time) \in Nat
  BY <1>9, CutIsEarlier
<1>11. c \in cuts'
  BY <1>6
<1>12. ~ (\/ x.time > AsDate(c.time)
          \/ x.time = AsDate(c.time) /\ x.id >= c.id)
  BY <1>7, <1>11 DEF LostInTheCut
<1>13. Older(x, EncodeCursor(c))
  BY <1>9, <1>10, <1>12 DEF Older, EncodeCursor
<1> QED  BY <1>6, <1>8, <1>13, CursorIsNoMark DEF Ahead

LEMMA IInvStep == IInv /\ [Next]_vars => IInv'
<1> SUFFICES ASSUME IInv, [Next]_vars PROVE IInv'
  OBVIOUS
<1>1. TypeOK'
  BY TypeStep DEF IInv
<1>2. ASSUME NEW limit \in Limits, ReadPage(limit)
      PROVE  CursorOfPage' /\ NewestFirst' /\ NothingElseMissing'
  BY <1>2, PageKeepsOrder, PageLosesNothing
<1>3. CASE Restart
  BY <1>1, <1>3 DEF Restart, IInv, CursorOfPage, NewestFirst,
                    NothingElseMissing
<1>4. ASSUME NEW x \in Rows, Appear(x)
      PROVE  CursorOfPage' /\ NewestFirst' /\ NothingElseMissing'
  BY <1>4 DEF Appear, IInv, CursorOfPage, NewestFirst, NothingElseMissing,
              Ahead, LostInTheCut
<1>5. ASSUME NEW x \in Rows, Vanish(x)
      PROVE  CursorOfPage' /\ NewestFirst' /\ NothingElseMissing'
  BY <1>5 DEF Vanish, IInv, CursorOfPage, NewestFirst, NothingElseMissing,
              Ahead, LostInTheCut
<1>6. CASE UNCHANGED vars
  BY <1>1, <1>6 DEF vars, IInv, CursorOfPage, NewestFirst,
                    NothingElseMissing, Ahead, LostInTheCut
<1> QED
  BY <1>1, <1>2, <1>3, <1>4, <1>5, <1>6, MarksDiffer DEF Next, IInv

LEMMA IInvInit == Init => IInv
BY DEF Init, IInv, TypeOK, CursorOfPage, NewestFirst, NothingElseMissing

LEMMA IInvHolds == Spec => []IInv
BY IInvInit, IInvStep, PTL DEF Spec

-----------------------------------------------------------------------------
(* Pages follow one another in the order of the query and no row is shown  *)
(* twice, whatever the table does between two of them.                     *)
THEOREM PagesInOrder == Spec => []NewestFirst
<1>1. IInv => NewestFirst
  BY DEF IInv
<1> QED  BY <1>1, IInvHolds, PTL

(* Only the part of the unit that the cursor's Date cut off can hide a row *)
(* from a reader who reaches the end of the list.                          *)
THEOREM OnlyTheCutLoses == Spec => []MissingOnlyInTheCut
<1>1. IInv => MissingOnlyInTheCut
  BY DEF IInv, NothingElseMissing, Ahead, MissingOnlyInTheCut
<1> QED  BY <1>1, IInvHolds, PTL

(* With a column as coarse as the cursor nothing is lost: the list of      *)
(* completed jobs is complete.                                             *)
THEOREM ExactIsComplete == Spec => []CompleteWhenExact
<1>1. TypeOK /\ MissingOnlyInTheCut => CompleteWhenExact
  <2> SUFFICES ASSUME TypeOK, MissingOnlyInTheCut, Grain = 1, cursor = Done,
                      NEW x \in since, LostInTheCut(x)
               PROVE  FALSE
    BY DEF CompleteWhenExact, MissingOnlyInTheCut
  <2>1. PICK c \in cuts : /\ Newer(c, x)
                          /\ \/ x.time > AsDate(c.time)
                             \/ x.time = AsDate(c.time) /\ x.id >= c.id
    BY DEF LostInTheCut
  <2>2. c \in Rows /\ x \in Rows
    BY DEF TypeOK
  <2>3. c.time \in Nat /\ c.id \in Nat /\ x.time \in Nat /\ x.id \in Nat
    BY <2>2, PaginationAssumption
  <2>4. AsDate(c.time) = c.time
    BY <2>3, CutIsExact
  <2> QED  BY <2>1, <2>3, <2>4 DEF Newer
<1> QED  BY <1>1, TypeCorrect, OnlyTheCutLoses, PTL
=============================================================================
