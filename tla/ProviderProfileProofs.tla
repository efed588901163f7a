----------------------- MODULE ProviderProfileProofs ------------------------
(***************************************************************************)
(* Theorems about ProviderProfile, for every number of requests that       *)
(* overlap and every set of phone numbers, documents and jobs.             *)
(*                                                                         *)
(* What a stale copy can do to the row is bounded by what the copy can     *)
(* hold: the invariant says of every copy, between load and write, what    *)
(* the theorems say of the row.  Until a stale copy is saved, more is      *)
(* known of a copy: it is what its call makes of the row as it is now.     *)
(***************************************************************************)
EXTENDS ProviderProfile, FiniteSetTheorems, TLAPS

\* The call has the application locked and the role to come.
Owed(c) == c.op = "submit" /\ c.at \in Promoting

\* The user has the role, will get it, or lost it: for good.
Granted == promoted \/ orphaned \/ overwritten \/ \E h \in Handlers : Owed(calls[h])

\* A copy is at work, and a stored review is not in the rating yet.
Working == {"compare", "write"}
Pending == {"load"} \union Working

Due(c) == IF c.job = {} THEN 0 ELSE 1

\* Where a call can be that has not found the row.
Rowless == {"done", "create", "save user", "write user"}

\* What is known of a call, wherever it is.
Good(c) ==
    /\ row = NoRow => c.at \in Rowless
    /\ c.job = {} \/ \E j \in Jobs : c.job = {j}
    /\ c.op = "review" <=> c.job # {}
    /\ c.at \in {"create", "consume"} => c.job = {}
    /\ c.at = "consume" => c.edit.phone # NoNumber
    /\ c.at \in Promoting => /\ c.op \in {"submit", "sign in"}
                             /\ c.op = "submit" /\ c.at # "promote" => c.role
    /\ c.op = "sign in" => c.at \in {"save user", "write user"}
    /\ c.at \in Pending => c.job \subseteq reviews \ dropped
    /\ c.at \in Working => c.copy.count <= Cardinality(counted) + Due(c)
    /\ c.at \in Working /\ c.op # "submit" /\ Locked(c.copy) => Granted

Apart(c, d) == c.at \in Pending /\ d.at \in Pending => c.job \intersect d.job = {}

IInv ==
    /\ TypeOK
    /\ row = NoRow => otp = NoNumber /\ ~ stale
    /\ \A h \in Handlers : Good(calls[h])
    /\ \A g, h \in Handlers : g # h => Apart(calls[g], calls[h])
    /\ RatingNeverInflated
    /\ row # NoRow /\ Locked(row) => Granted

-----------------------------------------------------------------------------
(* Types.                                                                  *)

LEMMA IdleIsCall == Idle \in Call /\ Draft \in Row
BY DEF Idle, Call, Absent, Edits, Draft, Empty, Row, RowWith, Statuses,
       Operations, Points

LEMMA NoRowIsNoRow == NoRow \notin Row /\ NoRow.status = "none"
BY DEF NoRow, Row, RowWith, Statuses

\* A call is replaced, or overtakes the others.
LEMMA CallsReplaced ==
    ASSUME calls \in [Handlers -> Call], NEW h \in Handlers, NEW c \in Call,
           Set(h, c) \/ Overtake(h, c)
    PROVE  /\ calls' \in [Handlers -> Call]
           /\ calls'[h] = c
           /\ \A g \in Handlers \ {h} :
                /\ calls'[g].op = calls[g].op /\ calls'[g].at = calls[g].at
                /\ calls'[g].copy = calls[g].copy
                /\ calls'[g].job = calls[g].job
                /\ calls'[g].edit = calls[g].edit
                /\ calls'[g].role = calls[g].role
<1>1. CASE Set(h, c)
  BY <1>1 DEF Set
<1>2. CASE Overtake(h, c)
  <2> DEFINE d(g) == [calls[g] EXCEPT !.fresh = At(g, "done")]
  <2>1. \A g \in Handlers : At(g, "done") \in BOOLEAN
    BY DEF At
  <2>2. \A g \in Handlers : d(g) \in Call
    BY <2>1 DEF Call
  <2>3. calls' = [g \in Handlers |-> IF g = h THEN c ELSE d(g)]
    BY <1>2 DEF Overtake
  <2>4. \A g \in Handlers \ {h} : calls'[g] = d(g)
    BY <2>3
  <2>5. \A g \in Handlers : /\ d(g).op = calls[g].op /\ d(g).at = calls[g].at
                            /\ d(g).copy = calls[g].copy
                            /\ d(g).job = calls[g].job
                            /\ d(g).edit = calls[g].edit
                            /\ d(g).role = calls[g].role
    BY DEF Call
  <2>6. QED BY <2>2, <2>3, <2>4, <2>5
<1>3. QED BY <1>1, <1>2

LEMMA ChangedIsRow ==
    ASSUME row \in Row, NEW op \in Operations, NEW e \in Edits
    PROVE  Changed(op, e) \in Row
<1>1. Updated(e) \in Row
  <2> DEFINE n == row.name \/ e.name
             k == IF e.skills = "absent" THEN row.skills ELSE e.skills = "some"
             f == IF e.phone = NoNumber THEN row.phone ELSE e.phone
             v == row.verified /\ e.phone \in {NoNumber, row.phone}
  <2>1. n \in BOOLEAN /\ k \in BOOLEAN /\ v \in BOOLEAN
    BY DEF Row, RowWith
  <2>2. f \in Numbers \union {NoNumber}
    BY DEF Row, RowWith, Edits
  <2>3. Updated(e) = [row EXCEPT !.name = n, !.skills = k, !.phone = f, !.verified = v]
    BY DEF Updated
  <2> HIDE DEF n, k, f, v
  <2>4. QED BY <2>1, <2>2, <2>3 DEF Row, RowWith
<1>2. Submitted \in Row /\ Approved \in Row /\ Rejected \in Row
  BY DEF Submitted, Approved, Rejected, Row, RowWith, Statuses
<1>3. [row EXCEPT !.verified = TRUE] \in Row
  BY DEF Row, RowWith
<1>4. [row EXCEPT !.count = @ + 1] \in Row
  BY DEF Row, RowWith
<1>5. QED BY <1>1, <1>2, <1>3, <1>4 DEF Changed

LEMMA WrittenIsRow ==
    ASSUME row \in Row, NEW c \in Call
    PROVE  /\ Written(c) \in Row
           /\ Written(c).status \in {row.status, c.copy.status}
           /\ Written(c).count \in {row.count, c.copy.count}
BY DEF Written, Row, RowWith, Call, Columns

LEMMA CountedIsFinite ==
    ASSUME TypeOK
    PROVE  /\ IsFiniteSet(counted) /\ Cardinality(counted) \in Nat
           /\ \A j \in Jobs \ counted : Cardinality(counted \union {j})
                                          = Cardinality(counted) + 1
<1>1. IsFiniteSet(counted)
  BY ProfileAssumption, FS_Subset DEF TypeOK, counted
<1>2. QED BY <1>1, FS_CardinalityType, FS_AddElement

-----------------------------------------------------------------------------
(* What the rating should count.                                           *)

\* The reviews that the other calls have in hand.
Others(h) == UNION {InHand(calls[g]) : g \in Handlers \ {h}}

LEMMA HandIsJob ==
    ASSUME NEW c
    PROVE  /\ c.at \in Pending => InHand(c) = c.job
           /\ c.at \notin Pending \/ c.job = {} => InHand(c) = {}
BY DEF InHand, Pending, Working

LEMMA CountedMoves ==
    ASSUME calls \in [Handlers -> Call], NEW h \in Handlers, NEW c \in Call,
           Set(h, c) \/ Overtake(h, c)
    PROVE  /\ counted = reviews \ (dropped \union InHand(calls[h]) \union Others(h))
           /\ counted' = reviews' \ (dropped' \union InHand(c) \union Others(h))
<1>1. /\ calls'[h] = c
      /\ \A g \in Handlers \ {h} : /\ calls'[g].at = calls[g].at
                                  /\ calls'[g].job = calls[g].job
  BY CallsReplaced
<1>2. UNION {InHand(calls[g]) : g \in Handlers} = InHand(calls[h]) \union Others(h)
  BY DEF Others
<1>3. \A g \in Handlers \ {h} : InHand(calls'[g]) = InHand(calls[g])
  BY <1>1 DEF InHand
<1>4. UNION {InHand(calls'[g]) : g \in Handlers} = InHand(c) \union Others(h)
  BY <1>1, <1>3 DEF Others
<1>5. QED BY <1>2, <1>4 DEF counted, InHand

\* What a call has in hand it keeps, or drops.
HandKept(h, c) ==
    \/ dropped' = dropped /\ InHand(c) = InHand(calls[h])
    \/ dropped' = dropped \union InHand(calls[h]) /\ InHand(c) = {}

LEMMA CountedStays ==
    ASSUME IInv, NEW h \in Handlers, NEW c \in Call, Set(h, c) \/ Overtake(h, c),
           reviews' = reviews, HandKept(h, c)
    PROVE  /\ counted' = counted /\ dropped' \subseteq reviews
           /\ \A g \in Handlers \ {h} :
                calls[g].at \in Pending => calls[g].job \intersect dropped' = {}
<1>1. calls \in [Handlers -> Call] /\ dropped \subseteq reviews /\ Good(calls[h])
  BY DEF IInv, TypeOK
<1>2. counted' = counted
  BY <1>1, CountedMoves DEF HandKept
<1>3. InHand(calls[h]) \subseteq reviews
  BY <1>1, HandIsJob DEF Good
<1>4. dropped' \subseteq dropped \union InHand(calls[h])
  BY DEF HandKept
<1>5. ASSUME NEW g \in Handlers \ {h}, calls[g].at \in Pending
      PROVE  calls[g].job \intersect dropped' = {}
  <2>1. calls[g].job \intersect dropped = {}
    BY <1>5 DEF IInv, Good
  <2>2. calls[g].job \intersect InHand(calls[h]) = {}
    BY <1>5, HandIsJob DEF IInv, Apart
  <2>3. QED BY <1>4, <2>1, <2>2
<1>6. QED BY <1>1, <1>2, <1>3, <1>4, <1>5

-----------------------------------------------------------------------------
(* One call takes a step; the others have only to stand by.                *)

RoleKept(h, c) ==
    /\ promoted => promoted' \/ overwritten'
    /\ orphaned => orphaned'
    /\ overwritten => overwritten'
    /\ Owed(calls[h]) => promoted' \/ orphaned' \/ overwritten' \/ Owed(c)

LEMMA GrantedStays ==
    ASSUME calls \in [Handlers -> Call], NEW h \in Handlers, NEW c \in Call,
           Set(h, c) \/ Overtake(h, c), RoleKept(h, c), Granted
    PROVE  Granted'
<1>1. /\ calls'[h] = c
      /\ \A g \in Handlers \ {h} : /\ calls'[g].at = calls[g].at
                                  /\ calls'[g].op = calls[g].op
  BY CallsReplaced
<1>2. QED BY <1>1 DEF Granted, RoleKept, Owed

LEMMA OneCallMoves ==
    ASSUME IInv, NEW h \in Handlers, NEW c \in Call,
           Set(h, c) \/ Overtake(h, c),
           TypeOK',
           row' = NoRow => row = NoRow /\ otp' = NoNumber /\ ~ stale',
           reviews \subseteq reviews',
           Cardinality(counted) <= Cardinality(counted'),
           \A g \in Handlers \ {h} :
               /\ Apart(calls[g], c)
               /\ calls[g].at \in Pending => calls[g].job \intersect dropped' = {},
           RoleKept(h, c),
           Good(c)', RatingNeverInflated',
           row' # NoRow /\ Locked(row') => Granted'
    PROVE  IInv'
<1>1. /\ calls \in [Handlers -> Call] /\ calls' \in [Handlers -> Call]
      /\ calls'[h] = c
      /\ \A g \in Handlers \ {h} :
           /\ calls'[g].op = calls[g].op /\ calls'[g].at = calls[g].at
           /\ calls'[g].copy = calls[g].copy
           /\ calls'[g].job = calls[g].job
           /\ calls'[g].edit = calls[g].edit
           /\ calls'[g].role = calls[g].role
  BY CallsReplaced DEF IInv, TypeOK
<1>2. Granted => Granted'
  BY <1>1, GrantedStays
<1>3. \A g \in Handlers : Good(calls[g])'
  <2> SUFFICES ASSUME NEW g \in Handlers, g # h  PROVE Good(calls[g])'
    BY <1>1 DEF Good
  <2>1. Good(calls[g])
    BY DEF IInv
  <2>2. /\ Cardinality(counted) \in Nat /\ Cardinality(counted') \in Nat
        /\ calls[g].copy.count \in Nat
    <3>1. IsFiniteSet(counted')
      BY ProfileAssumption, FS_Subset DEF TypeOK, counted
    <3>2. QED BY <1>1, <3>1, CountedIsFinite, FS_CardinalityType
              DEF IInv, TypeOK, Call, Row, RowWith
  <2>3. calls'[g].at \in Pending => calls'[g].job \subseteq reviews' \ dropped'
    BY <1>1, <2>1 DEF Good
  <2>4. calls'[g].at \in Working =>
          calls'[g].copy.count <= Cardinality(counted') + Due(calls'[g])
    <3>1. /\ Due(calls'[g]) = Due(calls[g]) /\ Due(calls[g]) \in {0, 1}
          /\ calls'[g].copy.count = calls[g].copy.count
          /\ calls'[g].at = calls[g].at
      BY <1>1 DEF Due
    <3>2. calls[g].at \in Working =>
            calls[g].copy.count <= Cardinality(counted) + Due(calls[g])
      BY <2>1 DEF Good
    <3>3. Cardinality(counted) <= Cardinality(counted')
      OBVIOUS
    <3>4. QED BY <2>2, <3>1, <3>2, <3>3
  <2>5. calls'[g].at \in Working /\ calls'[g].op # "submit" /\ Locked(calls'[g].copy)
          => Granted'
    BY <1>1, <1>2, <2>1 DEF Good
  <2>6. QED BY <1>1, <2>1, <2>3, <2>4, <2>5 DEF Good
<1>4. \A f, g \in Handlers : f # g => Apart(calls[f], calls[g])'
  BY <1>1 DEF IInv, Apart
<1>5. QED BY <1>3, <1>4 DEF IInv

\* Most steps leave the row and the rating as they are.
LEMMA RowStays ==
    ASSUME IInv, NEW h \in Handlers, NEW c \in Call,
           Set(h, c) \/ Overtake(h, c),
           UNCHANGED <<row, reviews>>, HandKept(h, c),
           /\ docs' \subseteq DocIds /\ otp' \in Numbers \union {NoNumber}
           /\ {promoted', orphaned', overwritten', mailed', swapped', stale'}
                \subseteq BOOLEAN
           /\ begun' \in 0 .. MaxCalls /\ proved' \subseteq Numbers,
           row = NoRow => otp' = NoNumber /\ ~ stale',
           \A g \in Handlers \ {h} : Apart(calls[g], c),
           RoleKept(h, c),
           Good(c), dropped' = dropped \/ c.at \notin Pending
    PROVE  IInv' /\ counted' = counted
<1>1. TypeOK /\ calls \in [Handlers -> Call]
  BY DEF IInv, TypeOK
<1>2. /\ counted' = counted /\ dropped' \subseteq reviews
      /\ \A g \in Handlers \ {h} :
           calls[g].at \in Pending => calls[g].job \intersect dropped' = {}
  BY CountedStays
<1>3. calls' \in [Handlers -> Call] /\ TypeOK'
  BY <1>1, <1>2, CallsReplaced DEF TypeOK
<1>4. Granted => Granted'
  BY <1>1, GrantedStays
<1>5. Good(c)'
  BY <1>2, <1>4 DEF Good
<1>6. RatingNeverInflated' /\ (row' # NoRow /\ Locked(row') => Granted')
  BY <1>2, <1>4 DEF IInv, RatingNeverInflated
<1>7. Cardinality(counted) <= Cardinality(counted')
  BY <1>1, <1>2, CountedIsFinite
<1>8. QED BY <1>2, <1>3, <1>5, <1>6, <1>7, OneCallMoves

\* A call without a copy at work and without a review in hand.
LEMMA Harmless ==
    ASSUME NEW c \in Call, c.at \notin Pending \union Promoting,
           row = NoRow => c.at \in Rowless,
           c.job = {} \/ \E j \in Jobs : c.job = {j},
           c.op = "review" <=> c.job # {}, c.op # "sign in",
           c.at \in {"create", "consume"} => c.job = {},
           c.at = "consume" => c.edit.phone # NoNumber
    PROVE  Good(c) /\ InHand(c) = {} /\ \A d : Apart(d, c)
BY HandIsJob DEF Good, Apart, Pending, Working, Promoting

LEMMA IdleIsHarmless ==
    /\ Idle \in Call /\ Good(Idle) /\ \A d : Apart(d, Idle)
    /\ InHand(Idle) = {} /\ Idle.at \notin Pending
BY IdleIsCall DEF Idle, Good, Apart, Pending, Working, Promoting, Rowless, InHand

\* A call ends that had nothing in hand, or throws.
LEMMA HandOfReturn ==
    ASSUME NEW h \in Handlers
    PROVE  /\ dropped' = dropped /\ InHand(calls[h]) = {} => HandKept(h, Idle)
           /\ Throw(h) => HandKept(h, Idle)
BY IdleIsHarmless DEF HandKept, Throw

LEMMA LoadedCount ==
    ASSUME IInv, row # NoRow, NEW op \in Operations, NEW e \in Edits
    PROVE  Changed(op, e).count <=
             Cardinality(counted) + (IF op = "review" THEN 1 ELSE 0)
<1>1. TypeOK /\ row \in Row
  BY DEF IInv, TypeOK
<1>2. Cardinality(counted) \in Nat /\ row.count \in Nat
  BY <1>1, CountedIsFinite DEF Row, RowWith
<1>3. row.count <= Cardinality(counted)
  BY DEF IInv, RatingNeverInflated
<1>4. Changed(op, e).count = IF op = "review" THEN row.count + 1 ELSE row.count
  BY <1>1 DEF Changed, Updated, Submitted, Approved, Rejected, Row, RowWith
<1>5. QED BY <1>2, <1>3, <1>4

\* The review that a request of this kind may have in hand.
Fits(op, j) ==
    /\ j \subseteq reviews \ dropped
    /\ j = {} \/ \E k \in Jobs : j = {k}
    /\ op = "review" <=> j # {}
    /\ op # "sign in"

\* What a handler makes of the row it loads is no better than the row.
LEMMA LoadedIsGood ==
    ASSUME IInv, row # NoRow, NEW op \in Operations, NEW e \in Edits,
           NEW j \in SUBSET Jobs, Allowed(op), Fits(op, j)
    PROVE  /\ Loaded(op, e, j) \in Call /\ Good(Loaded(op, e, j))
           /\ Loaded(op, e, j).job = j /\ InHand(Loaded(op, e, j)) = j
<1> DEFINE c == Loaded(op, e, j)
<1>1. TypeOK /\ row \in Row /\ (j # {} <=> (op = "review"))
  BY DEF IInv, TypeOK, Fits
<1>2. Changed(op, e) \in Row
  BY <1>1, ChangedIsRow
<1>3. /\ AfterLoad(op) \in {"set code", "find", "compare"}
      /\ AfterLoad(op) \in Points /\ (op = "review" => AfterLoad(op) = "compare")
  BY DEF AfterLoad, Points
<1>4. /\ c \in Call /\ c.job = j /\ c.op = op /\ c.at = AfterLoad(op)
      /\ c.copy = Changed(op, e)
  BY <1>1, <1>2, <1>3, IdleIsCall DEF Loaded, Idle, Call, TypeOK
<1> HIDE DEF c
<1>5. Changed(op, e).count <= Cardinality(counted) + Due(c)
  <2>1. Due(c) = IF op = "review" THEN 1 ELSE 0
    BY <1>1, <1>4 DEF Due
  <2>2. QED BY <2>1, LoadedCount
<1>6. op # "submit" /\ Locked(Changed(op, e)) => Granted
  <2>1. op # "submit" /\ Locked(Changed(op, e)) => Locked(row)
    BY <1>1 DEF Changed, Updated, Submitted, Approved, Rejected, Locked, Allowed,
                Row, RowWith
  <2>2. QED BY <2>1 DEF IInv
<1>7. InHand(c) = j
  <2>1. CASE c.at \in Pending
    BY <1>4, <2>1, HandIsJob
  <2>2. CASE c.at \notin Pending
    <3>1. c.job = {}
      BY <1>1, <1>3, <1>4, <2>2 DEF Pending, Working
    <3>2. QED BY <1>4, <3>1, HandIsJob
  <2>3. QED BY <2>1, <2>2
<1>8. c \in Call /\ Good(c)
  BY <1>3, <1>4, <1>5, <1>6 DEF Good, Promoting, Fits
<1>9. QED BY <1>4, <1>7, <1>8 DEF c

-----------------------------------------------------------------------------
(* The inductive invariant.                                                *)

LEMMA Initially == Init => IInv
<1> SUFFICES ASSUME Init PROVE IInv
  OBVIOUS
<1>1. Cardinality({}) = 0 /\ counted = {}
  BY FS_EmptySet DEF Init, counted
<1>2. row \in RowWith({0}) => row \in Row
  BY DEF RowWith, Row
<1>3. NoRow.status = "none" /\ (row # NoRow => row.status \in Statuses)
  BY NoRowIsNoRow, <1>2 DEF Init, Row, RowWith
<1>4. proved \subseteq Numbers
  BY <1>2 DEF Init, Sound, Row, RowWith
<1>5. promoted \in BOOLEAN /\ mailed \in BOOLEAN
  BY DEF Init
<1>6. TypeOK
  <2>1. calls \in [Handlers -> Call] /\ begun \in 0 .. MaxCalls
    BY IdleIsCall, ProfileAssumption DEF Init
  <2>2. row \in Row \union {NoRow} /\ docs \subseteq DocIds
    BY <1>2 DEF Init
  <2>3. {promoted, orphaned, overwritten, mailed, swapped, stale} \subseteq BOOLEAN
    BY <1>5 DEF Init
  <2>4. QED BY <1>4, <2>1, <2>2, <2>3 DEF Init, TypeOK
<1>7. \A h \in Handlers : calls[h] = Idle
  BY DEF Init
<1>8. RatingNeverInflated
  BY <1>1 DEF Init, RatingNeverInflated, Sound
<1>9. row # NoRow /\ Locked(row) => Granted
  BY <1>3 DEF Init, Locked, Granted
<1>10. QED BY <1>6, <1>7, <1>8, <1>9, IdleIsHarmless DEF IInv, Init

\* Facts every step starts from.
LEMMA Here ==
    ASSUME IInv, NEW h \in Handlers
    PROVE  /\ TypeOK /\ calls[h] \in Call /\ Good(calls[h])
           /\ \A g \in Handlers \ {h} : Apart(calls[g], calls[h])
           /\ row = NoRow \/ row \in Row
           /\ calls[h].at \notin Rowless => row \in Row /\ row # NoRow
BY NoRowIsNoRow DEF IInv, TypeOK, Good

\* What a call that changes neither the role nor its hand has to show.
LEMMA Aside ==
    ASSUME NEW h \in Handlers, NEW c,
           UNCHANGED <<dropped, promoted, orphaned, overwritten>>,
           InHand(c) = InHand(calls[h]), ~ Owed(calls[h])
    PROVE  HandKept(h, c) /\ RoleKept(h, c)
BY DEF HandKept, RoleKept

\* Where a call is tells what it has in hand and whether the role is owed.
LEMMA HandOfCall ==
    ASSUME NEW h \in Handlers
    PROVE  /\ calls[h].at \notin Pending => InHand(calls[h]) = {}
           /\ calls[h].at \notin Promoting => ~ Owed(calls[h])
           /\ \A p : At(h, p) <=> calls[h].at = p
BY HandIsJob DEF Owed, At

\* A request begins: nobody is at work for it.
LEMMA BeginsFree ==
    ASSUME IInv, NEW h \in Handlers, Begin(h)
    PROVE  /\ begun' \in 0 .. MaxCalls
           /\ InHand(calls[h]) = {} /\ ~ Owed(calls[h])
<1>1. calls[h].at = "done" /\ begun < MaxCalls /\ begun' = begun + 1
  BY DEF Begin, At
<1>2. begun' \in 0 .. MaxCalls
  BY <1>1, ProfileAssumption DEF IInv, TypeOK
<1>3. QED BY <1>1, <1>2, HandOfCall DEF Pending, Working, Promoting

LEMMA OpenStep ==
    ASSUME IInv, NEW h \in Handlers, NEW op \in Operations, NEW e \in Edits,
           op \notin {"review", "verify", "sign in"}, Open(h, op, e)
    PROVE  IInv' /\ counted' = counted
<1>1. /\ begun' \in 0 .. MaxCalls /\ TypeOK
      /\ InHand(calls[h]) = {} /\ ~ Owed(calls[h])
  BY Here, BeginsFree DEF Open
<1>2. UNCHANGED <<row, docs, otp, proved, swapped, promoted, orphaned, overwritten,
                  mailed, reviews, dropped, stale>>
  BY DEF Open, phone, user, rating
<1>3. ASSUME NEW c \in Call, Set(h, c), Good(c), InHand(c) = {}, \A d : Apart(d, c)
      PROVE  IInv' /\ counted' = counted
  BY <1>1, <1>2, <1>3, Aside, RowStays DEF IInv, TypeOK
<1>4. CASE row = NoRow /\ Set(h, [Idle EXCEPT !.op = op, !.at = "create",
                                              !.edit = e])
  <2>1. PICK c \in Call : c = [Idle EXCEPT !.op = op, !.at = "create",
                                           !.edit = e]
    BY IdleIsCall DEF Idle, Call, Points
  <2>2. c.at = "create" /\ c.job = {} /\ c.op \notin {"review", "sign in"}
    BY <2>1 DEF Idle
  <2>3. Good(c) /\ InHand(c) = {} /\ \A d : Apart(d, c)
    BY <2>2, Harmless DEF Pending, Working, Promoting, Rowless
  <2>4. QED BY <1>3, <1>4, <2>1, <2>3
<1>5. CASE row # NoRow /\ Allowed(op) /\ Set(h, Loaded(op, e, {}))
  <2>1. PICK c \in Call : c = Loaded(op, e, {}) /\ Good(c) /\ c.job = {}
                          /\ InHand(c) = {}
    <3>1. Fits(op, {})
      BY DEF Fits
    <3>2. QED BY <1>5, <3>1, LoadedIsGood
  <2>2. \A d : Apart(d, c)
    BY <2>1 DEF Apart
  <2>3. QED BY <1>3, <1>5, <2>1, <2>2
<1>6. QED BY <1>4, <1>5 DEF Open

LEMMA CreateStep ==
    ASSUME IInv, NEW h \in Handlers, Create(h)
    PROVE  IInv' /\ counted' = counted
<1>1. /\ TypeOK /\ calls[h] \in Call /\ calls[h].at = "create"
      /\ calls[h].job = {} /\ calls[h].op # "review"
      /\ InHand(calls[h]) = {} /\ ~ Owed(calls[h])
  BY Here, HandOfCall DEF Create, Good, Pending, Working, Promoting
<1>2. UNCHANGED <<docs, otp, proved, swapped, promoted, orphaned, overwritten,
                  mailed, reviews, dropped, begun, stale>>
  BY DEF Create, phone, user, rating
<1>3. CASE row = NoRow /\ row' = Draft /\ Goto(h, "load")
  <2>1. PICK c \in Call : c = [calls[h] EXCEPT !.at = "load"]
    BY <1>1 DEF Call, Points
  <2>2. c.at = "load" /\ c.job = {} /\ c.op = calls[h].op /\ Set(h, c)
    BY <1>1, <1>3, <2>1 DEF Call, Goto
  <2>3. Draft \in Row /\ Draft.count = 0 /\ Draft.status = "draft"
    BY IdleIsCall DEF Draft, Empty
  <2>4. Draft # NoRow
    BY <2>3, NoRowIsNoRow
  <2>5. c.op # "sign in"
    BY <1>1, <1>3, <2>2 DEF IInv, Good
  <2>6. Good(c)' /\ InHand(c) = {} /\ \A d : Apart(d, c)
    BY <1>1, <1>3, <2>2, <2>4, <2>5, HandIsJob
    DEF Good, Apart, Working, Promoting
  <2>7. HandKept(h, c) /\ RoleKept(h, c)
    BY <1>1, <1>2, <2>6, Aside
  <2>8. calls' \in [Handlers -> Call]
    BY <1>1, <2>2, CallsReplaced DEF TypeOK
  <2>9. TypeOK'
    BY <1>1, <1>2, <1>3, <2>3, <2>8 DEF TypeOK
  <2>10. Cardinality(counted) \in Nat /\ counted' = counted
    BY <1>1, <1>2, <2>2, <2>7, CountedIsFinite, CountedStays
  <2>11. RatingNeverInflated' /\ ~ Locked(row')
    BY <1>3, <2>3, <2>10 DEF RatingNeverInflated, Locked
  <2>12. \A g \in Handlers \ {h} :
           calls[g].at \in Pending => calls[g].job \intersect dropped' = {}
    BY <1>2 DEF IInv, Good
  <2>13. QED BY <1>1, <1>2, <1>3, <2>2, <2>4, <2>6, <2>7, <2>9, <2>10, <2>11,
                <2>12, OneCallMoves
<1>4. CASE row # NoRow /\ Return(h) /\ UNCHANGED row
  BY <1>1, <1>2, <1>4, IdleIsHarmless, Aside, RowStays DEF Return, IInv, TypeOK
<1>5. QED BY <1>3, <1>4 DEF Create

LEMMA LoadStep ==
    ASSUME IInv, NEW h \in Handlers, Load(h)
    PROVE  IInv' /\ counted' = counted
<1> DEFINE b == calls[h]
<1>1. /\ TypeOK /\ b \in Call /\ b.at = "load"
      /\ row # NoRow /\ Good(b) /\ ~ Owed(b) /\ InHand(b) = b.job
      /\ \A g \in Handlers \ {h} : Apart(calls[g], b)
  BY Here, HandOfCall, HandIsJob DEF Load, Pending, Promoting, Rowless
<1>2. /\ UNCHANGED <<row, docs, otp, proved, promoted, orphaned, overwritten,
                     mailed, reviews, begun, stale>>
      /\ swapped' \in BOOLEAN
  BY <1>1 DEF Load, user, TypeOK
<1>3. CASE Allowed(b.op) /\ Set(h, Loaded(b.op, b.edit, b.job)) /\ UNCHANGED dropped
  <2>1. /\ b.op \in Operations /\ b.edit \in Edits /\ b.job \in SUBSET Jobs
        /\ Fits(b.op, b.job)
    BY <1>1 DEF Call, Good, Pending, Fits
  <2>2. PICK op \in Operations, e \in Edits, j \in SUBSET Jobs :
          op = b.op /\ e = b.edit /\ j = b.job
    BY <2>1
  <2> DEFINE c == Loaded(op, e, j)
  <2>3. Allowed(op) /\ Fits(op, j)
    BY <1>3, <2>1, <2>2
  <2>4. c \in Call /\ Good(c) /\ c.job = b.job /\ InHand(c) = b.job
    BY <1>1, <2>2, <2>3, LoadedIsGood
  <2>5. Set(h, c)
    BY <1>3, <2>2 DEF c
  <2> HIDE DEF c
  <2>6. \A g \in Handlers \ {h} : Apart(calls[g], c)
    BY <1>1, <2>4 DEF Apart, Pending
  <2>7. HandKept(h, c) /\ RoleKept(h, c)
    BY <1>1, <1>2, <1>3, <2>4, Aside
  <2>8. QED BY <1>1, <1>2, <1>3, <2>4, <2>5, <2>6, <2>7, RowStays DEF IInv, TypeOK
<1>4. CASE Throw(h)
  BY <1>1, <1>2, <1>4, IdleIsHarmless, HandOfReturn, RowStays
  DEF Throw, Return, IInv, TypeOK, RoleKept
<1>5. QED BY <1>3, <1>4 DEF Load

LEMMA CompareStep ==
    ASSUME IInv, NEW h \in Handlers, Compare(h)
    PROVE  IInv' /\ counted' = counted
<1>1. /\ TypeOK /\ calls[h] \in Call /\ calls[h].at = "compare"
      /\ row # NoRow /\ Good(calls[h]) /\ ~ Owed(calls[h])
      /\ InHand(calls[h]) = calls[h].job
      /\ \A g \in Handlers \ {h} : Apart(calls[g], calls[h])
  BY Here, HandOfCall, HandIsJob DEF Compare, Pending, Working, Promoting, Rowless
<1>2. PICK cols \in SUBSET Columns, list \in SUBSET DocIds :
        Set(h, [calls[h] EXCEPT !.at = "write", !.cols = cols, !.docs = list])
  <2> DEFINE c == calls[h]
             looked == IF Full(c.op) THEN Columns ELSE Columns \ {"skills"}
             cols == {x \in looked : c.copy[x] # row[x]}
             list == IF Full(c.op) THEN docs \ c.docs ELSE {}
  <2>1. looked \subseteq Columns
    OBVIOUS
  <2>2. cols \in SUBSET Columns /\ list \in SUBSET DocIds
    BY <1>1, <2>1 DEF TypeOK
  <2>3. Set(h, [c EXCEPT !.at = "write", !.cols = cols, !.docs = list])
    BY <1>1 DEF Compare, Call
  <2>4. QED BY <2>2, <2>3
<1>3. PICK c \in Call : c = [calls[h] EXCEPT !.at = "write", !.cols = cols,
                                             !.docs = list]
  BY <1>1 DEF Call, Points
<1>4. /\ c.at = "write" /\ c.job = calls[h].job /\ c.op = calls[h].op
      /\ c.copy = calls[h].copy /\ InHand(c) = c.job
  BY <1>1, <1>3, HandIsJob DEF Call, Pending, Working
<1>5. Good(c) /\ \A g \in Handlers \ {h} : Apart(calls[g], c)
  BY <1>1, <1>4 DEF Good, Apart, Pending, Working, Promoting, Due
<1>6. UNCHANGED <<row, docs, otp, proved, swapped, promoted, orphaned, overwritten,
                  mailed, reviews, dropped, begun, stale>>
  BY DEF Compare, phone, user, rating
<1>7. HandKept(h, c) /\ RoleKept(h, c)
  BY <1>1, <1>4, <1>6, Aside
<1>8. QED BY <1>1, <1>2, <1>3, <1>5, <1>6, <1>7, RowStays DEF IInv, TypeOK

LEMMA AfterWriteIsHarmless ==
    ASSUME IInv, NEW h \in Handlers, calls[h].at = "write"
    PROVE  LET c == AfterWrite(calls[h])
           IN  /\ c \in Call /\ c.at \in {"promote", "mail", "done"}
               /\ c.job = {} /\ c.op \notin {"review", "sign in"}
               /\ c.at = "promote" => c.op = "submit"
               /\ calls[h].op = "submit" => Owed(c)
<1>1. calls[h] \in Call /\ Good(calls[h])
  BY Here
<1>2. QED BY <1>1, IdleIsCall
          DEF AfterWrite, Good, Call, Points, Idle, Owed, Promoting

LEMMA WriteStep ==
    ASSUME IInv, NEW h \in Handlers, Write(h)
    PROVE  /\ IInv'
           /\ \/ /\ UNCHANGED <<row, stale, counted>> /\ Set(h, Idle)
              \/ /\ row' = Written(calls[h])
                 /\ counted' = counted \union calls[h].job
                 /\ stale' = (stale \/ ~ calls[h].fresh)
                 /\ \/ calls[h].cols = {} /\ Set(h, AfterWrite(calls[h]))
                    \/ calls[h].cols # {} /\ Overtake(h, AfterWrite(calls[h]))
<1> DEFINE b == calls[h]
<1>1. /\ TypeOK /\ b \in Call /\ b.at = "write" /\ row \in Row
      /\ row # NoRow /\ Good(b) /\ ~ Owed(b) /\ InHand(b) = b.job
      /\ \A g \in Handlers \ {h} : Apart(calls[g], b)
  BY Here, HandOfCall, HandIsJob DEF Write, Pending, Working, Promoting, Rowless
<1>2. UNCHANGED <<docs, otp, proved, swapped, promoted, orphaned, overwritten,
                  mailed, reviews, begun>>
  BY DEF Write, phone, user
<1>3. CASE Throw(h) /\ UNCHANGED <<row, stale>>
  BY <1>1, <1>2, <1>3, IdleIsHarmless, HandOfReturn, RowStays
  DEF Throw, Return, IInv, TypeOK, RoleKept
<1>4. CASE /\ row' = Written(b)
           /\ \/ b.cols = {} /\ Set(h, AfterWrite(b))
              \/ b.cols # {} /\ Overtake(h, AfterWrite(b))
           /\ stale' = (stale \/ ~ b.fresh)
           /\ UNCHANGED dropped
  <2>1. PICK c \in Call : c = AfterWrite(b)
    BY <1>1, AfterWriteIsHarmless
  <2>2. /\ c.at \in {"promote", "mail", "done"} /\ c.job = {}
        /\ c.op \notin {"review", "sign in"}
        /\ c.at = "promote" => c.op = "submit"
        /\ b.op = "submit" => Owed(c)
    BY <1>1, <2>1, AfterWriteIsHarmless
  <2>3. /\ row' \in Row /\ row' # NoRow
        /\ row'.status \in {row.status, b.copy.status}
        /\ row'.count \in {row.count, b.copy.count}
    BY <1>1, <1>4, WrittenIsRow, NoRowIsNoRow
  <2>4. calls' \in [Handlers -> Call] /\ calls'[h] = c
    BY <1>1, <1>4, <2>1, CallsReplaced DEF TypeOK
  <2>5. b.job \subseteq reviews \ dropped /\ b.job \intersect Others(h) = {}
    <3>1. b.job \subseteq reviews \ dropped
      BY <1>1 DEF Good, Pending, Working
    <3>2. ASSUME NEW g \in Handlers \ {h}
          PROVE  b.job \intersect InHand(calls[g]) = {}
      BY <1>1, HandIsJob DEF Apart, Pending, Working
    <3>3. QED BY <3>1, <3>2 DEF Others
  <2>6. counted' = counted \union b.job /\ b.job \intersect counted = {}
    <3>1. counted = reviews \ (dropped \union b.job \union Others(h))
      BY <1>1, <1>4, <2>1, CountedMoves DEF TypeOK
    <3>2. InHand(c) = {}
      BY <2>2, HandIsJob
    <3>3. counted' = reviews' \ (dropped' \union {} \union Others(h))
      BY <1>1, <1>4, <2>1, <3>2, CountedMoves DEF TypeOK
    <3>4. QED BY <1>2, <1>4, <2>5, <3>1, <3>3
  <2>7. stale' \in BOOLEAN /\ TypeOK'
    BY <1>1, <1>2, <1>4, <2>3, <2>4 DEF TypeOK, Call
  <2>8. /\ Cardinality(counted) \in Nat
        /\ Cardinality(counted') = Cardinality(counted) + Due(b)
    <3>1. CASE b.job = {}
      BY <1>1, <2>6, <3>1, CountedIsFinite DEF Due
    <3>2. CASE b.job # {}
      <4>1. PICK j \in Jobs : b.job = {j}
        BY <1>1, <3>2 DEF Good
      <4>2. QED BY <1>1, <2>6, <3>2, <4>1, CountedIsFinite DEF Due
    <3>3. QED BY <3>1, <3>2
  <2>9. RatingNeverInflated'
    <3>1. row.count \in Nat /\ b.copy.count \in Nat /\ Due(b) \in {0, 1}
      BY <1>1 DEF Row, RowWith, Call, Due
    <3>2. row.count <= Cardinality(counted)
      BY <1>1 DEF IInv, RatingNeverInflated
    <3>3. b.copy.count <= Cardinality(counted) + Due(b)
      BY <1>1 DEF Good, Working
    <3>4. QED BY <2>3, <2>8, <3>1, <3>2, <3>3 DEF RatingNeverInflated
  <2>10. RoleKept(h, c)
    BY <1>1, <1>2 DEF RoleKept
  <2>11. Granted => Granted'
    BY <1>1, <1>4, <2>1, <2>10, GrantedStays DEF TypeOK
  <2>12. Locked(row') => Granted'
    <3>1. CASE Locked(row)
      BY <1>1, <2>11, <3>1 DEF IInv
    <3>2. CASE b.op = "submit"
      BY <2>2, <2>4, <3>2 DEF Granted, Owed
    <3>3. CASE Locked(b.copy) /\ b.op # "submit"
      BY <1>1, <2>11, <3>3 DEF Good, Working
    <3>4. QED BY <2>3, <3>1, <3>2, <3>3 DEF Locked
  <2>13. Good(c)' /\ \A d : Apart(d, c)
    BY <2>2, <2>3 DEF Good, Apart, Pending, Working, Promoting
  <2>14. \A g \in Handlers \ {h} :
           calls[g].at \in Pending => calls[g].job \intersect dropped' = {}
    BY <1>4 DEF IInv, Good
  <2>15. Cardinality(counted) <= Cardinality(counted')
    BY <2>8 DEF Due
  <2>16. IInv'
    BY <1>1, <1>2, <1>4, <2>1, <2>3, <2>7, <2>9, <2>10, <2>12, <2>13, <2>14, <2>15,
       OneCallMoves
  <2>17. QED BY <1>4, <2>6, <2>16
<1>5. QED BY <1>3, <1>4 DEF Write

\* The steps that end a request: the mail, the code, an error.
LEMMA LastStep ==
    ASSUME IInv, NEW h \in Handlers, Mail(h) \/ SetCode(h) \/ Fail(h)
    PROVE  IInv' /\ counted' = counted
<1>1. /\ TypeOK /\ calls[h] \in Call /\ Good(calls[h])
      /\ calls[h].at = "set code" => row # NoRow
      /\ {orphaned, overwritten, mailed, swapped, stale} \subseteq BOOLEAN
  BY Here DEF TypeOK, Rowless
<1>2. /\ Set(h, Idle)
      /\ UNCHANGED <<row, docs, proved, swapped, promoted, overwritten, reviews,
                     begun, stale>>
  BY DEF Mail, SetCode, Fail, Throw, Return, phone, user, rating
<1>3. otp' \in {otp, calls[h].copy.phone} /\ (row = NoRow => otp' = otp)
  BY <1>1 DEF Mail, SetCode, Fail, phone, At
<1>4. otp' \in Numbers \union {NoNumber} /\ (row = NoRow => otp' = NoNumber /\ ~ stale')
  BY <1>1, <1>2, <1>3 DEF IInv, TypeOK, Call, Row, RowWith
<1>5. mailed' \in BOOLEAN /\ orphaned' \in BOOLEAN
  BY <1>1 DEF Mail, SetCode, Fail, user
<1>6. RoleKept(h, Idle)
  <2>1. CASE Mail(h) \/ SetCode(h)
    <3>1. calls[h].at \in {"mail", "set code"} /\ UNCHANGED orphaned
      BY <2>1 DEF Mail, SetCode, user, At
    <3>2. QED BY <1>2, <3>1 DEF RoleKept, Owed, Promoting
  <2>2. CASE Fail(h)
    <3>1. orphaned' = (orphaned \/ Owed(calls[h]))
      BY <2>2 DEF Fail, Owed
    <3>2. QED BY <1>2, <3>1 DEF RoleKept
  <2>3. QED BY <2>1, <2>2
<1>7. HandKept(h, Idle)
  <2>1. CASE Mail(h) \/ SetCode(h)
    <3>1. calls[h].at \in {"mail", "set code"} /\ UNCHANGED dropped
      BY <2>1 DEF Mail, SetCode, rating, At
    <3>2. QED BY <3>1, HandOfCall, HandOfReturn DEF Pending, Working
  <2>2. CASE Fail(h)
    BY <2>2, HandOfReturn DEF Fail
  <2>3. QED BY <2>1, <2>2
<1>8. promoted' \in BOOLEAN
  BY <1>1, <1>2 DEF TypeOK
<1>9. QED BY <1>1, <1>2, <1>4, <1>5, <1>6, <1>7, <1>8, IdleIsHarmless, RowStays
          DEF TypeOK

\* promoteToProvider and the other saves of the user's row.
LEMMA UserStep ==
    ASSUME IInv, NEW h \in Handlers,
           Promote(h) \/ SignIn(h) \/ CompareUser(h) \/ WriteUser(h)
    PROVE  IInv' /\ counted' = counted
<1> DEFINE b == calls[h]
<1>1. /\ TypeOK /\ b \in Call /\ Good(b) /\ InHand(b) = {}
      /\ begun' \in 0 .. MaxCalls
      /\ {promoted, orphaned, overwritten, mailed, swapped, stale} \subseteq BOOLEAN
  <2>1. TypeOK /\ b \in Call /\ Good(b)
    BY Here
  <2>2. b.at \in {"promote", "save user", "write user", "done"}
    BY DEF Promote, SignIn, CompareUser, WriteUser, Begin, At
  <2>3. begun' = begun \/ Begin(h)
    BY DEF Promote, SignIn, CompareUser, WriteUser
  <2>4. begun' \in 0 .. MaxCalls
    BY <2>1, <2>3, BeginsFree DEF TypeOK
  <2>5. InHand(b) = {}
    BY <2>2, HandOfCall DEF Pending, Working
  <2>6. QED BY <2>1, <2>4, <2>5 DEF TypeOK
<1>2. UNCHANGED <<row, docs, otp, proved, swapped, mailed, reviews, dropped, stale>>
  BY DEF Promote, SignIn, CompareUser, WriteUser, phone, user, rating
<1>3. promoted' \in BOOLEAN /\ orphaned' \in BOOLEAN /\ overwritten' \in BOOLEAN
  BY <1>1 DEF Promote, SignIn, CompareUser, WriteUser, user, Call
<1>4. ASSUME NEW c \in Call, Set(h, c), Good(c), InHand(c) = {}, \A d : Apart(d, c),
             RoleKept(h, c)
      PROVE  IInv' /\ counted' = counted
  <2>1. HandKept(h, c)
    BY <1>1, <1>2, <1>4 DEF HandKept
  <2>2. QED BY <1>1, <1>2, <1>3, <1>4, <2>1, RowStays DEF IInv, TypeOK
<1>5. CASE Promote(h)
  <2>1. b.at = "promote" /\ b.op = "submit" /\ b.job = {}
    BY <1>1, <1>5, HandOfCall DEF Promote, Good, Promoting
  <2>2. CASE Set(h, [b EXCEPT !.at = "save user", !.role = TRUE])
    <3>1. PICK c \in Call : c = [b EXCEPT !.at = "save user", !.role = TRUE]
      BY <1>1 DEF Call, Points
    <3>2. c.at = "save user" /\ c.op = "submit" /\ c.role /\ c.job = {}
      BY <1>1, <2>1, <3>1 DEF Call
    <3>3. Good(c) /\ InHand(c) = {} /\ \A d : Apart(d, c)
      BY <3>2, HandIsJob DEF Good, Apart, Pending, Working, Promoting, Rowless
    <3>4. Owed(c)
      BY <3>2 DEF Owed, Promoting
    <3>5. UNCHANGED <<promoted, overwritten>> /\ (orphaned => orphaned')
      BY <1>5 DEF Promote
    <3>6. RoleKept(h, c)
      BY <3>4, <3>5 DEF RoleKept
    <3>7. QED BY <1>4, <2>2, <3>1, <3>3, <3>6
  <2>3. CASE Return(h) /\ orphaned' = TRUE
    <3>1. UNCHANGED <<promoted, overwritten>>
      BY <1>5 DEF Promote
    <3>2. RoleKept(h, Idle)
      BY <2>3, <3>1 DEF RoleKept
    <3>3. QED BY <1>4, <2>3, <3>2, IdleIsHarmless DEF Return
  <2>4. QED BY <1>5, <2>2, <2>3 DEF Promote
<1>6. CASE SignIn(h)
  <2>1. PICK c \in Call : c = [Idle EXCEPT !.op = "sign in", !.at = "save user",
                                           !.role = promoted]
    <3>1. \A r \in BOOLEAN : [Idle EXCEPT !.op = "sign in", !.at = "save user",
                                          !.role = r] \in Call
      BY IdleIsCall DEF Idle, Call, Points, Operations
    <3>2. promoted \in BOOLEAN
      BY <1>1
    <3>3. QED BY <3>1, <3>2
  <2>2. c.at = "save user" /\ c.op = "sign in" /\ c.job = {}
    BY <2>1 DEF Idle
  <2>3. Good(c) /\ InHand(c) = {} /\ \A d : Apart(d, c)
    BY <2>2, HandIsJob DEF Good, Apart, Pending, Working, Promoting, Rowless
  <2>4. RoleKept(h, c)
    BY <1>6, HandOfCall DEF SignIn, Begin, user, RoleKept, Promoting
  <2>5. QED BY <1>4, <1>6, <2>1, <2>3, <2>4 DEF SignIn
<1>7. CASE CompareUser(h)
  <2>1. b.at = "save user" /\ UNCHANGED <<promoted, orphaned, overwritten>>
    BY <1>7, HandOfCall DEF CompareUser, user
  <2>2. CASE b.role = promoted /\ Return(h)
    <3>1. RoleKept(h, Idle)
      BY <1>1, <2>1, <2>2 DEF RoleKept, Owed, Good, Promoting
    <3>2. QED BY <1>4, <2>2, <3>1, IdleIsHarmless DEF Return
  <2>3. CASE Goto(h, "write user")
    <3>1. PICK c \in Call : c = [b EXCEPT !.at = "write user"]
      BY <1>1 DEF Call, Points
    <3>2. c.at = "write user" /\ c.op = b.op /\ c.role = b.role /\ c.job = b.job
      BY <1>1, <3>1 DEF Call
    <3>3. Good(c) /\ InHand(c) = {} /\ \A d : Apart(d, c)
      BY <1>1, <2>1, <3>2, HandIsJob
      DEF Good, Apart, Pending, Working, Promoting, Rowless
    <3>4. RoleKept(h, c)
      BY <2>1, <3>2 DEF RoleKept, Owed, Promoting
    <3>5. QED BY <1>4, <2>3, <3>1, <3>3, <3>4 DEF Goto
  <2>4. QED BY <1>7, <2>2, <2>3 DEF CompareUser
<1>8. CASE WriteUser(h)
  <2>1. /\ b.at = "write user" /\ Set(h, Idle) /\ orphaned' = orphaned
        /\ promoted' = b.role /\ overwritten' = (overwritten \/ ~ b.role)
    BY <1>8, HandOfCall DEF WriteUser, Return
  <2>2. RoleKept(h, Idle)
    BY <1>1, <2>1 DEF RoleKept, Owed, Good, Promoting, Call
  <2>3. QED BY <1>4, <2>1, <2>2, IdleIsHarmless
<1>9. QED BY <1>5, <1>6, <1>7, <1>8

LEMMA ExpireStep ==
    ASSUME IInv, Expire \/ UNCHANGED vars
    PROVE  IInv' /\ counted' = counted
<1>1. /\ UNCHANGED <<row, docs, proved, swapped, promoted, orphaned, overwritten,
                     mailed, reviews, dropped, calls, begun, stale>>
      /\ otp' \in {otp, NoNumber}
  BY DEF Expire, vars, phone, user, rating
<1>2. TypeOK' /\ counted' = counted
  BY <1>1 DEF IInv, TypeOK, counted, InHand
<1>3. Granted' <=> Granted
  BY <1>1 DEF Granted, Owed
<1>4. \A h \in Handlers : Good(calls[h])'
  BY <1>1, <1>2, <1>3 DEF IInv, Good
<1>5. \A g, h \in Handlers : g # h => Apart(calls[g], calls[h])'
  BY <1>1 DEF IInv, Apart
<1>6. QED BY <1>1, <1>2, <1>3, <1>4, <1>5 DEF IInv, RatingNeverInflated

LEMMA EnterCodeStep ==
    ASSUME IInv, NEW h \in Handlers, EnterCode(h)
    PROVE  IInv' /\ counted' = counted
<1>1. /\ begun' \in 0 .. MaxCalls /\ TypeOK /\ row # NoRow
      /\ InHand(calls[h]) = {} /\ ~ Owed(calls[h])
  BY Here, BeginsFree DEF EnterCode, IInv
<1>2. PICK c \in Call : c = [Idle EXCEPT !.op = "verify", !.at = "consume",
                                         !.edit.phone = otp]
  <2>1. [Absent EXCEPT !.phone = otp] \in Edits
    BY <1>1 DEF TypeOK, Absent, Edits
  <2>2. \A e \in Edits : [Idle EXCEPT !.op = "verify", !.at = "consume",
                                      !.edit = e] \in Call
    BY IdleIsCall DEF Idle, Call, Points, Operations
  <2>3. [Idle EXCEPT !.op = "verify", !.at = "consume", !.edit.phone = otp]
          = [Idle EXCEPT !.op = "verify", !.at = "consume",
                         !.edit = [Absent EXCEPT !.phone = otp]]
    BY DEF Idle
  <2>4. QED BY <2>1, <2>2, <2>3
<1>3. /\ c.at = "consume" /\ c.job = {} /\ c.op = "verify"
      /\ c.edit.phone # NoNumber
  BY <1>2 DEF EnterCode, Idle, Absent
<1>4. Good(c) /\ InHand(c) = {} /\ \A d : Apart(d, c)
  BY <1>1, <1>3, Harmless DEF Pending, Working, Promoting
<1>5. UNCHANGED <<row, docs, otp, proved, swapped, promoted, orphaned, overwritten,
                  mailed, reviews, dropped, stale>>
  BY DEF EnterCode, phone, user, rating
<1>6. QED BY <1>1, <1>2, <1>4, <1>5, Aside, RowStays DEF EnterCode, IInv, TypeOK

LEMMA ConsumeStep ==
    ASSUME IInv, NEW h \in Handlers, Consume(h)
    PROVE  IInv' /\ counted' = counted
<1>1. /\ TypeOK /\ calls[h] \in Call /\ calls[h].at = "consume"
      /\ row # NoRow /\ Good(calls[h])
      /\ InHand(calls[h]) = {} /\ ~ Owed(calls[h])
  BY Here, HandOfCall DEF Consume, Pending, Working, Promoting, Rowless
<1>2. PICK c \in Call : c = [calls[h] EXCEPT !.at = "load"]
  BY <1>1 DEF Call, Points
<1>3. /\ c.at = "load" /\ c.job = {} /\ c.op = calls[h].op /\ Set(h, c)
      /\ c.op \notin {"review", "sign in"}
  BY <1>1, <1>2 DEF Consume, Goto, Call, Good
<1>4. Good(c) /\ InHand(c) = {} /\ \A d : Apart(d, c)
  BY <1>1, <1>3, HandIsJob DEF Good, Apart, Working, Promoting
<1>5. otp' = NoNumber /\ proved' \subseteq Numbers
  BY <1>1 DEF Consume, Good, TypeOK, Call, Edits
<1>6. UNCHANGED <<row, docs, swapped, promoted, orphaned, overwritten, mailed,
                  reviews, dropped, begun, stale>>
  BY DEF Consume, user, rating
<1>7. QED BY <1>1, <1>3, <1>4, <1>5, <1>6, Aside, RowStays DEF TypeOK

\* confirmDocument: no copy of the row is at work.
LEMMA DocumentStep ==
    ASSUME IInv, NEW h \in Handlers, NEW d \in DocIds,
           Remove(h, d) \/ Add(h, d)
    PROVE  IInv' /\ counted' = counted
<1>1. /\ TypeOK /\ calls[h] \in Call /\ calls[h].at = "replace"
      /\ row # NoRow /\ Good(calls[h])
      /\ InHand(calls[h]) = {} /\ ~ Owed(calls[h])
  BY Here, HandOfCall DEF Remove, Add, Pending, Working, Promoting, Rowless
<1>2. /\ UNCHANGED <<row, otp, proved, swapped, promoted, orphaned, overwritten,
                     mailed, reviews, dropped, begun>>
      /\ docs' \subseteq DocIds /\ stale' \in BOOLEAN
  BY <1>1 DEF Remove, Add, phone, user, rating, TypeOK, Call
<1>3. PICK c \in Call : c = [calls[h] EXCEPT !.docs = @ \ {d}]
  BY <1>1 DEF Call
<1>4. Overtake(h, c) \/ Overtake(h, Idle)
  BY <1>3 DEF Remove, Add
<1>5. c.at = "replace" /\ c.job = calls[h].job /\ c.op = calls[h].op
  BY <1>1, <1>3 DEF Call
<1>6. Good(c) /\ InHand(c) = {} /\ \A b : Apart(b, c)
  BY <1>1, <1>5, Harmless DEF Good, Pending, Working, Promoting, Rowless
<1>7. QED BY <1>1, <1>2, <1>4, <1>6, Aside, IdleIsHarmless, RowStays DEF TypeOK

LEMMA FindStep ==
    ASSUME IInv, NEW h \in Handlers, Find(h)
    PROVE  IInv' /\ counted' = counted
<1>1. /\ TypeOK /\ calls[h] \in Call /\ calls[h].at = "find"
      /\ row # NoRow /\ Good(calls[h])
      /\ InHand(calls[h]) = {} /\ ~ Owed(calls[h])
  BY Here, HandOfCall DEF Find, Pending, Working, Promoting, Rowless
<1>2. PICK c \in Call : c = [calls[h] EXCEPT !.at = "replace", !.docs = docs]
  BY <1>1 DEF TypeOK, Call, Points
<1>3. c.at = "replace" /\ c.job = calls[h].job /\ c.op = calls[h].op
  BY <1>1, <1>2 DEF Call
<1>4. Good(c) /\ InHand(c) = {} /\ \A b : Apart(b, c)
  BY <1>1, <1>3, Harmless DEF Good, Pending, Working, Promoting, Rowless
<1>5. UNCHANGED <<row, docs, otp, proved, swapped, promoted, orphaned, overwritten,
                  mailed, reviews, dropped, begun, stale>>
  BY DEF Find, phone, user, rating
<1>6. QED BY <1>1, <1>2, <1>4, <1>5, Aside, RowStays DEF Find, IInv, TypeOK

LEMMA ReviewStep ==
    ASSUME IInv, NEW h \in Handlers, NEW j \in Jobs, Review(h, j)
    PROVE  IInv' /\ counted' = counted
<1>1. /\ begun' \in 0 .. MaxCalls /\ TypeOK /\ row # NoRow
      /\ InHand(calls[h]) = {} /\ ~ Owed(calls[h])
  BY Here, BeginsFree, NoRowIsNoRow DEF Review, IInv
<1>2. PICK c \in Call : c = [Idle EXCEPT !.op = "review", !.at = "store",
                                         !.job = {j}]
  BY IdleIsCall DEF Idle, Call, Points, Operations
<1>3. c.at = "store" /\ c.job = {j} /\ c.op = "review"
  BY <1>2 DEF Idle
<1>4. Good(c) /\ InHand(c) = {} /\ \A d : Apart(d, c)
  BY <1>1, <1>3, Harmless DEF Pending, Working, Promoting
<1>5. UNCHANGED <<row, docs, otp, proved, swapped, promoted, orphaned, overwritten,
                  mailed, reviews, dropped, stale>>
  BY DEF Review, phone, user, rating
<1>6. QED BY <1>1, <1>2, <1>4, <1>5, Aside, RowStays DEF Review, IInv, TypeOK

LEMMA StoreStep ==
    ASSUME IInv, NEW h \in Handlers, Store(h)
    PROVE  IInv' /\ counted' = counted
<1> DEFINE b == calls[h]
<1>1. /\ TypeOK /\ b \in Call /\ b.at = "store"
      /\ row # NoRow /\ Good(b) /\ InHand(b) = {} /\ ~ Owed(b)
  BY Here, HandOfCall DEF Store, Pending, Working, Promoting, Rowless
<1>2. UNCHANGED <<row, docs, otp, proved, swapped, promoted, orphaned, overwritten,
                  mailed, dropped, begun, stale>>
  BY DEF Store, phone, user
<1>3. CASE Return(h) /\ UNCHANGED reviews
  BY <1>1, <1>2, <1>3, IdleIsHarmless, Aside, RowStays DEF Return, IInv, TypeOK
<1>4. CASE /\ ~ (b.job \subseteq reviews)
           /\ Goto(h, "load") /\ reviews' = reviews \union b.job
  <2>1. PICK j \in Jobs : b.job = {j} /\ j \notin reviews
    BY <1>1, <1>4 DEF Good
  <2>2. PICK c \in Call : c = [b EXCEPT !.at = "load"]
    BY <1>1 DEF Call, Points
  <2>3. c.at = "load" /\ c.job = {j} /\ c.op = b.op /\ Set(h, c)
    BY <1>1, <1>4, <2>1, <2>2 DEF Call, Goto
  <2>4. calls' \in [Handlers -> Call] /\ InHand(c) = {j}
    BY <1>1, <2>3, CallsReplaced, HandIsJob DEF TypeOK, Pending
  <2>5. TypeOK'
    BY <1>1, <1>2, <1>4, <2>1, <2>4 DEF TypeOK
  <2>6. dropped \subseteq reviews /\ j \notin dropped
    BY <1>1, <2>1 DEF TypeOK
  <2>7. counted' = counted
    <3>1. counted = reviews \ (dropped \union {} \union Others(h))
      BY <1>1, <2>3, CountedMoves DEF TypeOK
    <3>2. counted' = reviews' \ (dropped' \union {j} \union Others(h))
      BY <1>1, <2>3, <2>4, CountedMoves DEF TypeOK
    <3>3. reviews' = reviews \union {j} /\ dropped' = dropped
      BY <1>2, <1>4, <2>1
    <3>4. QED BY <2>1, <3>1, <3>2, <3>3
  <2>8. RoleKept(h, c)
    BY <1>1, <1>2 DEF RoleKept
  <2>9. Granted => Granted'
    BY <1>1, <2>3, <2>8, GrantedStays DEF TypeOK
  <2>10. Good(c)'
    BY <1>1, <1>2, <1>4, <2>1, <2>3, <2>6 DEF Good, Working, Promoting
  <2>11. ASSUME NEW g \in Handlers \ {h}  PROVE Apart(calls[g], c)
    <3>1. calls[g].at \in Pending => calls[g].job \subseteq reviews
      BY DEF IInv, Good
    <3>2. QED BY <2>1, <2>3, <3>1 DEF Apart
  <2>12. RatingNeverInflated' /\ (row' # NoRow /\ Locked(row') => Granted')
    BY <1>2, <2>7, <2>9 DEF IInv, RatingNeverInflated
  <2>13. \A g \in Handlers \ {h} :
           calls[g].at \in Pending => calls[g].job \intersect dropped' = {}
    BY <1>2 DEF IInv, Good
  <2>14. Cardinality(counted) <= Cardinality(counted')
    BY <1>1, <2>7, CountedIsFinite
  <2>15. QED BY <1>1, <1>2, <1>4, <2>3, <2>5, <2>7, <2>8, <2>10, <2>11, <2>12,
                <2>13, <2>14, OneCallMoves
<1>5. QED BY <1>3, <1>4 DEF Store

-----------------------------------------------------------------------------
LEMMA Inductive == IInv /\ [Next]_vars => IInv'
<1> SUFFICES ASSUME IInv, [Next]_vars PROVE IInv'
  OBVIOUS
<1>1. ASSUME NEW h \in Handlers, 
             NEW op \in Operations \ {"update", "verify", "review", "sign in"},
             Open(h, op, Absent)
      PROVE  IInv'
  BY <1>1, OpenStep DEF Absent, Edits
<1>2. ASSUME NEW h \in Handlers, NEW e \in Edits, Open(h, "update", e)
      PROVE  IInv'
  BY <1>2, OpenStep DEF Operations
<1>3. ASSUME NEW h \in Handlers, NEW d \in DocIds, Remove(h, d) \/ Add(h, d)
      PROVE  IInv'
  BY <1>3, DocumentStep
<1>4. ASSUME NEW h \in Handlers, Find(h)
      PROVE  IInv'
  BY <1>4, FindStep
<1>5. ASSUME NEW h \in Handlers, NEW j \in Jobs, Review(h, j)
      PROVE  IInv'
  BY <1>5, ReviewStep
<1>6. ASSUME NEW h \in Handlers,
             \/ Mail(h) \/ SetCode(h) \/ Fail(h)
             \/ Promote(h) \/ SignIn(h) \/ CompareUser(h) \/ WriteUser(h)
      PROVE  IInv'
  BY <1>6, LastStep, UserStep
<1>7. QED BY <1>1, <1>2, <1>3, <1>4, <1>5, <1>6, CreateStep, LoadStep, CompareStep,
             WriteStep, EnterCodeStep, ConsumeStep, StoreStep, ExpireStep DEF Next

LEMMA Invariance == Spec => []IInv
BY Initially, Inductive, PTL DEF Spec

(* Every variable keeps its type.                                          *)
THEOREM ProfileTypeCorrect == Spec => []TypeOK
<1>1. IInv => TypeOK
  BY DEF IInv
<1>2. QED BY <1>1, Invariance, PTL

(* However saves of the profile row overlap, the rating never counts more  *)
(* than the reviews that were stored and saved.                            *)
THEOREM RatingIsBounded == Spec => []RatingNeverInflated
<1>1. IInv => RatingNeverInflated
  BY DEF IInv
<1>2. QED BY <1>1, Invariance, PTL

(* A locked application has its role, gets it from the submit in progress, *)
(* or lost it: to a submit that died or found no user between its two      *)
(* saves, or to another save of the user's row that had loaded it before.  *)
THEOREM LockedHasRole == Spec => []LockedIsPromoted
<1>1. IInv => LockedIsPromoted
  BY DEF IInv, LockedIsPromoted, Granted, Owed
<1>2. QED BY <1>1, Invariance, PTL

-----------------------------------------------------------------------------
(* As long as no call has written over another's work, a call that nobody  *)
(* has overtaken knows the row: it may still do what it was let in for,    *)
(* and its copy is what it makes of the row as it is now.                  *)

Looked(op) == IF Full(op) THEN Columns ELSE Columns \ {"skills"}

\* The call sends or has sent a code, so there is a number.
Numbered(c) == c.at = "set code" \/ (c.op = "verify" /\ c.at # "done")

Apt(c) ==
    /\ c.at \in {"find", "replace"} => c.op = "confirm"
    /\ c.at = "store" => c.op = "review"
    /\ c.at = "mail" => row.status = "approved"
    /\ Numbered(c) => row # NoRow /\ row.phone # NoNumber
    /\ c.op = "verify" /\ c.at = "load" => c.edit.phone \in proved
    /\ c.fresh /\ c.at \in Working =>
         /\ Allowed(c.op) /\ \E e \in Edits : c.copy = Changed(c.op, e)
         /\ c.op = "verify" => row.phone \in proved \/ swapped
    /\ c.fresh /\ c.at = "write" =>
         c.cols = {x \in Looked(c.op) : c.copy[x] # row[x]}
    /\ c.fresh /\ c.at \in {"find", "replace"} => Editable(row)

AptInv ==
    ~ stale => /\ Sound
               /\ row = NoRow => counted = {} /\ ~ mailed
               /\ otp # NoNumber => row.phone # NoNumber
               /\ \A h \in Handlers : Apt(calls[h])

\* What an allowed handler makes of a sound row is sound, and moves its
\* status along the life cycle.
LEMMA ChangedIsSound ==
    ASSUME row \in Row, Sound, NEW op \in Operations, NEW e \in Edits, Allowed(op),
           op = "verify" => row.phone # NoNumber, row # NoRow,
           NEW u, u = Changed(op, e)
    PROVE  /\ Locked(u) => Ready(u, docs)
           /\ u.reason <=> u.status = "rejected"
           /\ u.verified => /\ u.phone # NoNumber /\ u.phone = row.phone
                            /\ row.verified \/ op = "verify"
           /\ u.count = IF op = "review" THEN row.count + 1 ELSE row.count
           /\ row.status = "approved" \/ op = "approve" => u.status = "approved"
           /\ row.phone # NoNumber => u.phone # NoNumber
           /\ ~ Full(op) => u.skills = row.skills
           /\ u.status # row.status => <<row.status, u.status>> \in
                {<<"draft", "submitted">>, <<"rejected", "submitted">>,
                 <<"submitted", "approved">>, <<"submitted", "rejected">>}
<1>1. CASE op = "update"
  <2>1. /\ u.status = row.status /\ u.reason = row.reason /\ u.count = row.count
        /\ u.verified = (row.verified /\ e.phone \in {NoNumber, row.phone})
        /\ u.phone = IF e.phone = NoNumber THEN row.phone ELSE e.phone
    BY <1>1 DEF Changed, Updated, Row, RowWith
  <2>2. ~ Locked(u) /\ ~ Locked(row)
    BY <1>1, <2>1 DEF Allowed, Editing, Editable, Locked
  <2>3. QED BY <1>1, <2>1, <2>2 DEF Sound, Full
<1>2. CASE op = "verify"
  <2>1. u = [row EXCEPT !.verified = TRUE]
    BY <1>2 DEF Changed
  <2>2. /\ u.status = row.status /\ u.reason = row.reason /\ u.count = row.count
        /\ u.phone = row.phone /\ u.name = row.name /\ u.skills = row.skills
        /\ u.verified
    BY <2>1 DEF Row, RowWith
  <2>3. QED BY <1>2, <2>2 DEF Sound, Locked, Ready
<1>3. CASE op \in {"submit", "approve", "reject"}
  <2>1. /\ u.count = row.count /\ u.phone = row.phone /\ u.name = row.name
        /\ u.skills = row.skills /\ u.verified = row.verified
        /\ u.status = CASE op = "submit"  -> "submitted"
                       [] op = "approve" -> "approved"
                       [] op = "reject"  -> "rejected"
        /\ u.reason = (op = "reject")
    BY <1>3 DEF Changed, Submitted, Approved, Rejected, Row, RowWith
  <2>2. /\ row.status \in Statuses
        /\ op = "submit" => row.status \in {"draft", "rejected"}
        /\ op \in {"approve", "reject"} => row.status = "submitted"
        /\ op \in {"submit", "approve"} => Ready(row, docs)
    BY <1>3 DEF Allowed, Editing, Editable, Locked, Statuses, Sound, Row, RowWith
  <2>3. QED BY <1>3, <2>1, <2>2 DEF Sound, Locked, Ready
<1>4. CASE op = "review"
  <2>1. u = [row EXCEPT !.count = @ + 1]
    BY <1>4 DEF Changed
  <2>2. /\ u.status = row.status /\ u.reason = row.reason /\ u.count = row.count + 1
        /\ u.phone = row.phone /\ u.name = row.name /\ u.skills = row.skills
        /\ u.verified = row.verified
    BY <2>1 DEF Row, RowWith
  <2>3. QED BY <1>4, <2>2 DEF Sound, Locked, Ready
<1>5. CASE op \notin {"update", "verify", "submit", "approve", "reject", "review"}
  <2>1. u = row
    BY <1>5 DEF Changed
  <2>2. QED BY <1>5, <2>1 DEF Sound
<1>6. QED BY <1>1, <1>2, <1>3, <1>4, <1>5

LEMMA SameRow ==
    ASSUME row \in Row
    PROVE  [x \in Columns |-> row[x]] = row
BY DEF Row, RowWith, Columns

\* A call goes on, the row and the documents stay.
LEMMA AptMoves ==
    ASSUME IInv, AptInv, NEW h \in Handlers, NEW c, Set(h, c),
           UNCHANGED <<row, docs, counted>>, stale => stale',
           proved \subseteq proved', swapped => swapped',
           ~ stale => /\ otp' # NoNumber => row.phone # NoNumber
                      /\ mailed' => mailed \/ (row # NoRow /\ row.status = "approved")
                      /\ Apt(c)'
    PROVE  AptInv'
<1> SUFFICES ASSUME ~ stale'
             PROVE  /\ Sound'
                    /\ row' = NoRow => counted' = {} /\ ~ mailed'
                    /\ otp' # NoNumber => row'.phone # NoNumber
                    /\ \A g \in Handlers : Apt(calls[g])'
  BY DEF AptInv
<1>1. Sound /\ (row = NoRow => counted = {} /\ ~ mailed)
  BY DEF AptInv
<1>2. Sound'
  BY <1>1 DEF Sound
<1>3. \A g \in Handlers : Apt(calls[g])'
  <2>1. calls'[h] = c /\ \A g \in Handlers \ {h} : calls'[g] = calls[g]
    BY DEF IInv, TypeOK, Set
  <2>2. ASSUME NEW g \in Handlers \ {h}  PROVE Apt(calls[g])'
    <3>1. Apt(calls[g])
      BY DEF AptInv
    <3>2. \A op, e : (Allowed(op))' = Allowed(op) /\ (Changed(op, e))' = Changed(op, e)
      BY DEF Allowed, Changed, Updated, Submitted, Approved, Rejected
    <3>3. QED BY <2>1, <3>1, <3>2 DEF Apt
  <2>3. Apt(c)'
    OBVIOUS
  <2>4. QED BY <2>1, <2>2, <2>3 DEF Apt
<1>4. QED BY <1>1, <1>2, <1>3

LEMMA AptSet ==
    ASSUME IInv, AptInv, NEW h \in Handlers, NEW c, Set(h, c), ~ stale => Apt(c),
           UNCHANGED <<row, docs, counted, stale, proved, swapped>>,
           ~ stale => /\ otp' \in {otp, NoNumber} \/ row.phone # NoNumber
                      /\ mailed' => mailed \/ (row # NoRow /\ row.status = "approved")
    PROVE  AptInv'
<1>1. \A o, e : (Allowed(o))' = Allowed(o) /\ (Changed(o, e))' = Changed(o, e)
  BY DEF Allowed, Changed, Updated, Submitted, Approved, Rejected
<1>2. ~ stale => (Apt(c))' /\ (otp' # NoNumber => row.phone # NoNumber)
  BY <1>1 DEF Apt, AptInv
<1>3. QED BY <1>2, AptMoves

\* A call writes, and the others have been overtaken.
LEMMA AptOvertaken ==
    ASSUME IInv, AptInv, NEW h \in Handlers, NEW c, Overtake(h, c),
           UNCHANGED <<otp, proved, swapped>>, stale => stale', row # NoRow,
           row' # NoRow,
           ~ stale' => /\ Sound'
                       /\ row.phone # NoNumber => row'.phone # NoNumber
                       /\ row.status = "approved" => row'.status = "approved"
                       /\ Apt(c)'
    PROVE  AptInv'
<1> SUFFICES ASSUME ~ stale'
             PROVE  /\ otp' # NoNumber => row'.phone # NoNumber
                    /\ \A g \in Handlers : Apt(calls[g])'
  BY DEF AptInv
<1>1. ASSUME NEW g \in Handlers \ {h}  PROVE Apt(calls[g])'
  <2>1. Apt(calls[g]) /\ calls[g] \in Call
    BY DEF AptInv, IInv, TypeOK
  <2>2. calls'[g] = [calls[g] EXCEPT !.fresh = At(g, "done")]
    BY <1>1 DEF Overtake
  <2>3. /\ calls'[g].op = calls[g].op /\ calls'[g].at = calls[g].at
        /\ calls'[g].edit = calls[g].edit
        /\ calls'[g].fresh => calls[g].at = "done"
    BY <2>1, <2>2 DEF Call, At
  <2>4. QED BY <2>1, <2>3 DEF Apt, Numbered, Working, Pending
<1>2. calls'[h] = c
  BY DEF Overtake
<1>3. \A g \in Handlers : Apt(calls[g])'
  BY <1>1, <1>2 DEF Apt
<1>4. QED BY <1>3 DEF AptInv

LEMMA LoadedIsApt ==
    ASSUME row # NoRow, NEW op \in Operations, NEW e \in Edits, NEW j,
           Allowed(op), NEW c, c = Loaded(op, e, j), UNCHANGED <<row, docs>>,
           op = "verify" => /\ row.phone # NoNumber
                            /\ row.phone \in proved' \/ swapped'
    PROVE  (Apt(c))'
<1>1. /\ c.op = op /\ c.at = AfterLoad(op) /\ c.copy = Changed(op, e)
  BY DEF Loaded, Idle
<1>2. (Allowed(op))' = Allowed(op) /\ (Changed(op, e))' = Changed(op, e)
  BY DEF Allowed, Changed, Updated, Submitted, Approved, Rejected
<1>3. /\ c.at = "find" => op = "confirm" /\ Editable(row)
      /\ c.at = "set code" => row.phone # NoNumber
      /\ c.at \in {"find", "set code", "compare"}
  BY <1>1 DEF AfterLoad, Allowed, Editing
<1>4. (Editable(row))' = Editable(row) /\ row' = row
  BY DEF Editable, Locked
<1>5. (Numbered(c))' => row # NoRow /\ row.phone # NoNumber
  BY <1>1, <1>3 DEF Numbered
<1>6. (Allowed(c.op) /\ \E d \in Edits : c.copy = Changed(c.op, d))'
  BY <1>1, <1>2
<1>7. c.op = "verify" => row'.phone \in proved' \/ swapped'
  BY <1>1, <1>4
<1>8. /\ c.at \notin {"replace", "store", "mail", "load", "write"}
      /\ c.at = "find" => c.op = "confirm" /\ (Editable(row))'
  BY <1>1, <1>3, <1>4
<1>9. QED BY <1>4, <1>5, <1>6, <1>7, <1>8 DEF Apt

\* Wherever the call was created or waits, it knows no more than its number.
LEMMA WaitsApt ==
    ASSUME NEW c, c.at \notin Working \union {"find", "replace", "mail", "set code"},
           c.at = "store" => c.op = "review",
           c.op = "verify" /\ c.at # "done" => row # NoRow /\ row.phone # NoNumber,
           c.op = "verify" /\ c.at = "load" => c.edit.phone \in proved
    PROVE  Apt(c)
BY DEF Apt, Numbered, Working

LEMMA IdleIsApt == Apt(Idle)
BY WaitsApt DEF Idle, Working

LEMMA AptOpen ==
    ASSUME IInv, AptInv, NEW h \in Handlers, NEW op \in Operations, NEW e \in Edits,
           op \notin {"review", "verify", "sign in"}, Open(h, op, e)
    PROVE  AptInv'
<1>1. UNCHANGED <<row, docs, counted, stale, proved, swapped, otp, mailed>>
  BY OpenStep DEF Open, phone, user
<1>2. CASE row = NoRow /\ Set(h, [Idle EXCEPT !.op = op, !.at = "create",
                                              !.edit = e])
  <2>1. PICK c : c = [Idle EXCEPT !.op = op, !.at = "create", !.edit = e]
    OBVIOUS
  <2>2. c.op = op /\ c.at = "create"
    BY <2>1 DEF Idle
  <2>3. Apt(c)
    BY <2>2, WaitsApt DEF Working
  <2>4. QED BY <1>1, <1>2, <2>1, <2>3, AptSet
<1>3. CASE row # NoRow /\ Allowed(op) /\ Set(h, Loaded(op, e, {}))
  <2>1. PICK c : c = Loaded(op, e, {})
    OBVIOUS
  <2>2. (Apt(c))'
    BY <1>1, <1>3, <2>1, LoadedIsApt
  <2>3. ~ stale => (otp # NoNumber => row.phone # NoNumber)
    BY DEF AptInv
  <2>4. QED BY <1>1, <1>3, <2>1, <2>2, <2>3, AptMoves
<1>4. QED BY <1>2, <1>3 DEF Open

LEMMA AptCreate ==
    ASSUME IInv, AptInv, NEW h \in Handlers, Create(h)
    PROVE  AptInv'
<1>1. /\ calls[h] \in Call /\ calls[h].at = "create"
      /\ UNCHANGED <<docs, counted, stale, proved, swapped, otp, mailed>>
  BY Here, CreateStep DEF Create, At, phone, user
<1>2. CASE row = NoRow /\ row' = Draft /\ Goto(h, "load")
  <2> SUFFICES ASSUME ~ stale
               PROVE  AptInv'
    BY <1>1 DEF AptInv
  <2>1. /\ counted = {} /\ ~ mailed /\ otp = NoNumber
        /\ \A g \in Handlers : Apt(calls[g]) /\ calls[g].at \in Rowless
    BY <1>2 DEF AptInv, IInv, Good
  <2>2. /\ Draft.status = "draft" /\ ~ Draft.verified /\ ~ Draft.reason
        /\ Draft.count = 0 /\ Draft # NoRow
    BY NoRowIsNoRow, IdleIsCall DEF Draft, Empty
  <2>3. Sound'
    BY <1>1, <1>2, <2>1, <2>2, FS_EmptySet DEF Sound, Locked
  <2>4. PICK c \in Call : c = [calls[h] EXCEPT !.at = "load"]
    BY <1>1 DEF Call, Points
  <2>5. c.at = "load" /\ c.op = calls[h].op
    BY <1>1, <2>4 DEF Call
  <2>6. calls'[h] = c /\ \A g \in Handlers \ {h} : calls'[g] = calls[g]
    BY <1>2, <2>4 DEF IInv, TypeOK, Goto, Set
  <2>7. ASSUME NEW g \in Handlers
        PROVE  (Apt(calls[g]))'
    <3>1. Apt(calls[g]) /\ calls[g].at \in Rowless
      BY <2>1
    <3>2. calls[g].op = "verify" => calls[g].at = "done"
      BY <1>2, <3>1 DEF Apt, Numbered
    <3>3. /\ calls'[g].at \in Rowless \union {"load"}
          /\ calls'[g].op = "verify" => calls'[g].at = "done"
      BY <1>1, <2>5, <2>6, <3>1, <3>2
    <3>4. QED BY <3>3 DEF Apt, Numbered, Working, Rowless
  <2>8. QED BY <1>1, <1>2, <2>1, <2>2, <2>3, <2>7 DEF AptInv
<1>3. CASE row # NoRow /\ Return(h) /\ UNCHANGED row
  BY <1>1, <1>3, IdleIsApt, AptSet DEF Return
<1>4. QED BY <1>2, <1>3 DEF Create

LEMMA AptLoad ==
    ASSUME IInv, AptInv, NEW h \in Handlers, Load(h)
    PROVE  AptInv'
<1> DEFINE b == calls[h]
<1>1. /\ b \in Call /\ b.at = "load" /\ row # NoRow
      /\ UNCHANGED <<row, docs, counted, stale, proved, otp, mailed>>
  BY Here, LoadStep DEF Load, At, user, Rowless
<1>2. CASE Throw(h) /\ UNCHANGED swapped
  BY <1>1, <1>2, IdleIsApt, AptSet DEF Throw, Return
<1>3. CASE /\ Allowed(b.op) /\ Set(h, Loaded(b.op, b.edit, b.job))
           /\ swapped' = (swapped \/ (b.op = "verify" /\ b.edit.phone # row.phone))
  <2>1. ~ stale => Apt(b)
    BY DEF AptInv
  <2>2. b.op \in Operations /\ b.edit \in Edits
    BY <1>1 DEF Call
  <2>3. ~ stale => (b.op = "verify" => /\ row.phone # NoNumber
                                       /\ row.phone \in proved' \/ swapped')
    BY <1>1, <1>3, <2>1 DEF Apt, Numbered
  <2>4. PICK c : c = Loaded(b.op, b.edit, b.job)
    OBVIOUS
  <2>5. ~ stale => (Apt(c))'
    BY <1>1, <1>3, <2>2, <2>3, <2>4, LoadedIsApt
  <2>6. ~ stale => (otp # NoNumber => row.phone # NoNumber)
    BY DEF AptInv
  <2>7. QED BY <1>1, <1>3, <2>4, <2>5, <2>6, AptMoves
<1>4. QED BY <1>2, <1>3 DEF Load

LEMMA AptCompare ==
    ASSUME IInv, AptInv, NEW h \in Handlers, Compare(h)
    PROVE  AptInv'
<1>1. /\ calls[h] \in Call /\ calls[h].at = "compare"
      /\ UNCHANGED <<row, docs, counted, stale, proved, swapped, otp, mailed>>
  BY Here, CompareStep DEF Compare, At, phone, user
<1>2. PICK list : Set(h, [calls[h] EXCEPT
                !.at = "write",
                !.cols = {x \in Looked(calls[h].op) : calls[h].copy[x] # row[x]},
                !.docs = list])
  BY DEF Compare, Looked
<1>3. PICK c : c = [calls[h] EXCEPT
                !.at = "write",
                !.cols = {x \in Looked(calls[h].op) : calls[h].copy[x] # row[x]},
                !.docs = list]
  OBVIOUS
<1>4. /\ c.at = "write" /\ c.op = calls[h].op /\ c.copy = calls[h].copy
      /\ c.fresh = calls[h].fresh
      /\ c.cols = {x \in Looked(c.op) : c.copy[x] # row[x]}
  BY <1>1, <1>3 DEF Call
<1>5. ~ stale => Apt(calls[h])
  BY DEF AptInv
<1>6. ~ stale => Apt(c)
  BY <1>1, <1>4, <1>5 DEF Apt, Numbered, Working
<1>7. QED BY <1>1, <1>2, <1>3, <1>6, AptSet

\* The calls that change neither the row nor the documents.
LEMMA AptReturn ==
    ASSUME IInv, AptInv, NEW h \in Handlers, Mail(h) \/ SetCode(h) \/ Fail(h)
    PROVE  AptInv'
<1>1. /\ Set(h, Idle) /\ UNCHANGED <<row, docs, counted, stale, proved, swapped>>
      /\ ~ stale => Apt(calls[h])
  BY LastStep DEF Mail, SetCode, Fail, Throw, Return, phone, AptInv
<1>2. ~ stale => otp' \in {otp, NoNumber} \/ row.phone # NoNumber
  BY <1>1 DEF Mail, SetCode, Fail, phone, At, Apt, Numbered
<1>3. At(h, "mail") => row # NoRow
  BY Here DEF At, Rowless
<1>4. ~ stale /\ mailed' => mailed \/ (row # NoRow /\ row.status = "approved")
  BY <1>1, <1>3 DEF Mail, SetCode, Fail, user, At, Apt
<1>5. QED BY <1>1, <1>2, <1>4, IdleIsApt, AptSet

LEMMA AptUser ==
    ASSUME IInv, AptInv, NEW h \in Handlers,
           Promote(h) \/ SignIn(h) \/ CompareUser(h) \/ WriteUser(h)
    PROVE  AptInv'
<1>1. UNCHANGED <<row, docs, counted, stale, proved, swapped, otp, mailed>>
  BY UserStep DEF Promote, SignIn, CompareUser, WriteUser, phone, user
<1>2. calls[h] \in Call /\ Good(calls[h])
  BY Here
<1>3. PICK c : /\ Set(h, c)
               /\ c.at \in {"save user", "write user", "done"}
               /\ c.op = "verify" => c.at = "done"
  <2>1. CASE Promote(h)
    <3>1. calls[h].op \in {"submit", "sign in"}
      BY <1>2, <2>1 DEF Promote, At, Good, Promoting
    <3>2. PICK c : c = [calls[h] EXCEPT !.at = "save user", !.role = TRUE]
      OBVIOUS
    <3>3. c.at = "save user" /\ c.op # "verify"
      BY <1>2, <3>1, <3>2 DEF Call
    <3>4. Set(h, c) \/ Set(h, Idle)
      BY <2>1, <3>2 DEF Promote, Return
    <3>5. Idle.at = "done"
      BY DEF Idle
    <3>6. QED BY <3>3, <3>4, <3>5
  <2>2. CASE SignIn(h)
    <3>1. PICK c : c = [Idle EXCEPT !.op = "sign in", !.at = "save user",
                                    !.role = promoted]
      OBVIOUS
    <3>2. c.at = "save user" /\ c.op # "verify"
      BY <3>1 DEF Idle
    <3>3. QED BY <2>2, <3>1, <3>2 DEF SignIn
  <2>3. CASE CompareUser(h) \/ WriteUser(h)
    <3>1. calls[h].op \in {"submit", "sign in"}
      BY <1>2, <2>3 DEF CompareUser, WriteUser, At, Good, Promoting
    <3>2. PICK c : c = [calls[h] EXCEPT !.at = "write user"]
      OBVIOUS
    <3>3. c.at = "write user" /\ c.op # "verify"
      BY <1>2, <3>1, <3>2 DEF Call
    <3>4. Set(h, c) \/ Set(h, Idle)
      BY <2>3, <3>2 DEF CompareUser, WriteUser, Goto, Return
    <3>5. Idle.at = "done"
      BY DEF Idle
    <3>6. QED BY <3>3, <3>4, <3>5
  <2>4. QED BY <2>1, <2>2, <2>3
<1>4. Apt(c)
  BY <1>3, WaitsApt DEF Working
<1>5. QED BY <1>1, <1>3, <1>4, AptSet

LEMMA AptEnterCode ==
    ASSUME IInv, AptInv, NEW h \in Handlers, EnterCode(h)
    PROVE  AptInv'
<1>1. /\ UNCHANGED <<row, docs, counted, stale, proved, swapped, otp, mailed>>
      /\ row # NoRow /\ (~ stale => row.phone # NoNumber)
  BY EnterCodeStep DEF EnterCode, phone, user, IInv, AptInv
<1>2. PICK c : c = [Idle EXCEPT !.op = "verify", !.at = "consume", !.edit.phone = otp]
  OBVIOUS
<1>3. c.op = "verify" /\ c.at = "consume"
  BY <1>2 DEF Idle
<1>4. ~ stale => Apt(c)
  BY <1>1, <1>3, WaitsApt DEF Working
<1>5. QED BY <1>1, <1>2, <1>4, AptSet DEF EnterCode

LEMMA AptConsume ==
    ASSUME IInv, AptInv, NEW h \in Handlers, Consume(h)
    PROVE  AptInv'
<1>1. /\ calls[h] \in Call /\ calls[h].at = "consume"
      /\ UNCHANGED <<row, docs, counted, stale, swapped, mailed>> /\ otp' = NoNumber
      /\ proved' = proved \union {calls[h].edit.phone} /\ (~ stale => Apt(calls[h]))
  BY Here, ConsumeStep DEF Consume, At, user, AptInv
<1>2. PICK c \in Call : c = [calls[h] EXCEPT !.at = "load"]
  BY <1>1 DEF Call, Points
<1>3. c.at = "load" /\ c.op = calls[h].op /\ c.edit = calls[h].edit
  BY <1>1, <1>2 DEF Call
<1>4. ~ stale => (Apt(c))'
  BY <1>1, <1>3 DEF Apt, Numbered, Working
<1>5. QED BY <1>1, <1>2, <1>4, AptMoves DEF Consume, Goto

LEMMA AptFind ==
    ASSUME IInv, AptInv, NEW h \in Handlers, Find(h)
    PROVE  AptInv'
<1>1. /\ calls[h] \in Call /\ calls[h].at = "find"
      /\ UNCHANGED <<row, docs, counted, stale, proved, swapped, otp, mailed>>
      /\ ~ stale => Apt(calls[h])
  BY Here, FindStep DEF Find, At, phone, user, AptInv
<1>2. PICK c : c = [calls[h] EXCEPT !.at = "replace", !.docs = docs]
  OBVIOUS
<1>3. c.at = "replace" /\ c.op = calls[h].op /\ c.fresh = calls[h].fresh
  BY <1>1, <1>2 DEF Call
<1>4. ~ stale => Apt(c)
  BY <1>1, <1>3 DEF Apt, Numbered, Working
<1>5. QED BY <1>1, <1>2, <1>4, AptSet DEF Find

\* The documents are replaced only while the application is editable.
LEMMA AptDocument ==
    ASSUME IInv, AptInv, NEW h \in Handlers, NEW d \in DocIds,
           Remove(h, d) \/ Add(h, d)
    PROVE  AptInv'
<1>1. /\ calls[h] \in Call /\ calls[h].at = "replace" /\ row # NoRow
      /\ UNCHANGED <<row, counted, otp, proved, swapped, mailed>>
      /\ stale' = (stale \/ ~ calls[h].fresh) /\ (~ stale => Apt(calls[h]))
  BY Here, DocumentStep DEF Remove, Add, At, phone, user, AptInv, Rowless
<1>2. ~ stale' => Editable(row) /\ Sound /\ ~ stale
  BY <1>1 DEF Apt, AptInv
<1>3. ~ stale' => Sound'
  BY <1>1, <1>2 DEF Sound, Editable
<1>4. PICK c : c = [calls[h] EXCEPT !.docs = @ \ {d}]
  OBVIOUS
<1>5. c.at = "replace" /\ c.op = calls[h].op
  BY <1>1, <1>4 DEF Call
<1>6. ~ stale' => (Apt(c))'
  BY <1>1, <1>2, <1>5 DEF Apt, Numbered, Working, Editable
<1>7. (Apt(Idle))'
  BY DEF Apt, Idle, Numbered, Working
<1>8. Overtake(h, c) \/ Overtake(h, Idle)
  BY <1>4 DEF Remove, Add
<1>9. QED BY <1>1, <1>3, <1>6, <1>7, <1>8, AptOvertaken

LEMMA AptReview ==
    ASSUME IInv, AptInv, NEW h \in Handlers,
           (\E j \in Jobs : Review(h, j)) \/ Store(h)
    PROVE  AptInv'
<1>1. UNCHANGED <<row, docs, counted, stale, proved, swapped, otp, mailed>>
  BY ReviewStep, StoreStep DEF Review, Store, phone, user
<1>2. CASE \E j \in Jobs : Review(h, j)
  <2>1. PICK c, j : c = [Idle EXCEPT !.op = "review", !.at = "store", !.job = {j}]
                    /\ Set(h, c)
    BY <1>2 DEF Review
  <2>2. c.op = "review" /\ c.at = "store"
    BY <2>1 DEF Idle
  <2>3. Apt(c)
    BY <2>2, WaitsApt DEF Working
  <2>4. QED BY <1>1, <2>1, <2>3, AptSet
<1>3. CASE Store(h)
  <2>1. calls[h] \in Call /\ calls[h].at = "store" /\ (~ stale => Apt(calls[h]))
    BY <1>3, Here DEF Store, At, AptInv
  <2>2. PICK c \in Call : c = [calls[h] EXCEPT !.at = "load"]
    BY <2>1 DEF Call, Points
  <2>3. c.at = "load" /\ c.op = calls[h].op
    BY <2>1, <2>2 DEF Call
  <2>4. ~ stale => Apt(c)
    BY <2>1, <2>3, WaitsApt DEF Apt, Working
  <2>5. Set(h, Idle) \/ Set(h, c)
    BY <1>3, <2>2 DEF Store, Goto, Return
  <2>6. QED BY <1>1, <2>4, <2>5, IdleIsApt, AptSet
<1>4. QED BY <1>2, <1>3

\* A call that nobody has overtaken writes all of its copy.
LEMMA FreshWrite ==
    ASSUME IInv, AptInv, NEW h \in Handlers, ~ stale, calls[h].at = "write",
           calls[h].fresh, row' = Written(calls[h])
    PROVE  \E e \in Edits :
             LET op == calls[h].op
                 u == Changed(op, e)
             IN  /\ Allowed(op) /\ u \in Row
                 /\ op = "verify" => /\ row.phone # NoNumber
                                     /\ row.phone \in proved \/ swapped
                 /\ row'.status = u.status /\ row'.name = u.name
                 /\ row'.skills = u.skills /\ row'.phone = u.phone
                 /\ row'.verified = u.verified /\ row'.reason = u.reason
                 /\ row'.count = u.count
<1>1. calls[h] \in Call /\ row \in Row /\ row # NoRow /\ Apt(calls[h]) /\ Sound
  BY Here DEF AptInv, Rowless
<1>2. PICK op \in Operations : op = calls[h].op
  BY <1>1 DEF Call
<1>3. PICK e \in Edits : Allowed(op) /\ calls[h].copy = Changed(op, e)
  BY <1>1, <1>2 DEF Apt, Working
<1>4. PICK u : u = Changed(op, e)
  OBVIOUS
<1>5. u \in Row
  BY <1>1, <1>4, ChangedIsRow
<1>6. op = "verify" => row.phone # NoNumber /\ (row.phone \in proved \/ swapped)
  BY <1>1, <1>2 DEF Apt, Numbered, Working
<1>7. ~ Full(op) => u.skills = row.skills
  BY <1>1, <1>3, <1>4, <1>6, ChangedIsSound
<1>8. calls[h].cols = {x \in Looked(op) : u[x] # row[x]}
  BY <1>1, <1>2, <1>3, <1>4 DEF Apt
<1>9. row' = [x \in Columns |-> IF x \in calls[h].cols THEN u[x] ELSE row[x]]
  BY <1>3, <1>4 DEF Written
<1>10. \A x \in Columns : x \in Looked(op) => row'[x] = u[x]
  BY <1>8, <1>9
<1>11. /\ row'.status = u.status /\ row'.name = u.name /\ row'.phone = u.phone
       /\ row'.verified = u.verified /\ row'.reason = u.reason
       /\ row'.count = u.count
  BY <1>10 DEF Looked, Columns
<1>12. row'.skills = u.skills
  <2>1. CASE Full(op)
    BY <1>10, <2>1 DEF Looked, Columns
  <2>2. CASE ~ Full(op)
    <3>1. "skills" \notin calls[h].cols
      BY <1>8, <2>2 DEF Looked
    <3>2. row'.skills = row.skills
      BY <1>9, <3>1 DEF Columns
    <3>3. QED BY <1>7, <2>2, <3>2
  <2>3. QED BY <2>1, <2>2
<1>13. QED BY <1>2, <1>3, <1>4, <1>5, <1>6, <1>11, <1>12

LEMMA InHandIsNotCounted ==
    ASSUME NEW h \in Handlers, calls[h].at = "write"
    PROVE  calls[h].job \intersect counted = {}
BY HandIsJob DEF counted, Pending, Working

\* What a write that overtakes nobody leaves.
LEMMA WriteIsSound ==
    ASSUME IInv, AptInv, NEW h \in Handlers, ~ stale, calls[h].at = "write",
           calls[h].fresh, row' = Written(calls[h]),
           counted' = counted \union calls[h].job,
           UNCHANGED <<docs, proved, swapped, mailed>>
    PROVE  /\ Sound' /\ row' # NoRow
           /\ row.phone # NoNumber => row'.phone # NoNumber
           /\ row.status = "approved" \/ calls[h].op = "approve" =>
                row'.status = "approved"
           /\ row'.status # row.status => <<row.status, row'.status>> \in
                {<<"draft", "submitted">>, <<"rejected", "submitted">>,
                 <<"submitted", "approved">>, <<"submitted", "rejected">>}
<1>1. /\ TypeOK /\ calls[h] \in Call /\ row \in Row /\ row # NoRow
      /\ Apt(calls[h]) /\ Good(calls[h]) /\ Sound
  BY Here DEF AptInv, Rowless
<1>2. PICK op \in Operations : op = calls[h].op
  BY <1>1 DEF Call
<1>3. PICK e \in Edits, u \in Row :
        /\ u = Changed(op, e) /\ Allowed(op)
        /\ op = "verify" => row.phone # NoNumber /\ (row.phone \in proved \/ swapped)
        /\ row'.status = u.status /\ row'.name = u.name
        /\ row'.skills = u.skills /\ row'.phone = u.phone
        /\ row'.verified = u.verified /\ row'.reason = u.reason
        /\ row'.count = u.count
  BY <1>1, <1>2, FreshWrite
<1>4. /\ Locked(u) => Ready(u, docs)
      /\ u.reason <=> u.status = "rejected"
      /\ u.verified => /\ u.phone # NoNumber /\ u.phone = row.phone
                       /\ row.verified \/ op = "verify"
      /\ u.count = IF op = "review" THEN row.count + 1 ELSE row.count
      /\ row.status = "approved" \/ op = "approve" => u.status = "approved"
      /\ row.phone # NoNumber => u.phone # NoNumber
      /\ u.status # row.status => <<row.status, u.status>> \in
           {<<"draft", "submitted">>, <<"rejected", "submitted">>,
            <<"submitted", "approved">>, <<"submitted", "rejected">>}
  BY <1>1, <1>3, ChangedIsSound
<1>5. u.count = Cardinality(counted')
  <2>1. row.count = Cardinality(counted) /\ Cardinality(counted) \in Nat
    BY <1>1, CountedIsFinite DEF Sound
  <2>2. CASE op = "review"
    <3>1. PICK j \in Jobs : calls[h].job = {j} /\ j \notin counted
      BY <1>1, <1>2, <2>2, InHandIsNotCounted DEF Good
    <3>2. QED BY <1>1, <1>4, <2>1, <2>2, <3>1, CountedIsFinite
  <2>3. CASE op # "review"
    <3>1. counted' = counted
      BY <1>1, <1>2, <2>3 DEF Good
    <3>2. QED BY <1>4, <2>1, <2>3, <3>1
  <2>4. QED BY <2>2, <2>3
<1>6. row'.verified => row'.phone # NoNumber /\ (row'.phone \in proved \/ swapped)
  BY <1>1, <1>3, <1>4 DEF Sound
<1>7. mailed => row'.status = "approved"
  BY <1>1, <1>3, <1>4 DEF Sound
<1>8. Locked(row') => Ready(row', docs)
  BY <1>3, <1>4 DEF Locked, Ready
<1>9. Sound'
  BY <1>3, <1>4, <1>5, <1>6, <1>7, <1>8 DEF Sound
<1>10. row' # NoRow
  BY <1>3, NoRowIsNoRow DEF Row, RowWith, Statuses
<1>11. QED BY <1>2, <1>3, <1>4, <1>9, <1>10

LEMMA AptWrite ==
    ASSUME IInv, AptInv, NEW h \in Handlers, Write(h)
    PROVE  AptInv'
<1> DEFINE b == calls[h]
<1>1. /\ b \in Call /\ b.at = "write" /\ row \in Row /\ row # NoRow /\ TypeOK
      /\ Good(b) /\ UNCHANGED <<docs, otp, proved, swapped, mailed>>
  BY Here DEF Write, At, phone, user, Rowless
<1>2. CASE UNCHANGED <<row, stale, counted>> /\ Set(h, Idle)
  BY <1>1, <1>2, IdleIsApt, AptSet
<1>3. CASE /\ row' = Written(b) /\ counted' = counted \union b.job
           /\ stale' = (stale \/ ~ b.fresh)
           /\ \/ b.cols = {} /\ Set(h, AfterWrite(b))
              \/ b.cols # {} /\ Overtake(h, AfterWrite(b))
  <2> SUFFICES ASSUME ~ stale'
               PROVE  AptInv'
    BY DEF AptInv
  <2>1. ~ stale /\ b.fresh /\ Apt(b) /\ Sound
    BY <1>1, <1>3 DEF AptInv, Call
  <2>2. /\ Sound' /\ row' # NoRow
        /\ row.phone # NoNumber => row'.phone # NoNumber
        /\ row.status = "approved" \/ b.op = "approve" => row'.status = "approved"
    BY <1>1, <1>3, <2>1, WriteIsSound
  <2>3. PICK c : c = AfterWrite(b)
    OBVIOUS
  <2>4. /\ c.at \in {"promote", "mail", "done"}
        /\ c.at = "mail" => b.op = "approve"
        /\ c.op = "verify" => c.at = "done"
    BY <1>1, <2>3 DEF AfterWrite, Idle, Call
  <2>5. (Apt(c))'
    BY <2>2, <2>4 DEF Apt, Numbered, Working
  <2>6. CASE b.cols # {} /\ Overtake(h, c)
    BY <1>1, <1>3, <2>1, <2>2, <2>5, <2>6, AptOvertaken
  <2>7. CASE b.cols = {} /\ Set(h, c)
    <3>1. row' = row
      BY <1>1, <1>3, <2>7, SameRow DEF Written
    <3>2. counted' = counted
      <4>1. Cardinality(counted') = Cardinality(counted)
        BY <1>1, <2>1, <2>2, <3>1 DEF Sound
      <4>2. b.job = {} \/ \E j \in Jobs \ counted : b.job = {j}
        BY <1>1, InHandIsNotCounted DEF Good
      <4>3. QED BY <1>1, <1>3, <4>1, <4>2, CountedIsFinite
    <3>3. otp # NoNumber => row.phone # NoNumber
      BY <2>1 DEF AptInv
    <3>4. QED BY <1>1, <2>1, <2>5, <2>7, <3>1, <3>2, <3>3, AptMoves
  <2>8. QED BY <1>3, <2>3, <2>6, <2>7
<1>4. QED BY <1>2, <1>3, WriteStep

LEMMA AptElse ==
    ASSUME IInv, AptInv, Expire \/ UNCHANGED vars
    PROVE  AptInv'
<1>1. /\ UNCHANGED <<row, docs, proved, swapped, mailed, counted, calls, stale>>
      /\ otp' \in {otp, NoNumber}
  BY ExpireStep DEF Expire, vars, phone, user
<1>2. \A o, e : (Allowed(o))' = Allowed(o) /\ (Changed(o, e))' = Changed(o, e)
  BY <1>1 DEF Allowed, Changed, Updated, Submitted, Approved, Rejected
<1>3. ASSUME NEW h \in Handlers, Apt(calls[h])  PROVE (Apt(calls[h]))'
  BY <1>1, <1>2, <1>3 DEF Apt
<1>4. QED BY <1>1, <1>3 DEF AptInv, Sound

LEMMA AptInitially == Init => AptInv
<1> SUFFICES ASSUME Init PROVE AptInv
  OBVIOUS
<1>1. Sound /\ counted = {} /\ otp = NoNumber /\ \A h \in Handlers : calls[h] = Idle
  BY DEF Init, counted
<1>2. row = NoRow => ~ mailed
  BY NoRowIsNoRow DEF Init
<1>3. QED BY <1>1, <1>2, IdleIsApt DEF AptInv

LEMMA AptInductive == IInv /\ AptInv /\ [Next]_vars => AptInv'
<1> SUFFICES ASSUME IInv, AptInv, [Next]_vars PROVE AptInv'
  OBVIOUS
<1>1. ASSUME NEW h \in Handlers,
             NEW op \in Operations \ {"update", "verify", "review", "sign in"},
             Open(h, op, Absent)
      PROVE  AptInv'
  BY <1>1, AptOpen DEF Absent, Edits
<1>2. ASSUME NEW h \in Handlers, NEW e \in Edits, Open(h, "update", e)
      PROVE  AptInv'
  BY <1>2, AptOpen DEF Operations
<1>3. ASSUME NEW h \in Handlers, NEW d \in DocIds, Remove(h, d) \/ Add(h, d)
      PROVE  AptInv'
  BY <1>3, AptDocument
<1>4. ASSUME NEW h \in Handlers,
             \/ Create(h) \/ Load(h) \/ Compare(h) \/ Write(h) \/ EnterCode(h)
             \/ Consume(h) \/ Find(h)
      PROVE  AptInv'
  BY <1>4, AptCreate, AptLoad, AptCompare, AptWrite, AptEnterCode, AptConsume, AptFind
<1>5. ASSUME NEW h \in Handlers,
             \/ Promote(h) \/ SignIn(h) \/ CompareUser(h) \/ WriteUser(h)
             \/ Mail(h) \/ SetCode(h) \/ Fail(h)
             \/ (\E j \in Jobs : Review(h, j)) \/ Store(h)
      PROVE  AptInv'
  BY <1>5, AptUser, AptReturn, AptReview
<1>6. QED BY <1>1, <1>2, <1>3, <1>4, <1>5, AptElse DEF Next

LEMMA AptInvariance == Spec => []AptInv
BY Invariance, AptInitially, AptInductive, PTL DEF Spec

(* As long as no call has written over another's work, the application is  *)
(* sound, whatever calls are in flight: the code of a verified number was   *)
(* entered, unless one was entered after a change of the number, and the   *)
(* rating has every stored review but those whose call has yet to save the *)
(* profile or died before it did.                                          *)
THEOREM RowIsSound == Spec => []SoundUnlessStale
<1>1. AptInv => SoundUnlessStale
  BY DEF AptInv, SoundUnlessStale
<1>2. QED BY <1>1, AptInvariance, PTL

\* Only a write changes the status of an application that is there.
LEMMA StatusChanges ==
    ASSUME IInv, [Next]_vars, row # NoRow, row' # row
    PROVE  \E h \in Handlers : Write(h) /\ row' = Written(calls[h])
                                /\ counted' = counted \union calls[h].job
                                /\ stale' = (stale \/ ~ calls[h].fresh)
<1>1. \/ \E h \in Handlers :
           \/ \E op \in Operations \ {"update", "verify", "review", "sign in"} :
                  Open(h, op, Absent)
           \/ \E e \in Edits : Open(h, "update", e)
           \/ Promote(h) \/ SignIn(h) \/ CompareUser(h) \/ WriteUser(h) \/ Mail(h) \/ SetCode(h) \/ EnterCode(h) \/ Consume(h)
      \/ Expire \/ UNCHANGED vars
      => UNCHANGED row
  BY DEF vars, Open, Promote, SignIn, CompareUser, WriteUser, Mail, SetCode, EnterCode, Consume, Expire
<1>2. (\E h \in Handlers :
         \/ Create(h) \/ Load(h) \/ Compare(h) \/ Find(h)
         \/ \E d \in DocIds : Remove(h, d) \/ Add(h, d)
         \/ \E j \in Jobs : Review(h, j)
         \/ Store(h) \/ Fail(h))
      => UNCHANGED row
  BY DEF Create, Load, Compare, Find, Remove, Add, Review, Store, Fail
<1>3. PICK h \in Handlers : Write(h)
  BY <1>1, <1>2 DEF Next
<1>4. QED BY <1>3, WriteStep

(* And until then an application goes from draft to submitted to approved  *)
(* or rejected, and back only from rejected to submitted.                  *)
THEOREM StatusLifecycle == Spec => LifecycleUnlessStale
<1> DEFINE Along == ~ stale' /\ row # NoRow /\ row'.status # row.status =>
                      <<row.status, row'.status>> \in
                        {<<"draft", "submitted">>, <<"rejected", "submitted">>,
                         <<"submitted", "approved">>, <<"submitted", "rejected">>}
<1>1. IInv /\ AptInv /\ [Next]_vars => Along
  <2> SUFFICES ASSUME IInv, AptInv, [Next]_vars, ~ stale', row # NoRow,
                      row'.status # row.status
               PROVE  <<row.status, row'.status>> \in
                        {<<"draft", "submitted">>, <<"rejected", "submitted">>,
                         <<"submitted", "approved">>, <<"submitted", "rejected">>}
    OBVIOUS
  <2>1. PICK h \in Handlers : /\ Write(h) /\ row' = Written(calls[h])
                              /\ counted' = counted \union calls[h].job
                              /\ stale' = (stale \/ ~ calls[h].fresh)
    BY StatusChanges
  <2>2. ~ stale /\ calls[h].fresh /\ calls[h].at = "write"
    BY <2>1, Here DEF IInv, TypeOK, Call, Write, At
  <2>3. UNCHANGED <<docs, proved, swapped, mailed>>
    BY <2>1 DEF Write, phone, user
  <2>4. QED BY <2>1, <2>2, <2>3, WriteIsSound
<1>2. IInv /\ AptInv /\ [Next]_vars => [Along]_vars
  BY <1>1
<1>3. QED BY <1>2, Invariance, AptInvariance, PTL DEF Spec, LifecycleUnlessStale
=============================================================================
