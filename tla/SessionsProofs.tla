--------------------------- MODULE SessionsProofs ---------------------------
(***************************************************************************)
(* Theorems about Accounts and Sessions, for every number of requests that *)
(* overlap, of browsers and of tabs.                                       *)
(*                                                                         *)
(* The part of the invariant about the user's row rests on what the copies *)
(* in flight can hold, the part about the sessions on who still has to end *)
(* a session that a deleted user has.  Two invariants of their own follow: *)
(* the roles until one save overtakes another, and the tokens of a browser *)
(* that hears every answer.                                                *)
(***************************************************************************)
EXTENDS Sessions, TLAPS

\* The row, and what is known of a copy of it.
Active == {"compare", "write", "insert"}

AdminRole(u) == u.roles \intersect {"admin"}

\* Whether the user is an admin is settled once.
Settled(A) ==
    /\ HasRow => AdminRole(user) = A
    /\ user = NoUser => A = {}
    /\ \A h \in Handlers :
         calls[h].at \in Active => AdminRole(calls[h].copy) = A

\* A call that cannot change a row that is not there.
Calm(c) ==
    \/ c.at \in {"idle", "insert", "saved"}
    \/ c.at = "write" /\ c.cols = {}

AInv ==
    /\ AccountTypeOK
    /\ ~ HasRow => \A h \in Handlers : Calm(calls[h])
    /\ \A h \in Handlers : ~ calls[h].copy.deleted
    /\ \E A \in SUBSET {"admin"} : Settled(A)

\* The request has a token of the store's making.
WithToken == {"get", "find", "kill", "set", "del", "signed in"}
Given(t) == t \in Token /\ t.sid \in used

\* The request will end session s, or has found it gone.
WillEnd(h, s) ==
    /\ web[h].at \in {"user", "scan"} /\ web[h].kind = "delete"
    /\ web[h].at = "user" => ~ At(h, "delete")
    /\ web[h].at = "scan" => s \in web[h].todo

\* The parts of the type invariant.
StoreOK ==
    /\ store \in [Sids -> 0 .. MaxTime \union {None}]
    /\ Live \subseteq used /\ used \subseteq Sids /\ revived \subseteq used
    /\ clock \in 0 .. MaxTime
BrowserOK ==
    /\ jar \in [Browsers -> Token \union {NoToken}]
    /\ {lossy, rivals, alarms} \subseteq SUBSET Browsers

\* A deletion that has not come to the sessions yet.
OnTheRow(r) == r.at = "user" /\ r.kind = "delete"

SInv ==
    /\ AInv /\ StoreOK /\ BrowserOK /\ halfway \in BOOLEAN
    /\ web \in [Handlers -> Request \union {NoRequest}]
    /\ \A h \in Handlers : web[h].at \in WithToken => Given(web[h].token)
    /\ \A b \in Browsers : jar[b] = NoToken \/ Given(jar[b])
    /\ \A h \in Handlers :
         /\ At(h, "delete") => OnTheRow(web[h])
         /\ OnTheRow(web[h]) => calls[h].at \in {"delete", "saved"}
    /\ ~ Exists /\ ~ halfway =>
         \A s \in Live \ revived : \E h \in Handlers : WillEnd(h, s)

-----------------------------------------------------------------------------
(* The user's row.                                                         *)

LEMMA RowsDiffer == NoUser \notin User /\ Purged \notin User /\ NoUser # Purged
BY DEF NoUser, Purged, User

LEMMA IdleIsCall == Idle \in Call /\ ~ Idle.copy.deleted /\ Idle.at = "idle"
BY DEF Idle, Call, NewUser, User

\* A call is replaced, or overtakes the others.
LEMMA CallsReplaced ==
    ASSUME calls \in [Handlers -> Call], NEW h \in Handlers, NEW c \in Call,
           Set(h, c) \/ Overtake(h, c)
    PROVE  /\ calls' \in [Handlers -> Call]
           /\ calls'[h] = c
           /\ \A g \in Handlers \ {h} :
                /\ calls'[g].op = calls[g].op /\ calls'[g].at = calls[g].at
                /\ calls'[g].copy = calls[g].copy
                /\ calls'[g].cols = calls[g].cols
<1>1. CASE Set(h, c)
  BY <1>1 DEF Set
<1>2. CASE Overtake(h, c)
  <2> DEFINE d(g) == [calls[g] EXCEPT !.fresh = At(g, "idle")]
  <2>1. \A g \in Handlers : At(g, "idle") \in BOOLEAN
    BY DEF At
  <2>2. \A g \in Handlers : d(g) \in Call
    BY <2>1 DEF Call
  <2>3. calls' = [g \in Handlers |-> IF g = h THEN c ELSE d(g)]
    BY <1>2 DEF Overtake
  <2>4. \A g \in Handlers \ {h} : calls'[g] = d(g)
    BY <2>3
  <2>5. \A g \in Handlers : /\ d(g).op = calls[g].op /\ d(g).at = calls[g].at
                            /\ d(g).copy = calls[g].copy
                            /\ d(g).cols = calls[g].cols
    BY DEF Call
  <2>6. QED BY <2>2, <2>3, <2>4, <2>5
<1>3. QED BY <1>1, <1>2

\* What one call may do to the row.
LEMMA AccountMoves ==
    ASSUME AInv, NEW A \in SUBSET {"admin"}, Settled(A),
           NEW h \in Handlers, NEW c \in Call, Set(h, c) \/ Overtake(h, c),
           user' \in User \union {NoUser, Purged},
           begun' \in 0 .. MaxCalls, overtaken' \in BOOLEAN,
           HasRow' \/ user' = user,
           ~ HasRow' => Calm(c), ~ c.copy.deleted,
           HasRow' => AdminRole(user') = A,
           c.at \in Active => AdminRole(c.copy) = A
    PROVE  AInv' /\ Settled(A)'
<1>1. /\ calls \in [Handlers -> Call] /\ calls' \in [Handlers -> Call]
      /\ calls'[h] = c
      /\ \A g \in Handlers \ {h} :
           /\ calls'[g].at = calls[g].at /\ calls'[g].copy = calls[g].copy
           /\ calls'[g].cols = calls[g].cols
  BY CallsReplaced DEF AInv, AccountTypeOK
<1>2. Settled(A)'
  <2>1. \A g \in Handlers :
          calls'[g].at \in Active => AdminRole(calls'[g].copy) = A
    BY <1>1 DEF Settled, AdminRole
  <2>2. user' = NoUser => A = {}
    BY DEF Settled, HasRow
  <2>3. QED BY <2>1, <2>2 DEF Settled, AdminRole
<1>3. ~ HasRow' => \A g \in Handlers : Calm(calls[g])'
  <2> SUFFICES ASSUME ~ HasRow', NEW g \in Handlers  PROVE Calm(calls[g])'
    OBVIOUS
  <2>1. ~ HasRow
    BY DEF HasRow
  <2>2. QED BY <1>1, <2>1 DEF AInv, Calm
<1>4. \A g \in Handlers : ~ calls'[g].copy.deleted
  BY <1>1 DEF AInv
<1>5. AccountTypeOK'
  BY <1>1 DEF AccountTypeOK
<1>6. QED BY <1>2, <1>3, <1>4, <1>5 DEF AInv

\* Most steps of a call leave the row as it is.
LEMMA RowStays ==
    ASSUME AInv, NEW A \in SUBSET {"admin"}, Settled(A),
           NEW h \in Handlers, NEW c \in Call, Set(h, c),
           UNCHANGED user, begun' \in 0 .. MaxCalls, overtaken' \in BOOLEAN,
           ~ HasRow => Calm(c), ~ c.copy.deleted,
           c.at \in Active => AdminRole(c.copy) = A
    PROVE  AInv' /\ Settled(A)'
<1>1. user' \in User \union {NoUser, Purged} /\ (HasRow' <=> HasRow)
  BY DEF AInv, AccountTypeOK, HasRow
<1>2. HasRow' => AdminRole(user') = A
  BY <1>1 DEF Settled, AdminRole
<1>3. QED BY <1>1, <1>2, AccountMoves

LEMMA HereAccount ==
    ASSUME AInv, NEW h \in Handlers
    PROVE  /\ calls \in [Handlers -> Call] /\ calls[h] \in Call
           /\ ~ calls[h].copy.deleted
           /\ begun \in 0 .. MaxCalls /\ overtaken \in BOOLEAN
           /\ Begin(h) => begun' \in 0 .. MaxCalls
           /\ HasRow => user \in User
           /\ ~ Calm(calls[h]) => HasRow
BY AccountsAssumption DEF AInv, AccountTypeOK, Begin, HasRow

\* A request works on a copy of the row with these roles.
LEMMA Copies ==
    ASSUME AInv, NEW A \in SUBSET {"admin"}, Settled(A), NEW h \in Handlers,
           HasRow, UNCHANGED <<user, overtaken>>, begun' \in 0 .. MaxCalls,
           NEW c \in Call, Set(h, c), c.at = "compare",
           ~ c.copy.deleted, AdminRole(c.copy) = AdminRole(user)
    PROVE  AInv' /\ Settled(A)'
BY HereAccount, RowStays DEF Settled

LEMMA RequestStep ==
    ASSUME AInv, NEW A \in SUBSET {"admin"}, Settled(A), NEW h \in Handlers,
           Login(h) \/ AssignSeeker(h) \/ Promote(h) \/ Delete(h)
    PROVE  AInv' /\ Settled(A)'
<1>1. /\ begun' \in 0 .. MaxCalls /\ overtaken' \in BOOLEAN
      /\ UNCHANGED <<user, overtaken>> /\ (HasRow => user \in User)
  BY HereAccount DEF Login, AssignSeeker, Promote, Delete
<1>2. CASE user = NoUser /\ Set(h, [Idle EXCEPT !.at = "insert"])
  <2>1. PICK c \in Call : c = [Idle EXCEPT !.at = "insert"]
    BY IdleIsCall DEF Call
  <2>2. /\ c.at = "insert" /\ ~ c.copy.deleted
        /\ AdminRole(c.copy) = {}
    BY <2>1 DEF Idle, NewUser, AdminRole
  <2>3. QED BY <1>1, <1>2, <2>1, <2>2, RowStays DEF Settled, Calm
<1>3. CASE HasRow /\ Set(h, Copied("login", [user EXCEPT !.deleted = FALSE]))
  <2>1. PICK c \in Call : c = Copied("login", [user EXCEPT !.deleted = FALSE])
    BY <1>1, <1>3, IdleIsCall DEF Copied, Idle, Call, User
  <2>2. /\ c.at = "compare" /\ ~ c.copy.deleted
        /\ AdminRole(c.copy) = AdminRole(user)
    BY <1>1, <1>3, <2>1 DEF Copied, Idle, User, AdminRole
  <2>3. QED BY <1>1, <1>3, <2>1, <2>2, Copies
<1>4. CASE AssignSeeker(h)
  <2>1. PICK c \in Call : c = [Idle EXCEPT !.op = "seeker", !.at = "again"]
    BY IdleIsCall DEF Call
  <2>2. c.at = "again" /\ ~ c.copy.deleted /\ HasRow
    BY <1>4, <2>1, IdleIsCall DEF Idle, NewUser, AssignSeeker, MayBeSeeker, Exists
  <2>3. QED BY <1>1, <1>4, <2>1, <2>2, RowStays DEF AssignSeeker, Active
<1>5. CASE Promote(h)
  <2>1. HasRow /\ user \in User /\ ~ user.deleted
    BY <1>1, <1>5 DEF Promote, Exists
  <2>2. PICK c \in Call :
          c = Copied("promote", [user EXCEPT !.roles = AsProvider(@)])
    BY <2>1, IdleIsCall DEF Copied, Idle, Call, User, AsProvider, Roles
  <2>3. /\ c.at = "compare" /\ ~ c.copy.deleted
        /\ AdminRole(c.copy) = AdminRole(user)
    BY <2>1, <2>2 DEF Copied, Idle, User, AdminRole, AsProvider
  <2>4. QED BY <1>1, <1>5, <2>1, <2>2, <2>3, Copies DEF Promote
<1>6. CASE Delete(h)
  <2>1. PICK c \in Call : c = [Idle EXCEPT !.op = "delete", !.at = "delete"]
    BY IdleIsCall DEF Call
  <2>2. c.at = "delete" /\ ~ c.copy.deleted /\ HasRow
    BY <1>6, <2>1 DEF Idle, NewUser, Delete
  <2>3. QED BY <1>1, <1>6, <2>1, <2>2, RowStays DEF Delete, Active
<1>7. QED BY <1>2, <1>3, <1>4, <1>5, <1>6 DEF Login

LEMMA AddRoleStep ==
    ASSUME AInv, NEW A \in SUBSET {"admin"}, Settled(A), NEW h \in Handlers,
           AddRole(h)
    PROVE  AInv' /\ Settled(A)'
<1>1. /\ begun' \in 0 .. MaxCalls /\ overtaken' \in BOOLEAN
      /\ UNCHANGED <<user, overtaken>> /\ (HasRow => user \in User)
      /\ calls[h] \in Call /\ ~ calls[h].copy.deleted
  BY HereAccount DEF AddRole
<1>2. CASE Exists /\ Set(h, [Copied("seeker", AsSeeker) EXCEPT
                                 !.fresh = calls[h].fresh])
  <2>1. HasRow /\ user \in User /\ ~ user.deleted
    BY <1>1, <1>2 DEF Exists
  <2>2. AsSeeker \in User /\ ~ AsSeeker.deleted
        /\ AdminRole(AsSeeker) = AdminRole(user)
    BY <2>1 DEF AsSeeker, User, Roles, AdminRole
  <2>3. Copied("seeker", AsSeeker) \in Call
    BY <2>2, IdleIsCall DEF Copied, Idle, Call
  <2>4. PICK c \in Call : c = [Copied("seeker", AsSeeker) EXCEPT
                                  !.fresh = calls[h].fresh]
    BY <1>1, <2>3 DEF Call
  <2>5. c.at = "compare" /\ c.copy = AsSeeker
    BY <2>3, <2>4 DEF Copied, Idle
  <2>6. QED BY <1>1, <1>2, <2>1, <2>2, <2>4, <2>5, Copies
<1>3. CASE Goto(h, "saved")
  <2>1. PICK c \in Call : c = [calls[h] EXCEPT !.at = "saved"]
    BY <1>1 DEF Call
  <2>2. c.at = "saved" /\ ~ c.copy.deleted
    BY <1>1, <2>1 DEF Call
  <2>3. QED BY <1>1, <1>3, <2>1, <2>2, RowStays DEF Goto, Calm, Active
<1>4. QED BY <1>2, <1>3 DEF AddRole

LEMMA SoftDeleteStep ==
    ASSUME AInv, NEW A \in SUBSET {"admin"}, Settled(A), NEW h \in Handlers,
           SoftDelete(h)
    PROVE  AInv' /\ Settled(A)' /\ HasRow
<1>1. /\ calls[h] \in Call /\ calls[h].at = "delete" /\ HasRow
      /\ user \in User /\ ~ calls[h].copy.deleted
  BY HereAccount DEF SoftDelete, At, Calm
<1>2. PICK c \in Call : c = [calls[h] EXCEPT !.at = "saved"]
  BY <1>1 DEF Call
<1>3. c.at = "saved" /\ ~ c.copy.deleted
  BY <1>1, <1>2 DEF Call
<1>4. user' \in User /\ AdminRole(user') = AdminRole(user) /\ HasRow'
  BY <1>1, RowsDiffer DEF SoftDelete, User, AdminRole, HasRow
<1>5. Overtake(h, c) /\ begun' \in 0 .. MaxCalls /\ overtaken' \in BOOLEAN
  BY <1>2, HereAccount DEF SoftDelete
<1>6. AdminRole(user') = A
  BY <1>1, <1>4 DEF Settled
<1>7. QED BY <1>1, <1>3, <1>4, <1>5, <1>6, AccountMoves DEF Active

LEMMA CompareStep ==
    ASSUME AInv, NEW A \in SUBSET {"admin"}, Settled(A), NEW h \in Handlers,
           Compare(h)
    PROVE  AInv' /\ Settled(A)'
<1>1. /\ calls[h] \in Call /\ calls[h].at = "compare" /\ HasRow
      /\ ~ calls[h].copy.deleted
  BY HereAccount DEF Compare, At, Calm
<1>2. PICK c \in Call :
        /\ Set(h, c) /\ c.at = "write" /\ c.copy = calls[h].copy
  <2> DEFINE d == [calls[h] EXCEPT
               !.at = "write",
               !.cols = {x \in Columns : calls[h].copy[x] # user[x]}]
  <2>1. Set(h, d)
    BY DEF Compare
  <2>2. d \in Call /\ d.at = "write" /\ d.copy = calls[h].copy
    BY <1>1 DEF Call
  <2>3. QED BY <2>1, <2>2
<1>3. /\ UNCHANGED user /\ begun' \in 0 .. MaxCalls /\ overtaken' \in BOOLEAN
  BY HereAccount DEF Compare
<1>4. AdminRole(c.copy) = A
  BY <1>1, <1>2 DEF Settled, Active
<1>5. QED BY <1>1, <1>2, <1>3, <1>4, RowStays

LEMMA WriteStep ==
    ASSUME AInv, NEW A \in SUBSET {"admin"}, Settled(A), NEW h \in Handlers,
           Write(h)
    PROVE  AInv' /\ Settled(A)' /\ (Exists => Exists')
<1>1. /\ calls[h] \in Call /\ calls[h].at = "write" /\ calls[h].copy \in User
      /\ ~ calls[h].copy.deleted /\ (HasRow => user \in User)
  BY HereAccount DEF Write, At, Call
<1>2. PICK c \in Call : c = [calls[h] EXCEPT !.at = "saved"]
  BY <1>1 DEF Call
<1>3. c.at = "saved" /\ ~ c.copy.deleted
  BY <1>1, <1>2 DEF Call
<1>4. begun' \in 0 .. MaxCalls /\ overtaken' \in BOOLEAN
  BY <1>1, HereAccount DEF Write, Call
<1>5. CASE Set(h, c) /\ UNCHANGED user
  BY <1>3, <1>4, <1>5, RowStays DEF Calm, Active, Exists, HasRow
<1>6. CASE calls[h].cols # {} /\ user' = Written(calls[h]) /\ Overtake(h, c)
  <2>1. HasRow /\ user \in User
    BY <1>1, <1>6, HereAccount DEF Calm
  <2>2. /\ user' \in User /\ user'.roles \in {user.roles, calls[h].copy.roles}
        /\ user'.deleted \in {user.deleted, calls[h].copy.deleted}
    BY <1>1, <1>6, <2>1 DEF Written, User, Columns
  <2>3. HasRow' /\ (Exists => Exists')
    BY <1>1, <2>2, RowsDiffer DEF HasRow, Exists
  <2>4. AdminRole(user) = A /\ AdminRole(calls[h].copy) = A
    BY <1>1, <2>1 DEF Settled, Active
  <2>5. AdminRole(user') = A
    BY <2>2, <2>4 DEF AdminRole
  <2>6. QED BY <1>3, <1>4, <1>6, <2>2, <2>3, <2>5, AccountMoves DEF Active
<1>7. QED BY <1>2, <1>5, <1>6 DEF Write, Goto

LEMMA InsertStep ==
    ASSUME AInv, NEW A \in SUBSET {"admin"}, Settled(A), NEW h \in Handlers,
           Insert(h)
    PROVE  AInv' /\ Settled(A)' /\ (Exists => Exists')
<1>1. /\ calls[h] \in Call /\ calls[h].at = "insert" /\ calls[h].copy \in User
      /\ ~ calls[h].copy.deleted
      /\ begun' \in 0 .. MaxCalls /\ overtaken' \in BOOLEAN
  BY HereAccount DEF Insert, At, Call
<1>2. CASE Return(h) /\ UNCHANGED user
  BY <1>1, <1>2, IdleIsCall, RowStays DEF Return, Calm, Active, Exists, HasRow
<1>3. CASE ~ HasRow /\ Goto(h, "saved") /\ user' = calls[h].copy
  <2>1. PICK c \in Call : c = [calls[h] EXCEPT !.at = "saved"]
    BY <1>1 DEF Call
  <2>2. c.at = "saved" /\ ~ c.copy.deleted
    BY <1>1, <2>1 DEF Call
  <2>3. user' \in User /\ HasRow'
    BY <1>1, <1>3, RowsDiffer DEF HasRow
  <2>4. AdminRole(user') = A
    BY <1>1, <1>3 DEF Settled, Active
  <2>5. QED BY <1>1, <1>3, <2>1, <2>2, <2>3, <2>4, AccountMoves
            DEF Goto, Active, Exists
<1>4. QED BY <1>2, <1>3 DEF Insert

LEMMA ReturnStep ==
    ASSUME AInv, NEW A \in SUBSET {"admin"}, Settled(A), NEW h \in Handlers,
           Return(h), UNCHANGED <<user, begun, overtaken>>
    PROVE  AInv' /\ Settled(A)'
BY IdleIsCall, HereAccount, RowStays DEF Return, Calm, Active

LEMMA PurgeStep ==
    ASSUME AInv, NEW A \in SUBSET {"admin"}, Settled(A), Purge
    PROVE  AInv' /\ Settled(A)' /\ ~ Exists
<1>1. /\ calls \in [Handlers -> Call] /\ HasRow /\ user.deleted
      /\ user' = Purged /\ begun' = begun /\ overtaken' = overtaken
  BY DEF Purge, AInv, AccountTypeOK
<1>2. \A h \in Handlers :
        /\ Bereft(calls[h]) \in Call
        /\ Bereft(calls[h]).copy = calls[h].copy
        /\ Calm(Bereft(calls[h]))
        /\ Bereft(calls[h]).at \in Active => calls[h].at \in Active
        /\ Bereft(calls[h]).at # "delete"
  BY <1>1 DEF Purge, Bereft, Call, Calm, Active
<1>3. /\ calls' \in [Handlers -> Call]
      /\ \A h \in Handlers : calls'[h] = Bereft(calls[h])
  BY <1>2 DEF Purge
<1>4. Settled(A)'
  BY <1>1, <1>2, <1>3, RowsDiffer DEF Settled, HasRow, AdminRole
<1>5. AccountTypeOK'
  BY <1>1, <1>3 DEF AInv, AccountTypeOK
<1>6. (\A h \in Handlers : Calm(calls[h]))'
  BY <1>2, <1>3 DEF Calm
<1>7. \A h \in Handlers : ~ calls'[h].copy.deleted
  BY <1>2, <1>3 DEF AInv
<1>8. QED BY <1>1, <1>4, <1>5, <1>6, <1>7 DEF AInv, Exists

LEMMA AccountKept ==
    ASSUME AInv, NEW A \in SUBSET {"admin"}, Settled(A),
           UNCHANGED account, begun' \in 0 .. MaxCalls
    PROVE  AInv' /\ Settled(A)' /\ (Exists' <=> Exists)
<1>1. user' = user /\ calls' = calls /\ overtaken' = overtaken
  BY DEF account
<1>2. (HasRow' <=> HasRow) /\ (Exists' <=> Exists)
  BY <1>1 DEF HasRow, Exists
<1>3. QED BY <1>1, <1>2 DEF AInv, AccountTypeOK, Calm, Settled, AdminRole

\* Only Delete brings a call to the point before the soft deletion.
LEMMA CallsElsewhere ==
    ASSUME AInv, NEW h \in Handlers,
           \/ Login(h) \/ AssignSeeker(h) \/ AddRole(h) \/ Promote(h)
           \/ SoftDelete(h) \/ Compare(h) \/ Write(h) \/ Insert(h)
           \/ Answer(h) \/ Return(h)
    PROVE  /\ calls'[h].at # "delete"
           /\ \A g \in Handlers \ {h} : calls'[g].at = calls[g].at
<1> DEFINE There == /\ calls'[h].at # "delete"
                    /\ \A g \in Handlers \ {h} : calls'[g].at = calls[g].at
<1>1. calls \in [Handlers -> Call] /\ calls[h] \in Call
  BY HereAccount
<1>2. ASSUME NEW c, c.at # "delete", Set(h, c)
      PROVE  There
  BY <1>1, <1>2 DEF Set
<1>3. ASSUME NEW c, c.at # "delete", Overtake(h, c)
      PROVE  There
  <2>1. \A g \in Handlers \ {h} :
          calls'[g] = [calls[g] EXCEPT !.fresh = At(g, "idle")]
    BY <1>3 DEF Overtake
  <2>2. calls'[h] = c
    BY <1>3 DEF Overtake
  <2>3. QED BY <1>1, <1>3, <2>1, <2>2 DEF Call
<1>4. CASE Return(h) \/ Answer(h)
  BY <1>2, <1>4, IdleIsCall DEF Answer, Return
<1>5. CASE Login(h) \/ AssignSeeker(h) \/ Promote(h)
  BY <1>2, <1>5 DEF Login, AssignSeeker, Promote, Copied, Idle
<1>6. \A p : [calls[h] EXCEPT !.at = p].at = p
  BY <1>1 DEF Call
<1>7. CASE AddRole(h)
  <2>1. [Copied("seeker", AsSeeker) EXCEPT !.fresh = calls[h].fresh].at = "compare"
    BY DEF Copied, Idle
  <2>2. QED BY <1>2, <1>6, <1>7, <2>1 DEF AddRole, Goto
<1>8. CASE SoftDelete(h)
  BY <1>3, <1>6, <1>8 DEF SoftDelete
<1>9. CASE Compare(h)
  <2>1. [calls[h] EXCEPT !.at = "write",
                         !.cols = {x \in Columns : calls[h].copy[x] # user[x]}].at
           = "write"
    BY <1>1 DEF Call
  <2>2. QED BY <1>2, <1>9, <2>1 DEF Compare
<1>10. CASE Write(h) \/ Insert(h)
  BY <1>2, <1>3, <1>6, <1>10, IdleIsCall DEF Write, Insert, Goto, Return
<1>11. QED BY <1>4, <1>5, <1>7, <1>8, <1>9, <1>10

-----------------------------------------------------------------------------
(* The sessions.                                                           *)

LEMMA TypeParts ==
    TypeOK <=> /\ AccountTypeOK /\ StoreOK /\ BrowserOK /\ halfway \in BOOLEAN
               /\ web \in [Handlers -> Request \union {NoRequest}]
BY DEF TypeOK, StoreOK, BrowserOK, Live

LEMMA NoTokenIsNone == NoToken \notin Token /\ NoRequest.at = "idle"
BY DEF NoToken, Token, None, NoRequest

LEMMA Dropped ==
    ASSUME StoreOK, NEW S, Drop(S), UNCHANGED <<used, clock>>
    PROVE  StoreOK' /\ Live' = Live \ S /\ Live' \ revived' \subseteq Live \ revived
BY DEF StoreOK, Drop, Live

\* A session that is written when its user is deleted is noted.
LEMMA Persisted ==
    ASSUME StoreOK, NEW s \in used', Persist(s), used \subseteq used',
           used' \subseteq Sids, UNCHANGED <<user, clock>>
    PROVE  /\ StoreOK'
           /\ ~ Exists => Live' \ revived' \subseteq Live \ revived
<1>1. store' \in [Sids -> 0 .. MaxTime \union {None}] /\ Live' \subseteq Live \union {s}
  BY DEF StoreOK, Persist, Live
<1>2. revived' \subseteq revived \union {s}
  BY DEF Persist
<1>3. ~ Exists => revived' = revived \union {s}
  BY DEF Persist
<1>4. QED BY <1>1, <1>2, <1>3 DEF StoreOK

\* One request takes a step.
LEMMA RequestMoves ==
    ASSUME SInv, AInv', NEW h \in Handlers, NEW r \in Request \union {NoRequest},
           Put(h, r), StoreOK', BrowserOK', halfway' \in BOOLEAN,
           used \subseteq used', halfway => halfway', ~ Exists' => ~ Exists,
           r.at \in WithToken => r.token \in Token /\ r.token.sid \in used',
           \A b \in Browsers :
               jar'[b] # NoToken => jar'[b] \in Token /\ jar'[b].sid \in used',
           At(h, "delete")' => OnTheRow(r),
           OnTheRow(r) => calls'[h].at \in {"delete", "saved"},
           \A g \in Handlers \ {h} : calls'[g].at = calls[g].at,
           ~ Exists => Live' \ revived' \subseteq Live \ revived,
           \A s \in Live' : ~ halfway' /\ WillEnd(h, s) =>
               /\ r.at \in {"user", "scan"} /\ r.kind = "delete"
               /\ r.at = "user" => calls'[h].at # "delete"
               /\ r.at = "scan" => s \in r.todo
    PROVE  SInv'
<1>1. /\ web' \in [Handlers -> Request \union {NoRequest}] /\ web'[h] = r
      /\ \A g \in Handlers \ {h} : web'[g] = web[g]
  BY DEF SInv, Put
<1>2. \A g \in Handlers :
        web'[g].at \in WithToken => /\ web'[g].token \in Token
                                    /\ web'[g].token.sid \in used'
  BY <1>1 DEF SInv, Given
<1>3. \A g \in Handlers :
        /\ calls'[g].at = "delete" => OnTheRow(web'[g])
        /\ OnTheRow(web'[g]) => calls'[g].at \in {"delete", "saved"}
  BY <1>1 DEF SInv, At, OnTheRow
<1>4. ~ Exists' /\ ~ halfway' =>
        \A s \in Live' \ revived' : \E g \in Handlers : WillEnd(g, s)'
  <2> SUFFICES ASSUME ~ Exists', ~ halfway', NEW s \in Live' \ revived'
               PROVE  \E g \in Handlers : WillEnd(g, s)'
    OBVIOUS
  <2>1. PICK g \in Handlers : WillEnd(g, s)
    BY DEF SInv
  <2>2. WillEnd(g, s)'
    BY <1>1, <2>1 DEF WillEnd, At
  <2>3. QED BY <2>2
<1>5. QED BY <1>1, <1>2, <1>3, <1>4 DEF SInv, At, OnTheRow, WillEnd, Given

\* Every step is one on the row, or leaves the row and its calls alone.
LEMMA AccountSide ==
    ASSUME AInv, NEW A \in SUBSET {"admin"}, Settled(A), [Next]_vars
    PROVE  AInv' /\ Settled(A)'
<1>1. begun \in 0 .. MaxCalls
  BY DEF AInv, AccountTypeOK
<1>2. CASE UNCHANGED vars
  BY <1>1, <1>2, AccountKept DEF vars
<1>3. ASSUME NEW h \in Handlers, NEW b \in Browsers, NEW tab \in Tabs,
             \/ StartRefresh(h, b, tab) \/ StartLogin(h, b, tab)
             \/ StartLogout(h, b, tab) \/ StartLogoutAll(h, b, tab)
             \/ StartDelete(h, b, tab)
      PROVE  AInv' /\ Settled(A)'
  <2>1. CASE StartLogin(h, b, tab) \/ StartDelete(h, b, tab)
    BY <2>1, RequestStep DEF StartLogin, StartDelete
  <2>2. CASE StartRefresh(h, b, tab) \/ StartLogout(h, b, tab)
               \/ StartLogoutAll(h, b, tab)
    BY <2>2, HereAccount, AccountKept
    DEF StartRefresh, StartLogout, StartLogoutAll, Ask
  <2>3. QED BY <1>3, <2>1, <2>2
<1>4. ASSUME NEW h \in Handlers, AccountStep(h)
      PROVE  AInv' /\ Settled(A)'
  <2>1. CASE Answer(h)
    BY <2>1, ReturnStep DEF Answer
  <2>2. QED BY <1>4, <2>1, RequestStep, AddRoleStep, SoftDeleteStep, CompareStep,
               WriteStep, InsertStep DEF AccountStep
<1>5. ASSUME NEW h \in Handlers, Issue(h) \/ EndSessions(h) \/ Die(h)
      PROVE  AInv' /\ Settled(A)'
  BY <1>5, ReturnStep DEF Issue, EndSessions, Die, Answer
<1>6. ASSUME NEW h \in Handlers,
             \/ Abandon(h) \/ Arrive(h) \/ \E s \in Sids : IssueSession(h, s)
             \/ Refuse(h) \/ Get(h) \/ FindUser(h) \/ SetSession(h) \/ Kill(h)
             \/ RevokeFromToken(h) \/ RevokePage(h) \/ Revoked(h)
      PROVE  AInv' /\ Settled(A)'
  <2>1. UNCHANGED account /\ begun' = begun
    BY <1>6 DEF Abandon, Arrive, IssueSession, Refuse, Get, FindUser, SetSession,
                Kill, RevokeFromToken, RevokePage, Revoked
  <2>2. QED BY <1>1, <2>1, AccountKept
<1>7. CASE Tick \/ \E s \in Sids : Expire(s)
  BY <1>1, <1>7, AccountKept DEF Tick, Expire
<1>8. CASE Purge
  BY <1>8, PurgeStep
<1>9. QED BY <1>2, <1>3, <1>4, <1>5, <1>6, <1>7, <1>8 DEF Next

-----------------------------------------------------------------------------
(* The steps of the requests.                                              *)

LEMMA Here ==
    ASSUME SInv, NEW h \in Handlers
    PROVE  /\ AInv /\ StoreOK /\ BrowserOK /\ web[h] \in Request \union {NoRequest}
           /\ web[h].at # "idle" => web[h] \in Request
           /\ web[h].at \in WithToken => Given(web[h].token)
           /\ calls[h].at = "delete" => OnTheRow(web[h])
           /\ OnTheRow(web[h]) => calls[h].at \in {"delete", "saved"}
           /\ calls[h].at = "idle" => ~ OnTheRow(web[h])
           /\ \A b \in Browsers : jar[b] = NoToken \/ Given(jar[b])
BY NoTokenIsNone DEF SInv, At

\* A request that leaves row and sessions alone has a next point.
LEMMA RequestGoesOn ==
    ASSUME SInv, AInv', NEW h \in Handlers, NEW r \in Request \union {NoRequest},
           Put(h, r), UNCHANGED <<user, calls, store, used, clock, revived>>,
           BrowserOK', halfway' = halfway,
           r.at \in WithToken => Given(r.token),
           \A b \in Browsers : jar'[b] # NoToken => jar'[b] \in Token /\ jar'[b].sid \in used,
           calls[h].at = "delete" => OnTheRow(r),
           OnTheRow(r) => calls[h].at \in {"delete", "saved"},
           \A s \in Live : WillEnd(h, s) =>
               /\ r.at \in {"user", "scan"} /\ r.kind = "delete"
               /\ r.at = "user" => calls[h].at # "delete"
               /\ r.at = "scan" => s \in r.todo
    PROVE  SInv'
<1>1. StoreOK' /\ Live' = Live /\ (Exists' <=> Exists)
  BY DEF SInv, StoreOK, Live, Exists, HasRow
<1>2. halfway' \in BOOLEAN /\ (halfway => halfway')
  BY DEF SInv
<1>3. QED BY <1>1, <1>2, RequestMoves DEF Given, At

LEMMA AskedIsRequest ==
    ASSUME BrowserOK, NEW kind \in {"login", "refresh", "logout", "all", "delete"},
           NEW p \in {"user", "get", "del", "scan"},
           NEW b \in Browsers, NEW tab \in Tabs
    PROVE  LET r == Asked(kind, p, b, tab)
           IN  r \in Request /\ r.at = p /\ r.kind = kind /\ r.token = jar[b]
BY DEF BrowserOK, Asked, Request

LEMMA JarKept ==
    ASSUME SInv, jar' = jar, used \subseteq used'
    PROVE  \A b \in Browsers :
             jar'[b] # NoToken => jar'[b] \in Token /\ jar'[b].sid \in used'
<1>1. \A b \in Browsers : jar[b] = NoToken \/ Given(jar[b])
  BY DEF SInv
<1>2. QED BY <1>1 DEF Given

LEMMA StartStep ==
    ASSUME SInv, AInv', NEW h \in Handlers, NEW b \in Browsers, NEW tab \in Tabs,
           \/ StartRefresh(h, b, tab) \/ StartLogout(h, b, tab)
           \/ StartLogoutAll(h, b, tab)
    PROVE  SInv'
<1>1. /\ StoreOK /\ BrowserOK /\ web[h].at = "idle" /\ calls[h].at = "idle"
      /\ \A a \in Browsers : jar[a] = NoToken \/ Given(jar[a])
      /\ \A s : ~ WillEnd(h, s)
  BY Here DEF StartRefresh, StartLogout, StartLogoutAll, Ask, Begin, At, In, WillEnd
<1>2. UNCHANGED <<user, calls, store, used, clock, revived, halfway, jar>>
  BY DEF StartRefresh, StartLogout, StartLogoutAll, Ask, account, sessions, browsers
<1>3. BrowserOK'
  <2>1. lossy' = lossy /\ alarms' = alarms /\ rivals' \in {rivals, rivals \union {b}}
    BY DEF StartRefresh, StartLogout, StartLogoutAll, browsers
  <2>2. QED BY <1>1, <1>2, <2>1 DEF BrowserOK
<1>4. PICK r \in Request : /\ Put(h, r) /\ r.at \in {"get", "del", "scan"}
                           /\ r.kind # "delete"
                           /\ r.at # "scan" => Given(r.token)
  <2>1. CASE StartRefresh(h, b, tab)
    BY <1>1, <2>1, AskedIsRequest DEF StartRefresh, Ask
  <2>2. CASE StartLogout(h, b, tab)
    BY <1>1, <2>2, AskedIsRequest DEF StartLogout, Ask
  <2>3. CASE StartLogoutAll(h, b, tab)
    <3>1. PICK S \in SUBSET Sids : S = {s \in Sids : store[s] # None}
      OBVIOUS
    <3> DEFINE r == [Asked("all", "scan", b, tab) EXCEPT !.todo = S]
    <3>2. r \in Request /\ r.at = "scan" /\ r.kind = "all"
      BY <1>1 DEF BrowserOK, Asked, Request
    <3>3. Put(h, r)
      BY <2>3, <3>1 DEF StartLogoutAll, Ask
    <3>4. QED BY <3>2, <3>3
  <2>4. QED BY <2>1, <2>2, <2>3
<1>5. \A a \in Browsers :
        jar'[a] # NoToken => jar'[a] \in Token /\ jar'[a].sid \in used
  BY <1>2, JarKept
<1>6. QED BY <1>1, <1>2, <1>3, <1>4, <1>5, RequestGoesOn DEF WithToken, OnTheRow

LEMMA StartOnTheRowStep ==
    ASSUME SInv, AInv', NEW h \in Handlers, NEW b \in Browsers, NEW tab \in Tabs,
           StartLogin(h, b, tab) \/ StartDelete(h, b, tab)
    PROVE  SInv'
<1>1. /\ AInv /\ StoreOK /\ BrowserOK /\ web[h].at = "idle"
      /\ \A a \in Browsers : jar[a] = NoToken \/ Given(jar[a])
      /\ \A s : ~ WillEnd(h, s)
  BY Here DEF StartLogin, StartDelete, In, WillEnd
<1>2. UNCHANGED <<user, store, used, clock, revived, halfway, jar, lossy,
                 rivals, alarms>>
  BY DEF StartLogin, StartDelete, Login, Delete, sessions, browsers
<1>3. /\ StoreOK' /\ BrowserOK' /\ Live' = Live /\ (Exists' <=> Exists)
      /\ halfway' \in BOOLEAN
  BY <1>1, <1>2 DEF SInv, StoreOK, BrowserOK, Live, Exists, HasRow
<1>4. \A a \in Browsers :
        jar'[a] # NoToken => jar'[a] \in Token /\ jar'[a].sid \in used'
  BY <1>2, JarKept
<1>5. CASE StartLogin(h, b, tab)
  <2>1. PICK r \in Request : Put(h, r) /\ r.at = "user" /\ r.kind = "login"
    BY <1>1, <1>5, AskedIsRequest DEF StartLogin
  <2>2. /\ calls'[h].at # "delete"
        /\ \A g \in Handlers \ {h} : calls'[g].at = calls[g].at
    BY <1>1, <1>5, CallsElsewhere DEF StartLogin
  <2>3. QED BY <1>1, <1>2, <1>3, <1>4, <2>1, <2>2, RequestMoves
            DEF WithToken, OnTheRow, At
<1>6. CASE StartDelete(h, b, tab)
  <2>1. PICK r \in Request : Put(h, r) /\ r.at = "user" /\ r.kind = "delete"
    BY <1>1, <1>6, AskedIsRequest DEF StartDelete
  <2>2. /\ calls'[h].at = "delete"
        /\ \A g \in Handlers \ {h} : calls'[g].at = calls[g].at
    BY <1>1, <1>6, HereAccount DEF StartDelete, Delete, Set, Idle
  <2>3. QED BY <1>1, <1>2, <1>3, <1>4, <2>1, <2>2, RequestMoves
            DEF WithToken, OnTheRow, At
<1>7. QED BY <1>5, <1>6

LEMMA AbandonStep ==
    ASSUME SInv, AInv', NEW h \in Handlers, Abandon(h)
    PROVE  SInv'
<1>1. /\ BrowserOK /\ web[h] \in Request
      /\ UNCHANGED <<user, calls, store, used, clock, revived, halfway, jar>>
  BY Here DEF Abandon, In, account, sessions
<1>2. PICK r \in Request : /\ Put(h, r) /\ r.at = web[h].at /\ r.kind = web[h].kind
                           /\ r.token = web[h].token /\ r.todo = web[h].todo
  <2> DEFINE q == [web[h] EXCEPT !.tab = NoTab]
  <2>1. /\ q \in Request /\ q.at = web[h].at /\ q.kind = web[h].kind
        /\ q.token = web[h].token /\ q.todo = web[h].todo
    BY <1>1 DEF Request
  <2>2. QED BY <2>1 DEF Abandon
<1>3. BrowserOK'
  BY <1>1 DEF BrowserOK, Abandon, Unheard, Request
<1>4. \A b \in Browsers :
        jar'[b] # NoToken => jar'[b] \in Token /\ jar'[b].sid \in used
  BY <1>1, JarKept
<1>5. halfway' = halfway /\ (r.at \in WithToken => Given(r.token))
  BY <1>2, Here DEF Abandon, sessions
<1>6. /\ calls[h].at = "delete" => OnTheRow(r)
      /\ OnTheRow(r) => calls[h].at \in {"delete", "saved"}
  BY <1>2, Here DEF OnTheRow
<1>7. QED BY <1>1, <1>2, <1>3, <1>4, <1>5, <1>6, RequestGoesOn DEF WillEnd, At

\* A request goes to another point and changes nothing else.
Becomes(h, p) ==
    \E r \in Request : /\ Put(h, r) /\ r.at = p /\ r.kind = web[h].kind
                       /\ r.token = web[h].token /\ r.todo = web[h].todo

LEMMA GoesTo ==
    ASSUME NEW h \in Handlers, web[h] \in Request,
           NEW p \in {"store", "find", "kill", "set", "refused", "signed out"},
           To(h, p)
    PROVE  Becomes(h, p)
<1> DEFINE r == [web[h] EXCEPT !.at = p]
<1>1. /\ r \in Request /\ r.at = p /\ r.kind = web[h].kind
      /\ r.token = web[h].token /\ r.todo = web[h].todo
  BY DEF Request
<1>2. Put(h, r)
  BY DEF To
<1> HIDE DEF r
<1>3. QED BY <1>1, <1>2 DEF Becomes

\* The account part of a sign-in or a deletion is over.
LEMMA AccountDoneStep ==
    ASSUME SInv, AInv', NEW h \in Handlers, Issue(h) \/ EndSessions(h) \/ Refuse(h)
    PROVE  SInv'
<1>1. /\ AInv /\ StoreOK /\ BrowserOK /\ web[h] \in Request /\ web[h].at = "user"
      /\ calls[h].at = "delete" => OnTheRow(web[h])
  BY Here DEF Issue, EndSessions, Refuse, In
<1>2. UNCHANGED <<user, store, used, clock, revived, halfway, jar, lossy,
                 rivals, alarms>>
  BY DEF Issue, EndSessions, Refuse, Answer, account, sessions, browsers
<1>3. /\ StoreOK' /\ BrowserOK' /\ Live' = Live /\ (Exists' <=> Exists)
      /\ halfway' \in BOOLEAN
  BY <1>1, <1>2 DEF SInv, StoreOK, BrowserOK, Live, Exists, HasRow
<1>4. \A a \in Browsers :
        jar'[a] # NoToken => jar'[a] \in Token /\ jar'[a].sid \in used'
  BY <1>2, JarKept
<1>5. CASE Issue(h)
  <2>1. PICK r \in Request : Put(h, r) /\ r.at = "store" /\ r.kind = "login"
    <3>1. To(h, "store") /\ web[h].kind = "login"
      BY <1>5 DEF Issue
    <3>2. Becomes(h, "store")
      BY <1>1, <3>1, GoesTo
    <3>3. QED BY <3>1, <3>2 DEF Becomes
  <2>2. /\ calls'[h].at # "delete"
        /\ \A g \in Handlers \ {h} : calls'[g].at = calls[g].at
    BY <1>1, <1>5, CallsElsewhere DEF Issue
  <2>3. \A s : ~ WillEnd(h, s)
    BY <1>5 DEF Issue, WillEnd
  <2>4. QED BY <1>1, <1>2, <1>3, <1>4, <2>1, <2>2, <2>3, RequestMoves
            DEF WithToken, OnTheRow, At
<1>6. CASE EndSessions(h)
  <2>1. PICK r \in Request : /\ Put(h, r) /\ r.at = "scan" /\ r.kind = "delete"
                             /\ r.todo = Live
    <3> DEFINE r == [web[h] EXCEPT !.at = "scan", !.todo = Live]
    <3>1. Live \in SUBSET Sids
      BY DEF Live
    <3>2. web[h].kind = "delete" /\ Put(h, r)
      BY <1>6 DEF EndSessions
    <3>3. r \in Request /\ r.at = "scan" /\ r.kind = "delete" /\ r.todo = Live
      BY <1>1, <3>1, <3>2 DEF Request
    <3> HIDE DEF r
    <3>4. QED BY <3>2, <3>3
  <2>2. /\ calls'[h].at # "delete"
        /\ \A g \in Handlers \ {h} : calls'[g].at = calls[g].at
    BY <1>1, <1>6, CallsElsewhere DEF EndSessions
  <2>3. QED BY <1>1, <1>2, <1>3, <1>4, <2>1, <2>2, RequestMoves
            DEF WithToken, OnTheRow, At
<1>7. CASE Refuse(h)
  <2>1. PICK r \in Request : Put(h, r) /\ r.at = "refused"
    <3>1. Becomes(h, "refused")
      BY <1>1, <1>7, GoesTo DEF Refuse
    <3>2. QED BY <3>1 DEF Becomes
  <2>2. calls[h].at = "idle" /\ calls' = calls
    BY <1>7 DEF Refuse, At, account
  <2>3. \A s : ~ WillEnd(h, s)
    BY <1>1, <2>2, Here DEF WillEnd, OnTheRow
  <2>4. QED BY <1>1, <1>2, <1>3, <1>4, <2>1, <2>2, <2>3, RequestMoves
            DEF WithToken, OnTheRow, At
<1>8. QED BY <1>5, <1>6, <1>7

\* rotate up to its write, and a revocation that has come to its end.
LEMMA ReadStep ==
    ASSUME SInv, AInv', NEW h \in Handlers,
           Get(h) \/ FindUser(h) \/ Revoked(h)
    PROVE  SInv'
<1>1. /\ web[h] \in Request /\ BrowserOK
      /\ web[h].at # "user" /\ calls[h].at # "delete"
      /\ web[h].at \in {"get", "find"} => Given(web[h].token)
      /\ \A s : ~ WillEnd(h, s)
  BY Here DEF Get, FindUser, Revoked, In, OnTheRow, WillEnd, WithToken
<1>2. /\ UNCHANGED <<user, calls, store, used, clock, revived, jar>>
      /\ halfway' = halfway
  BY DEF Get, FindUser, Revoked, account, sessions, browsers
<1>3. BrowserOK'
  <2>1. web[h].from \in Browsers
    BY <1>1 DEF Request
  <2>2. /\ alarms' \in {alarms, alarms \union {web[h].from}}
        /\ lossy' = lossy /\ rivals' = rivals
    BY DEF Get, FindUser, Revoked, browsers
  <2>3. QED BY <1>1, <1>2, <2>1, <2>2 DEF BrowserOK
<1>4. PICK r \in Request : /\ Put(h, r) /\ r.token = web[h].token
                           /\ r.at \in {"refused", "find", "kill", "set", "signed out"}
                           /\ r.at \in WithToken => web[h].at \in {"get", "find"}
  <2>1. \/ /\ web[h].at \in {"get", "find"}
           /\ \/ To(h, "refused") \/ To(h, "find")
              \/ To(h, "kill") \/ To(h, "set")
        \/ To(h, "signed out")
    BY DEF Get, FindUser, Revoked, In
  <2>2. \/ /\ web[h].at \in {"get", "find"}
           /\ \/ Becomes(h, "find") \/ Becomes(h, "kill")
              \/ Becomes(h, "set")
        \/ Becomes(h, "refused") \/ Becomes(h, "signed out")
    BY <1>1, <2>1, GoesTo
  <2>3. QED BY <2>2 DEF Becomes, WithToken
<1>5. \A b \in Browsers :
        jar'[b] # NoToken => jar'[b] \in Token /\ jar'[b].sid \in used
  BY <1>2, JarKept
<1>6. QED BY <1>1, <1>2, <1>3, <1>4, <1>5, RequestGoesOn DEF OnTheRow

\* persistSession, for a new session or for one that is rotated.
LEMMA PersistStep ==
    ASSUME SInv, AInv', NEW h \in Handlers,
           (\E s \in Sids : IssueSession(h, s)) \/ SetSession(h)
    PROVE  SInv'
<1>1. /\ StoreOK /\ BrowserOK /\ web[h] \in Request
      /\ web[h].at \in {"store", "set"} /\ calls[h].at # "delete"
      /\ web[h].at = "set" => Given(web[h].token)
      /\ \A s : ~ WillEnd(h, s)
  BY Here DEF IssueSession, SetSession, In, OnTheRow, WillEnd, WithToken
<1>2. UNCHANGED <<user, calls, clock, halfway, jar, lossy, rivals, alarms>>
  BY DEF IssueSession, SetSession, account, browsers
<1>3. PICK s \in used' : Persist(s) /\ Signed(h, s) /\ used \subseteq used'
                        /\ used' \subseteq Sids
  <2>1. CASE SetSession(h)
    BY <1>1, <2>1 DEF SetSession, In, Given, StoreOK
  <2>2. CASE \E s \in Sids : IssueSession(h, s)
    BY <1>1, <2>2 DEF IssueSession, StoreOK
  <2>3. QED BY <2>1, <2>2
<1>4. StoreOK' /\ (~ Exists => Live' \ revived' \subseteq Live \ revived)
  BY <1>1, <1>2, <1>3, Persisted
<1>5. PICK t \in Token : t = [sid |-> s, t |-> clock] /\ t.sid \in used'
  <2>1. [sid |-> s, t |-> clock] \in Token
    BY <1>1, <1>3 DEF Token, StoreOK
  <2>2. QED BY <1>3, <2>1
<1>6. PICK r \in Request : Put(h, r) /\ r.at = "signed in" /\ r.token = t
  <2> DEFINE r == [web[h] EXCEPT !.at = "signed in", !.token = t]
  <2>1. r \in Request /\ r.at = "signed in" /\ r.token = t
    BY <1>1 DEF Request
  <2>2. Put(h, r)
    BY <1>3, <1>5 DEF Signed
  <2>3. QED BY <2>1, <2>2
<1>7. r.token \in Token /\ r.token.sid \in used'
  BY <1>5, <1>6
<1>8. BrowserOK' /\ (Exists' <=> Exists) /\ halfway' \in BOOLEAN
  BY <1>1, <1>2 DEF SInv, BrowserOK, Exists, HasRow
<1>9. \A b \in Browsers :
        jar'[b] # NoToken => jar'[b] \in Token /\ jar'[b].sid \in used'
  BY <1>2, <1>3, JarKept
<1>10. QED BY <1>1, <1>2, <1>3, <1>4, <1>6, <1>7, <1>8, <1>9, RequestMoves
           DEF OnTheRow, At

\* A session ends for a reason other than a deletion's scan.
LEMMA EndOneStep ==
    ASSUME SInv, AInv', NEW h \in Handlers, Kill(h) \/ RevokeFromToken(h)
    PROVE  SInv'
<1>1. /\ StoreOK /\ BrowserOK /\ web[h] \in Request
      /\ web[h].at \in {"kill", "del"} /\ calls[h].at # "delete"
      /\ \A s : ~ WillEnd(h, s)
  BY Here DEF Kill, RevokeFromToken, In, OnTheRow, WillEnd
<1>2. /\ UNCHANGED <<user, calls, used, clock, halfway, jar, lossy, rivals, alarms>>
      /\ Drop({web[h].token.sid})
  BY DEF Kill, RevokeFromToken, account, browsers
<1>3. PICK r \in Request : Put(h, r) /\ r.at \in {"refused", "signed out"}
  <2>1. Becomes(h, "refused") \/ Becomes(h, "signed out")
    BY <1>1, GoesTo DEF Kill, RevokeFromToken
  <2>2. QED BY <2>1 DEF Becomes
<1>4. StoreOK' /\ Live' \ revived' \subseteq Live \ revived
  BY <1>1, <1>2, Dropped
<1>5. BrowserOK' /\ (Exists' <=> Exists) /\ halfway' \in BOOLEAN
  BY <1>1, <1>2 DEF SInv, BrowserOK, Exists, HasRow
<1>6. \A b \in Browsers :
        jar'[b] # NoToken => jar'[b] \in Token /\ jar'[b].sid \in used'
  BY <1>2, JarKept
<1>7. QED BY <1>1, <1>2, <1>3, <1>4, <1>5, <1>6, RequestMoves
          DEF WithToken, OnTheRow, At

\* What a page of the scan takes away is gone, the rest is still to come.
LEMMA RevokePageStep ==
    ASSUME SInv, AInv', NEW h \in Handlers, RevokePage(h)
    PROVE  SInv'
<1>1. /\ StoreOK /\ BrowserOK /\ web[h] \in Request
      /\ web[h].at = "scan" /\ calls[h].at # "delete"
  BY Here DEF RevokePage, In, OnTheRow
<1>2. PICK S \in SUBSET Live :
        /\ Drop(S)
        /\ Put(h, [web[h] EXCEPT !.todo = (@ \intersect Live) \ S])
  BY DEF RevokePage
<1>3. UNCHANGED <<user, calls, used, clock, halfway, jar, lossy, rivals, alarms>>
  BY DEF RevokePage, account, browsers
<1>4. PICK r \in Request : /\ Put(h, r) /\ r.at = "scan" /\ r.kind = web[h].kind
                           /\ r.todo = (web[h].todo \intersect Live) \ S
  <2> DEFINE r == [web[h] EXCEPT !.todo = (web[h].todo \intersect Live) \ S]
  <2>1. /\ r \in Request /\ r.at = "scan" /\ r.kind = web[h].kind
        /\ r.todo = (web[h].todo \intersect Live) \ S
    BY <1>1 DEF Request
  <2>2. Put(h, r)
    BY <1>2
  <2> HIDE DEF r
  <2>3. QED BY <2>1, <2>2
<1>5. /\ StoreOK' /\ Live' = Live \ S
      /\ Live' \ revived' \subseteq Live \ revived
  BY <1>1, <1>2, <1>3, Dropped
<1>6. BrowserOK' /\ (Exists' <=> Exists) /\ halfway' \in BOOLEAN
  BY <1>1, <1>3 DEF SInv, BrowserOK, Exists, HasRow
<1>7. \A b \in Browsers :
        jar'[b] # NoToken => jar'[b] \in Token /\ jar'[b].sid \in used'
  BY <1>3, JarKept
<1>8. \A s \in Live' : WillEnd(h, s) => r.kind = "delete" /\ s \in r.todo
  BY <1>1, <1>4, <1>5 DEF WillEnd
<1>9. QED BY <1>1, <1>3, <1>4, <1>5, <1>6, <1>7, <1>8, RequestMoves
          DEF WithToken, OnTheRow, At

\* A deletion that dies before its scan is over is remembered.
LEMMA DieStep ==
    ASSUME SInv, AInv', NEW h \in Handlers, Die(h)
    PROVE  SInv'
<1>1. /\ AInv /\ StoreOK /\ BrowserOK /\ web[h] \in Request
      /\ calls[h].at = "delete" => OnTheRow(web[h])
  BY Here DEF Die, In
<1>2. /\ UNCHANGED <<user, store, used, clock, revived, jar, rivals, alarms>>
      /\ Put(h, NoRequest)
      /\ lossy' = lossy \union Unheard(h)
  BY DEF Die
<1>3. StoreOK' /\ Live' = Live /\ (Exists' <=> Exists)
  BY <1>1, <1>2 DEF StoreOK, Live, Exists, HasRow
<1>4. BrowserOK'
  BY <1>1, <1>2 DEF BrowserOK, Unheard, Request
<1>5. halfway' \in BOOLEAN /\ (halfway => halfway')
  BY DEF Die
<1>6. ~ halfway' => \A s : ~ WillEnd(h, s)
  <2>1. web[h].kind = "delete" /\ ~ At(h, "delete") /\ web[h].at \in {"user", "scan"}
          => halfway'
    BY DEF Die
  <2>2. \A s : WillEnd(h, s) => /\ web[h].kind = "delete" /\ ~ At(h, "delete")
                               /\ web[h].at \in {"user", "scan"}
    BY <1>1 DEF WillEnd, OnTheRow, At
  <2>3. QED BY <2>1, <2>2
<1>7. /\ calls'[h].at # "delete"
      /\ \A g \in Handlers \ {h} : calls'[g].at = calls[g].at
  BY <1>1, CallsElsewhere DEF Die
<1>8. \A b \in Browsers :
        jar'[b] # NoToken => jar'[b] \in Token /\ jar'[b].sid \in used'
  BY <1>2, JarKept
<1>9. NoRequest.at \notin WithToken /\ ~ OnTheRow(NoRequest)
  BY NoTokenIsNone DEF WithToken, OnTheRow
<1>10. QED BY <1>1, <1>2, <1>3, <1>4, <1>5, <1>6, <1>7, <1>8, <1>9, RequestMoves
           DEF At

LEMMA ArriveStep ==
    ASSUME SInv, AInv', NEW h \in Handlers, Arrive(h)
    PROVE  SInv'
<1>1. /\ BrowserOK /\ web[h] \in Request
      /\ web[h].at \in {"refused", "signed in", "signed out"}
      /\ calls[h].at # "delete" /\ (\A s : ~ WillEnd(h, s))
      /\ web[h].at = "signed in" => Given(web[h].token)
  BY Here DEF Arrive, OnTheRow, WillEnd, WithToken
<1>2. /\ UNCHANGED <<user, calls, store, used, clock, revived, lossy, rivals, alarms>>
      /\ halfway' = halfway /\ Put(h, NoRequest)
  BY DEF Arrive, account, sessions
<1>3. PICK t \in Token \union {NoToken} :
        /\ t # NoToken => Given(t)
        /\ jar' = jar \/ jar' = [jar EXCEPT ![web[h].from] = t]
  BY <1>1 DEF Arrive, Given
<1>4. BrowserOK'
  BY <1>1, <1>2, <1>3 DEF BrowserOK, Request
<1>5. \A b \in Browsers : jar[b] # NoToken => Given(jar[b])
  BY DEF SInv
<1>6. \A b \in Browsers :
        jar'[b] # NoToken => jar'[b] \in Token /\ jar'[b].sid \in used
  BY <1>1, <1>3, <1>5 DEF BrowserOK, Given
<1>7. NoRequest.at \notin WithToken /\ ~ OnTheRow(NoRequest)
  BY NoTokenIsNone DEF WithToken, OnTheRow
<1>8. QED BY <1>1, <1>2, <1>4, <1>6, <1>7, RequestGoesOn

-----------------------------------------------------------------------------
(* The steps that are no request's, or work on the row alone.              *)

LEMMA RequestsStay ==
    ASSUME SInv, AInv', UNCHANGED <<web, jar, lossy, rivals, alarms, halfway>>,
           StoreOK', used \subseteq used',
           ~ Exists' => ~ Exists,
           ~ Exists => Live' \ revived' \subseteq Live \ revived,
           \A h \in Handlers :
               /\ calls'[h].at = "delete" => OnTheRow(web[h])
               /\ OnTheRow(web[h]) => calls'[h].at \in {"delete", "saved"}
               /\ calls'[h].at = "delete" => calls[h].at = "delete"
    PROVE  SInv'
<1>1. BrowserOK' /\ halfway' \in BOOLEAN
  BY DEF SInv, BrowserOK
<1>2. \A h \in Handlers :
        web'[h].at \in WithToken => /\ web'[h].token \in Token
                                    /\ web'[h].token.sid \in used'
  BY DEF SInv, Given
<1>3. \A b \in Browsers :
        jar'[b] # NoToken => jar'[b] \in Token /\ jar'[b].sid \in used'
  BY JarKept
<1>4. ~ Exists' /\ ~ halfway' =>
        \A s \in Live' \ revived' : \E h \in Handlers : WillEnd(h, s)'
  <2> SUFFICES ASSUME ~ Exists', ~ halfway', NEW s \in Live' \ revived'
               PROVE  \E h \in Handlers : WillEnd(h, s)'
    OBVIOUS
  <2>1. PICK h \in Handlers : WillEnd(h, s)
    BY DEF SInv
  <2>2. WillEnd(h, s)'
    BY <2>1 DEF WillEnd, At
  <2>3. QED BY <2>2
<1>5. QED BY <1>1, <1>2, <1>3, <1>4 DEF SInv, At, OnTheRow, WillEnd, Given

\* The soft deletion: its request will end every session.
LEMMA SoftDeletion ==
    ASSUME SInv, AInv', NEW h \in Handlers, SoftDelete(h),
           UNCHANGED <<sessions, browsers, web>>
    PROVE  SInv'
<1>1. /\ AInv /\ StoreOK /\ BrowserOK /\ OnTheRow(web[h]) /\ calls[h].at = "delete"
      /\ calls \in [Handlers -> Call] /\ calls[h] \in Call
  BY Here, HereAccount DEF SoftDelete, At
<1>2. UNCHANGED <<store, used, clock, revived, halfway, jar, lossy, rivals,
                 alarms, web>>
  BY DEF sessions, browsers
<1>3. PICK c \in Call : Overtake(h, c) /\ c.at = "saved"
  <2> DEFINE c == [calls[h] EXCEPT !.at = "saved"]
  <2>1. c \in Call /\ c.at = "saved"
    BY <1>1 DEF Call
  <2>2. Overtake(h, c)
    BY DEF SoftDelete
  <2> HIDE DEF c
  <2>3. QED BY <2>1, <2>2
<1>4. /\ calls'[h].at = "saved"
      /\ \A g \in Handlers \ {h} : calls'[g].at = calls[g].at
  BY <1>1, <1>3, CallsReplaced
<1>5. /\ web \in [Handlers -> Request \union {NoRequest}] /\ halfway \in BOOLEAN
      /\ \A g \in Handlers : web[g].at \in WithToken => Given(web[g].token)
      /\ \A b \in Browsers : jar[b] = NoToken \/ Given(jar[b])
      /\ \A g \in Handlers :
           /\ calls[g].at = "delete" => OnTheRow(web[g])
           /\ OnTheRow(web[g]) => calls[g].at \in {"delete", "saved"}
  BY DEF SInv, At
<1>6. StoreOK' /\ BrowserOK'
  BY <1>1, <1>2 DEF StoreOK, BrowserOK, Live
<1>7. \A s : WillEnd(h, s)'
  BY <1>1, <1>2, <1>4 DEF WillEnd, OnTheRow, At
<1>8. QED BY <1>1, <1>2, <1>4, <1>5, <1>6, <1>7
          DEF SInv, At, OnTheRow, Given, WillEnd

LEMMA SessionsKept ==
    ASSUME StoreOK, UNCHANGED sessions
    PROVE  /\ StoreOK' /\ Live' = Live /\ used' = used /\ halfway' = halfway
           /\ revived' = revived
BY DEF StoreOK, Live, sessions

LEMMA OnTheRowStep ==
    ASSUME SInv, AInv', NEW A \in SUBSET {"admin"}, Settled(A),
           NEW h \in Handlers, AccountStep(h)
    PROVE  SInv'
<1>1. AInv /\ StoreOK /\ UNCHANGED <<sessions, browsers, web>>
  BY Here DEF AccountStep
<1>2. CASE SoftDelete(h)
  BY <1>1, <1>2, SoftDeletion
<1>3. CASE \/ AddRole(h) \/ Compare(h) \/ Write(h) \/ Insert(h)
           \/ In(h, "idle") /\ (AssignSeeker(h) \/ Promote(h) \/ Answer(h))
  <2>1. /\ calls'[h].at # "delete"
        /\ \A g \in Handlers \ {h} : calls'[g].at = calls[g].at
    BY <1>1, <1>3, CallsElsewhere
  <2>2. ~ OnTheRow(web[h])
    BY <1>3, Here DEF AddRole, Compare, Write, Insert, In, At, OnTheRow
  <2>3. ~ Exists' => ~ Exists
    <3>1. CASE Write(h) \/ Insert(h)
      BY <1>1, <3>1, WriteStep, InsertStep
    <3>2. CASE UNCHANGED user
      BY <3>2 DEF Exists, HasRow
    <3>3. QED BY <1>3, <3>1, <3>2
              DEF AddRole, Compare, AssignSeeker, Promote, Answer
  <2>4. \A g \in Handlers :
          /\ calls'[g].at = "delete" => OnTheRow(web[g])
          /\ OnTheRow(web[g]) => calls'[g].at \in {"delete", "saved"}
          /\ calls'[g].at = "delete" => calls[g].at = "delete"
    BY <2>1, <2>2, Here
  <2>5. UNCHANGED <<web, jar, lossy, rivals, alarms, halfway>>
    BY <1>1 DEF sessions, browsers
  <2>6. QED BY <1>1, <2>3, <2>4, <2>5, SessionsKept, RequestsStay
<1>4. QED BY <1>2, <1>3 DEF AccountStep

LEMMA OtherStep ==
    ASSUME SInv, AInv', NEW A \in SUBSET {"admin"}, Settled(A),
           \/ Purge /\ UNCHANGED <<sessions, browsers, web>>
           \/ Tick \/ (\E s \in Sids : Expire(s)) \/ UNCHANGED vars
    PROVE  SInv'
<1>1. /\ AInv /\ StoreOK
      /\ \A h \in Handlers :
           /\ calls[h].at = "delete" => OnTheRow(web[h])
           /\ OnTheRow(web[h]) => calls[h].at \in {"delete", "saved"}
  BY DEF SInv, At
<1>2. UNCHANGED <<web, jar, lossy, rivals, alarms, halfway, used>>
  BY DEF Tick, Expire, vars, sessions, browsers
<1>3. CASE Purge /\ UNCHANGED sessions
  <2>1. ~ Exists
    BY <1>1, <1>3, PurgeStep
  <2>2. \A h \in Handlers : calls[h].at \in {"idle", "compare", "write"}
    BY <1>3 DEF Purge
  <2>3. \A h \in Handlers : calls'[h].at # "delete"
    BY <1>3, <2>2 DEF Purge, Bereft, AInv, AccountTypeOK, Call
  <2>4. QED BY <1>1, <1>2, <1>3, <2>1, <2>2, <2>3, SessionsKept, RequestsStay
<1>4. CASE calls' = calls /\ user' = user /\ StoreOK'
           /\ Live' \ revived' \subseteq Live \ revived
  BY <1>1, <1>2, <1>4, RequestsStay DEF Exists, HasRow
<1>5. CASE Tick
  <2>1. clock' \in 0 .. MaxTime
    BY <1>1, <1>5, SessionsAssumption DEF Tick, StoreOK
  <2>2. QED BY <1>1, <1>4, <1>5, <2>1 DEF Tick, StoreOK, Live, account
<1>6. CASE \E s \in Sids : Expire(s)
  <2>1. PICK s \in Sids : Expire(s)
    BY <1>6
  <2>2. QED BY <1>1, <1>4, <2>1, Dropped DEF Expire, account
<1>7. CASE UNCHANGED vars
  BY <1>1, <1>4, <1>7, SessionsKept DEF vars, account
<1>8. QED BY <1>3, <1>5, <1>6, <1>7

-----------------------------------------------------------------------------
(* The inductive invariant.                                                *)

LEMMA Initially == Init => SInv /\ Settled(IF HasRow THEN AdminRole(user) ELSE {})
<1> SUFFICES ASSUME Init
             PROVE  SInv /\ Settled(IF HasRow THEN AdminRole(user) ELSE {})
  OBVIOUS
<1>1. /\ user \in User \union {NoUser} /\ overtaken = FALSE /\ begun \in 0 .. MaxCalls
      /\ calls \in [Handlers -> Call] /\ \A h \in Handlers : calls[h] = Idle
  BY IdleIsCall, AccountsAssumption DEF Init, AccountInit
<1>2. \A h \in Handlers : /\ calls[h].at = "idle" /\ Calm(calls[h])
                          /\ ~ calls[h].copy.deleted
  BY <1>1, IdleIsCall DEF Calm
<1> DEFINE A == IF HasRow THEN AdminRole(user) ELSE {}
<1>3. A \in SUBSET {"admin"} /\ Settled(A)
  BY <1>1, <1>2, RowsDiffer DEF Settled, Active, HasRow, AdminRole
<1>4. AInv
  BY <1>1, <1>2, <1>3 DEF AInv, AccountTypeOK
<1>5. StoreOK /\ BrowserOK /\ Live = {} /\ halfway \in BOOLEAN
  <2>1. Live = {} /\ halfway \in BOOLEAN
    BY DEF Init, Live
  <2>2. StoreOK
    BY <2>1, SessionsAssumption DEF Init, StoreOK
  <2>3. BrowserOK
    BY DEF Init, BrowserOK
  <2>4. QED BY <2>1, <2>2, <2>3
<1>6. /\ web \in [Handlers -> Request \union {NoRequest}]
      /\ \A h \in Handlers : web[h].at = "idle"
      /\ \A b \in Browsers : jar[b] = NoToken
  BY NoTokenIsNone DEF Init
<1>7. QED BY <1>2, <1>3, <1>4, <1>5, <1>6 DEF SInv, At, OnTheRow, WithToken

LEMMA Inductive ==
    ASSUME SInv, NEW A \in SUBSET {"admin"}, Settled(A), [Next]_vars
    PROVE  SInv' /\ Settled(A)'
<1>1. AInv' /\ Settled(A)'
  BY AccountSide DEF SInv
<1>2. ASSUME NEW h \in Handlers, NEW b \in Browsers, NEW tab \in Tabs,
             \/ StartRefresh(h, b, tab) \/ StartLogin(h, b, tab)
             \/ StartLogout(h, b, tab) \/ StartLogoutAll(h, b, tab)
             \/ StartDelete(h, b, tab)
      PROVE  SInv'
  BY <1>1, <1>2, StartStep, StartOnTheRowStep
<1>3. ASSUME NEW h \in Handlers,
             \/ AccountStep(h) \/ Abandon(h) \/ Arrive(h) \/ Die(h)
             \/ Issue(h) \/ EndSessions(h) \/ Refuse(h)
             \/ Get(h) \/ FindUser(h) \/ Revoked(h)
      PROVE  SInv'
  BY <1>1, <1>3, OnTheRowStep, AbandonStep, ArriveStep, DieStep,
     AccountDoneStep, ReadStep
<1>4. ASSUME NEW h \in Handlers,
             \/ (\E s \in Sids : IssueSession(h, s)) \/ SetSession(h)
             \/ Kill(h) \/ RevokeFromToken(h) \/ RevokePage(h)
      PROVE  SInv'
  BY <1>1, <1>4, PersistStep, EndOneStep, RevokePageStep
<1>5. QED BY <1>1, <1>2, <1>3, <1>4, OtherStep DEF Next

LEMMA Invariance == Spec => []SInv
<1>1. Init => SInv
  BY Initially
<1>2. SInv /\ [Next]_vars => SInv'
  <2> SUFFICES ASSUME SInv, [Next]_vars PROVE SInv'
    OBVIOUS
  <2>1. PICK A \in SUBSET {"admin"} : Settled(A)
    BY DEF SInv, AInv
  <2>2. QED BY <2>1, Inductive
<1>3. QED BY <1>1, <1>2, PTL DEF Spec

(* Every variable keeps its type.                                          *)
THEOREM SessionTypeCorrect == Spec => []TypeOK
<1>1. SInv => TypeOK
  BY TypeParts DEF SInv, AInv
<1>2. QED BY <1>1, Invariance, PTL

(* Once a deletion is over, a deleted user has no session but those that a *)
(* rotation or a sign-in wrote after it (revived), however the requests    *)
(* overlap, unless the process of a deletion died before the sessions were *)
(* ended (halfway).                                                        *)
THEOREM DeletionEndsSessions == Spec => []DeletedLeavesNoSession
<1>1. SInv => DeletedLeavesNoSession
  <2> SUFFICES ASSUME SInv, ~ Exists, ~ halfway,
                      \A h \in Handlers : ~ Deleting(h)
               PROVE  Live \subseteq revived
    BY DEF DeletedLeavesNoSession
  <2>1. \A h \in Handlers : \A s : WillEnd(h, s) => Deleting(h)
    BY DEF WillEnd, Deleting, In
  <2>2. QED BY <2>1 DEF SInv
<1>2. QED BY <1>1, Invariance, PTL

(* No overlap of sign-ins, role changes, deletions and purges takes the    *)
(* admin role from an account: every copy in flight holds it, too.         *)
THEOREM AdminIsKept == Spec => AdminStaysAdmin
<1>1. SInv /\ [Next]_vars => [AdminStays]_user
  <2> SUFFICES ASSUME SInv, [Next]_vars PROVE AdminStays
    OBVIOUS
  <2>1. PICK A \in SUBSET {"admin"} : Settled(A)
    BY DEF SInv, AInv
  <2>2. Settled(A)'
    BY <2>1, Inductive
  <2>3. QED BY <2>1, <2>2 DEF Settled, AdminRole, AdminStays
<1>2. QED BY <1>1, Invariance, PTL DEF Spec, AdminStaysAdmin

-----------------------------------------------------------------------------
(* The roles, as long as no call has written over another's work: a call   *)
(* that nobody has overtaken holds a copy of the row as it is now.         *)

Single(u) == ~ (BothRoles \subseteq u.roles)

\* The copy is what the call makes of the present row.
Made(c) ==
    /\ HasRow /\ ~ c.copy.deleted
    /\ \/ c.op = "login"   /\ c.copy.roles = user.roles
       \/ c.op = "seeker"  /\ c.copy.roles = user.roles \union {"seeker"}
                           /\ ~ user.deleted /\ "provider" \notin user.roles
       \/ c.op = "promote" /\ c.copy.roles = AsProvider(user.roles)
                           /\ ~ user.deleted

Differing(c) == {x \in Columns : c.copy[x] # user[x]}

Known(c) ==
    /\ c.at = "insert" => c.op = "login"
    /\ c.at \in Active /\ c.op = "login" => Single(c.copy)
    /\ c.fresh /\ c.at = "again" => Exists /\ "provider" \notin user.roles
    /\ c.fresh /\ c.at = "compare" => Made(c)
    /\ c.fresh /\ c.at = "write" /\ c.cols # {} =>
         Made(c) /\ c.cols = Differing(c)

RolesInv == ~ overtaken => OneRole /\ \A h \in Handlers : Known(calls[h])

\* A call goes on and the row stays.
LEMMA KnownMoves ==
    ASSUME AInv, RolesInv, NEW h \in Handlers, NEW c, Set(h, c),
           UNCHANGED user, overtaken => overtaken',
           ~ overtaken => Known(c)
    PROVE  RolesInv'
<1> SUFFICES ASSUME ~ overtaken'
             PROVE  OneRole' /\ \A g \in Handlers : Known(calls[g])'
  BY DEF RolesInv
<1>1. OneRole /\ Known(c) /\ \A g \in Handlers : Known(calls[g])
  BY DEF RolesInv
<1>2. \A g \in Handlers : calls'[g] = IF g = h THEN c ELSE calls[g]
  BY DEF AInv, AccountTypeOK, Set
<1>3. \A g \in Handlers : Known(calls'[g])
  BY <1>1, <1>2
<1>4. QED BY <1>1, <1>3 DEF Known, Made, Differing, OneRole, HasRow, Exists

\* A call writes the row, and the others are no longer fresh.
LEMMA KnownOvertaken ==
    ASSUME AInv, RolesInv, NEW h \in Handlers, NEW c, Overtake(h, c),
           overtaken => overtaken', c.at = "saved",
           ~ overtaken' => OneRole'
    PROVE  RolesInv'
<1> SUFFICES ASSUME ~ overtaken'
             PROVE  \A g \in Handlers : Known(calls[g])'
  BY DEF RolesInv
<1>1. \A g \in Handlers : Known(calls[g]) /\ calls[g] \in Call
  BY DEF RolesInv, AInv, AccountTypeOK
<1>2. Known(calls[h])'
  BY DEF Overtake, Known, Active
<1>3. ASSUME NEW g \in Handlers \ {h}  PROVE Known(calls[g])'
  <2>1. calls'[g] = [calls[g] EXCEPT !.fresh = At(g, "idle")]
    BY <1>3 DEF Overtake
  <2>2. /\ calls'[g].at = calls[g].at /\ calls'[g].op = calls[g].op
        /\ calls'[g].copy = calls[g].copy
        /\ calls'[g].fresh => calls[g].at = "idle"
    BY <1>1, <2>1 DEF Call, At
  <2>3. QED BY <1>1, <2>2 DEF Known, Active, Single
<1>4. QED BY <1>2, <1>3

LEMMA KnownRequest ==
    ASSUME AInv, RolesInv, NEW h \in Handlers,
           Login(h) \/ AssignSeeker(h) \/ Promote(h) \/ Delete(h)
    PROVE  RolesInv'
<1>1. UNCHANGED <<user, overtaken>> /\ (HasRow => user \in User)
      /\ (~ overtaken => OneRole)
  BY HereAccount DEF Login, AssignSeeker, Promote, Delete, RolesInv
<1>2. ASSUME NEW p \in {"again", "delete", "insert"},
             NEW op \in {"login", "seeker", "delete"}, p = "insert" => op = "login",
             p = "again" => Exists /\ "provider" \notin user.roles
      PROVE  Known([Idle EXCEPT !.op = op, !.at = p])
  BY <1>2 DEF Known, Active, Idle, NewUser, Single, BothRoles
<1>3. CASE user = NoUser /\ Set(h, [Idle EXCEPT !.at = "insert"])
  <2>1. Known([Idle EXCEPT !.at = "insert"])
    BY DEF Known, Active, Idle, NewUser, Single, BothRoles
  <2>2. QED BY <1>1, <1>3, <2>1, KnownMoves
<1>4. CASE HasRow /\ Set(h, Copied("login", [user EXCEPT !.deleted = FALSE]))
  <2>1. /\ [user EXCEPT !.deleted = FALSE].roles = user.roles
        /\ ~ [user EXCEPT !.deleted = FALSE].deleted
    BY <1>1, <1>4 DEF User
  <2>2. ~ overtaken => Known(Copied("login", [user EXCEPT !.deleted = FALSE]))
    BY <1>1, <1>4, <2>1 DEF Known, Copied, Idle, Made, Single, OneRole
  <2>3. QED BY <1>1, <1>4, <2>2, KnownMoves
<1>5. CASE AssignSeeker(h)
  BY <1>1, <1>2, <1>5, KnownMoves DEF AssignSeeker, MayBeSeeker
<1>6. CASE Promote(h)
  <2> DEFINE u == [user EXCEPT !.roles = AsProvider(@)]
  <2>1. HasRow /\ ~ user.deleted /\ ~ u.deleted /\ u.roles = AsProvider(user.roles)
    BY <1>1, <1>6 DEF Promote, Exists, User
  <2>2. Known(Copied("promote", u))
    <3> HIDE DEF u
    <3>1. QED BY <2>1 DEF Known, Copied, Idle, Made
  <2>3. QED BY <1>1, <1>6, <2>2, KnownMoves DEF Promote
<1>7. CASE Delete(h)
  BY <1>1, <1>2, <1>7, KnownMoves DEF Delete
<1>8. QED BY <1>3, <1>4, <1>5, <1>6, <1>7 DEF Login

LEMMA KnownAddRole ==
    ASSUME AInv, RolesInv, NEW h \in Handlers, AddRole(h)
    PROVE  RolesInv'
<1>1. /\ calls[h] \in Call /\ calls[h].at = "again" /\ UNCHANGED <<user, overtaken>>
      /\ (HasRow => user \in User) /\ (~ overtaken => Known(calls[h]))
  BY HereAccount DEF AddRole, At, RolesInv
<1>2. CASE Exists /\ Set(h, [Copied("seeker", AsSeeker) EXCEPT
                                 !.fresh = calls[h].fresh])
  <2>1. /\ HasRow /\ ~ user.deleted /\ ~ AsSeeker.deleted
        /\ AsSeeker.roles = user.roles \union {"seeker"}
    BY <1>1, <1>2 DEF Exists, AsSeeker, User
  <2>2. PICK c : c = [Copied("seeker", AsSeeker) EXCEPT !.fresh = calls[h].fresh]
    OBVIOUS
  <2>3. /\ c.at = "compare" /\ c.op = "seeker" /\ c.copy = AsSeeker
        /\ c.fresh = calls[h].fresh
    BY <2>2 DEF Copied, Idle
  <2>4. ~ overtaken => Known(c)
    BY <1>1, <2>1, <2>3 DEF Known, Made
  <2>5. QED BY <1>1, <1>2, <2>2, <2>4, KnownMoves
<1>3. CASE Goto(h, "saved")
  <2>1. Known([calls[h] EXCEPT !.at = "saved"])
    BY <1>1 DEF Call, Known, Active
  <2>2. QED BY <1>1, <1>3, <2>1, KnownMoves DEF Goto
<1>4. QED BY <1>2, <1>3 DEF AddRole

LEMMA KnownCompare ==
    ASSUME AInv, RolesInv, NEW h \in Handlers, Compare(h)
    PROVE  RolesInv'
<1>1. /\ calls[h] \in Call /\ calls[h].at = "compare" /\ UNCHANGED <<user, overtaken>>
      /\ (~ overtaken => Known(calls[h]))
  BY HereAccount DEF Compare, At, RolesInv
<1>2. PICK c : c = [calls[h] EXCEPT !.at = "write", !.cols = Differing(calls[h])]
  OBVIOUS
<1>3. /\ c.at = "write" /\ c.op = calls[h].op /\ c.copy = calls[h].copy
      /\ c.fresh = calls[h].fresh /\ c.cols = Differing(calls[h])
  BY <1>1, <1>2 DEF Call
<1>4. ~ overtaken => Known(c)
  BY <1>1, <1>3 DEF Known, Made, Active, Differing
<1>5. Set(h, c)
  BY <1>2 DEF Compare, Differing
<1>6. QED BY <1>1, <1>4, <1>5, KnownMoves

\* A fresh call writes its whole copy.
LEMMA WritesCopy ==
    ASSUME AInv, NEW h \in Handlers, Write(h), calls[h].cols # {},
           Made(calls[h]), calls[h].cols = Differing(calls[h])
    PROVE  /\ user' \in User /\ HasRow'
           /\ user'.roles = calls[h].copy.roles /\ ~ user'.deleted
<1>1. /\ calls[h].copy \in User /\ user \in User /\ ~ calls[h].copy.deleted
      /\ user' = [x \in Columns |-> IF x \in Differing(calls[h])
                                    THEN calls[h].copy[x] ELSE user[x]]
  BY HereAccount DEF Write, Written, Made, Call
<1>2. \A x \in Columns : user'[x] = calls[h].copy[x]
  BY <1>1 DEF Differing
<1>3. user'.roles = calls[h].copy.roles /\ user'.deleted = calls[h].copy.deleted
  BY <1>2 DEF Columns
<1>4. user' \in User
  BY <1>1, <1>3 DEF Columns, User
<1>5. QED BY <1>1, <1>3, <1>4, RowsDiffer DEF HasRow

LEMMA KnownWrite ==
    ASSUME AInv, RolesInv, NEW h \in Handlers, Write(h)
    PROVE  RolesInv'
<1> SUFFICES ASSUME ~ overtaken'
             PROVE  RolesInv'
  BY DEF RolesInv
<1>1. /\ calls[h] \in Call /\ calls[h].at = "write" /\ ~ overtaken
      /\ calls[h].fresh /\ Known(calls[h]) /\ OneRole
  BY HereAccount DEF Write, At, RolesInv, AInv, AccountTypeOK, Call
<1>2. PICK c : c = [calls[h] EXCEPT !.at = "saved"]
  OBVIOUS
<1>3. c.at = "saved" /\ Known(c)
  BY <1>1, <1>2 DEF Call, Known, Active
<1>4. CASE Set(h, c) /\ UNCHANGED user
  BY <1>1, <1>3, <1>4, KnownMoves
<1>5. CASE calls[h].cols # {} /\ Overtake(h, c)
  <2>1. Made(calls[h]) /\ calls[h].cols = Differing(calls[h])
    BY <1>1, <1>5 DEF Known
  <2>2. user'.roles = calls[h].copy.roles
    BY <1>5, <2>1, WritesCopy
  <2>3. OneRole'
    BY <1>1, <2>1, <2>2 DEF OneRole, Made, BothRoles, AsProvider
  <2>4. QED BY <1>1, <1>3, <1>5, <2>3, KnownOvertaken
<1>6. QED BY <1>2, <1>4, <1>5 DEF Write, Goto

LEMMA KnownSoftDelete ==
    ASSUME AInv, RolesInv, NEW h \in Handlers, SoftDelete(h)
    PROVE  RolesInv'
<1>1. /\ calls[h] \in Call /\ HasRow /\ user \in User
  BY HereAccount DEF SoftDelete, At, Calm
<1>2. ~ overtaken => OneRole'
  BY <1>1, RowsDiffer DEF SoftDelete, RolesInv, OneRole, User
<1>3. PICK c \in Call : c = [calls[h] EXCEPT !.at = "saved"]
  BY <1>1 DEF Call
<1>4. c.at = "saved" /\ Overtake(h, c) /\ overtaken' = overtaken
  BY <1>3 DEF SoftDelete, Call
<1>5. QED BY <1>2, <1>3, <1>4, KnownOvertaken

LEMMA KnownInsert ==
    ASSUME AInv, RolesInv, NEW h \in Handlers, Insert(h)
    PROVE  RolesInv'
<1>1. /\ calls[h] \in Call /\ calls[h].at = "insert" /\ overtaken' = overtaken
      /\ (~ overtaken => OneRole /\ \A g \in Handlers : Known(calls[g]))
  BY HereAccount DEF Insert, At, RolesInv
<1>2. CASE Return(h) /\ UNCHANGED user
  <2>1. Known(Idle)
    BY DEF Known, Idle, Active
  <2>2. QED BY <1>1, <1>2, <2>1, KnownMoves DEF Return
<1>3. CASE ~ HasRow /\ Goto(h, "saved") /\ user' = calls[h].copy
  <2>1. \A g \in Handlers : Calm(calls[g])
    BY <1>3 DEF AInv
  <2>2. /\ calls'[h].at = "saved"
        /\ \A g \in Handlers \ {h} : calls'[g] = calls[g]
    BY <1>1, <1>3, HereAccount DEF Goto, Set, Call
  <2>3. ~ overtaken => \A g \in Handlers : Known(calls[g])'
    BY <1>1, <2>1, <2>2 DEF Known, Calm, Active, Single
  <2>4. ~ overtaken => OneRole'
    BY <1>1, <1>3 DEF Known, Active, Single, OneRole
  <2>5. QED BY <1>1, <2>3, <2>4 DEF RolesInv
<1>4. QED BY <1>2, <1>3 DEF Insert

LEMMA KnownPurge ==
    ASSUME AInv, RolesInv, Purge
    PROVE  RolesInv'
<1>1. /\ \A h \in Handlers :
           calls'[h] = Bereft(calls[h]) /\ calls[h] \in Call
      /\ user' = Purged /\ overtaken' = overtaken
  BY DEF Purge, AInv, AccountTypeOK
<1>2. ASSUME NEW h \in Handlers, Known(calls[h])
      PROVE  Known(calls[h])'
  <2>1. CASE calls[h].at = "idle"
    BY <1>1, <2>1 DEF Bereft, Known, Active
  <2>2. CASE calls[h].at = "compare"
    <3>1. /\ calls'[h].at = "insert" /\ calls'[h].op = "login"
          /\ calls'[h].copy = calls[h].copy /\ calls[h].op = "login"
      BY <1>1, <2>2 DEF Bereft, Call, Purge
    <3>2. QED BY <1>2, <2>2, <3>1 DEF Known, Active, Single
  <2>3. CASE calls[h].at = "write"
    <3>1. /\ calls'[h].at = "write" /\ calls'[h].op = calls[h].op
          /\ calls'[h].copy = calls[h].copy /\ calls'[h].cols = {}
      BY <1>1, <2>3 DEF Bereft, Call
    <3>2. QED BY <1>2, <2>3, <3>1 DEF Known, Active, Single
  <2>4. QED BY <2>1, <2>2, <2>3 DEF Purge
<1>3. QED BY <1>1, <1>2 DEF RolesInv, OneRole, HasRow

LEMMA KnownStep ==
    ASSUME SInv, RolesInv, [Next]_vars
    PROVE  RolesInv'
<1>1. AInv
  BY DEF SInv
<1>2. CASE UNCHANGED account
  BY <1>2 DEF account, RolesInv, Known, Made, Differing, OneRole, HasRow, Exists
<1>3. ASSUME NEW h \in Handlers, Return(h), UNCHANGED <<user, overtaken>>
      PROVE  RolesInv'
  <2>1. Known(Idle)
    BY DEF Known, Idle, Active
  <2>2. QED BY <1>1, <1>3, <2>1, KnownMoves DEF Return
<1>4. ASSUME NEW h \in Handlers, NEW b \in Browsers, NEW tab \in Tabs,
             \/ StartRefresh(h, b, tab) \/ StartLogin(h, b, tab)
             \/ StartLogout(h, b, tab) \/ StartLogoutAll(h, b, tab)
             \/ StartDelete(h, b, tab)
      PROVE  RolesInv'
  BY <1>1, <1>2, <1>4, KnownRequest
  DEF StartRefresh, StartLogin, StartLogout, StartLogoutAll, StartDelete, Ask
<1>5. ASSUME NEW h \in Handlers, AccountStep(h)
      PROVE  RolesInv'
  BY <1>1, <1>3, <1>5, KnownRequest, KnownAddRole, KnownSoftDelete,
     KnownCompare, KnownWrite, KnownInsert DEF AccountStep, Answer
<1>6. ASSUME NEW h \in Handlers,
             \/ Abandon(h) \/ Arrive(h) \/ Die(h)
             \/ Issue(h) \/ \E s \in Sids : IssueSession(h, s)
             \/ EndSessions(h) \/ Refuse(h)
             \/ Get(h) \/ FindUser(h) \/ SetSession(h) \/ Kill(h)
             \/ RevokeFromToken(h) \/ RevokePage(h) \/ Revoked(h)
      PROVE  RolesInv'
  BY <1>2, <1>3, <1>6
  DEF Abandon, Arrive, Die, Issue, Answer, IssueSession, EndSessions, Refuse, Get,
      FindUser, SetSession, Kill, RevokeFromToken, RevokePage, Revoked
<1>7. CASE Tick \/ \E s \in Sids : Expire(s)
  BY <1>2, <1>7 DEF Tick, Expire
<1>8. CASE Purge
  BY <1>1, <1>8, KnownPurge
<1>9. CASE UNCHANGED vars
  BY <1>2, <1>9 DEF vars
<1>10. QED BY <1>4, <1>5, <1>6, <1>7, <1>8, <1>9 DEF Next

\* A step that changes the row is a write of one of four kinds.
LEMMA RowChanges ==
    ASSUME [Next]_vars, user' # user
    PROVE  \/ Purge
           \/ \E h \in Handlers : SoftDelete(h) \/ Write(h) \/ Insert(h)
<1> SUFFICES ASSUME Next, ~ Purge
             PROVE  \E h \in Handlers : SoftDelete(h) \/ Write(h) \/ Insert(h)
  BY DEF vars, account
<1>1. PICK h \in Handlers :
        \/ (\E b \in Browsers, tab \in Tabs :
              \/ StartRefresh(h, b, tab) \/ StartLogin(h, b, tab)
              \/ StartLogout(h, b, tab) \/ StartLogoutAll(h, b, tab)
              \/ StartDelete(h, b, tab))
        \/ AccountStep(h)
        \/ Abandon(h) \/ Arrive(h) \/ Die(h)
        \/ Issue(h) \/ (\E s \in Sids : IssueSession(h, s))
        \/ EndSessions(h) \/ Refuse(h)
        \/ Get(h) \/ FindUser(h) \/ SetSession(h) \/ Kill(h)
        \/ RevokeFromToken(h) \/ RevokePage(h) \/ Revoked(h)
  BY DEF Next, Tick, Expire, account
<1>2. CASE AccountStep(h)
  BY <1>2 DEF AccountStep, AssignSeeker, Promote, Answer, AddRole, Compare
<1>3. CASE ~ AccountStep(h)
  BY <1>1, <1>3
  DEF StartRefresh, StartLogin, StartLogout, StartLogoutAll, StartDelete, Ask,
      Login, Delete, Abandon, Arrive, Die, Issue, Answer, IssueSession,
      EndSessions, Refuse, Get, FindUser, SetSession, Kill, RevokeFromToken,
      RevokePage, Revoked, account
<1>4. QED BY <1>2, <1>3

LEMMA RolesKept ==
    ASSUME SInv, RolesInv, [Next]_vars, user' # user, ~ overtaken'
    PROVE  RoleKept
<1> SUFFICES ASSUME HasRow, HasRow'
             PROVE  RoleKept
  BY DEF RoleKept
<1>1. AInv /\ user \in User
  BY HereAccount DEF SInv, AInv, AccountTypeOK, HasRow
<1>2. ASSUME NEW h \in Handlers, SoftDelete(h)  PROVE RoleKept
  BY <1>1, <1>2 DEF SoftDelete, User, RoleKept
<1>3. ASSUME NEW h \in Handlers, Insert(h)  PROVE RoleKept
  BY <1>3 DEF Insert
<1>4. ASSUME NEW h \in Handlers, Write(h)  PROVE RoleKept
  <2>1. /\ calls[h].at = "write" /\ calls[h].fresh /\ Known(calls[h])
        /\ calls[h].cols # {}
    BY <1>1, <1>4, HereAccount DEF Write, At, RolesInv, AInv, AccountTypeOK, Call
  <2>2. Made(calls[h]) /\ user'.roles = calls[h].copy.roles
    BY <1>1, <1>4, <2>1, WritesCopy DEF Known
  <2>3. "provider" \in user.roles => "provider" \in user'.roles
    BY <2>2 DEF Made, AsProvider
  <2>4. user.deleted => calls[h].op = "login"
    BY <2>2 DEF Made
  <2>5. QED BY <2>1, <2>3, <2>4 DEF RoleKept, At
<1>5. CASE Purge
  BY <1>5, RowsDiffer DEF Purge, HasRow
<1>6. QED BY <1>2, <1>3, <1>4, <1>5, RowChanges

LEMMA RolesInvariance == Spec => []RolesInv
<1>1. Init => RolesInv
  <2> SUFFICES ASSUME Init PROVE RolesInv
    OBVIOUS
  <2>1. calls = [h \in Handlers |-> Idle] /\ OneRole
    BY DEF Init, AccountInit, OneRole, HasRow
  <2>2. Known(Idle)
    BY DEF Known, Idle, Active
  <2>3. QED BY <2>1, <2>2 DEF RolesInv
<1>2. SInv /\ RolesInv /\ [Next]_vars => RolesInv'
  BY KnownStep
<1>3. QED BY <1>1, <1>2, Invariance, PTL DEF Spec

(* While no call writes over another's work, nobody is both seeker and     *)
(* provider, a provider stays one, and only a sign-in brings a deleted     *)
(* account back, whatever else is in flight.                               *)
THEOREM RolesAreKept == Spec => RolesUnlessOvertaken
<1>1. SInv /\ RolesInv /\ RolesInv' /\ [Next]_vars =>
        [~ overtaken' => OneRole' /\ RoleKept]_user
  BY RolesKept DEF RolesInv
<1>2. QED BY <1>1, Invariance, RolesInvariance, PTL DEF Spec, RolesUnlessOvertaken

-----------------------------------------------------------------------------
(* False alarms.  A browser that is quiet, one that hears every answer and *)
(* refreshes from one tab at a time, has at most one refresh on its way,   *)
(* and every token that it, its refresh or its sign-in holds is the one in *)
(* the store.                                                              *)

\* The request holds a token that it presents or has been given.
Place == {"get", "find", "set", "signed in"}
Refreshing(r) == r.at # "idle" /\ r.kind = "refresh"
NewOne(r) == r.at = "signed in" /\ r.kind = "login"
Renewed(r, b, s) == /\ r.at = "signed in" /\ r.kind = "refresh"
                    /\ r.from = b /\ r.token.sid = s
Loud == lossy \union rivals
Quiet(b) == b \notin Loud
Fresh(t) == store[t.sid] \in {None, t.t}

Kind(r) ==
    /\ r.at \in {"get", "find", "set", "kill"} => r.kind = "refresh"
    /\ r.at = "signed in" => r.kind \in {"login", "refresh"}
    /\ r.at = "store" => r.kind = "login"

\* A session is that of one browser, ...
Owned ==
    /\ \A g, h \in Handlers :
         /\ web[g].at \in Place /\ web[h].at \in Place
         /\ web[g].token.sid = web[h].token.sid
         => web[g].from = web[h].from
    /\ \A h \in Handlers : \A b \in Browsers :
         /\ web[h].at \in Place /\ jar[b] # NoToken
         /\ jar[b].sid = web[h].token.sid
         => web[h].from = b
    /\ \A a, b \in Browsers :
         jar[a] # NoToken /\ jar[b] # NoToken /\ jar[a].sid = jar[b].sid => a = b

\* ... and one that was just begun is nobody else's at all.
Unshared ==
    \A h \in Handlers : NewOne(web[h]) =>
        /\ \A b \in Browsers :
             jar[b] # NoToken => jar[b].sid # web[h].token.sid
        /\ \A g \in Handlers \ {h} :
             web[g].at \in Place => web[g].token.sid # web[h].token.sid

OneRefresh ==
    /\ \A h \in Handlers :
         Refreshing(web[h]) /\ Quiet(web[h].from) => web[h].tab # NoTab
    /\ \A g, h \in Handlers :
         /\ Refreshing(web[g]) /\ Refreshing(web[h])
         /\ web[g].from = web[h].from /\ Quiet(web[g].from)
         => g = h

HeldFresh ==
    \A h \in Handlers :
        web[h].at \in Place /\ Quiet(web[h].from) => Fresh(web[h].token)

\* What the jar holds is fresh, unless a new one is on its way.
JarsFresh ==
    \A b \in Browsers : Quiet(b) /\ jar[b] # NoToken =>
        \/ Fresh(jar[b])
        \/ \E h \in Handlers : Renewed(web[h], b, jar[b].sid)

FInv ==
    /\ \A h \in Handlers : Kind(web[h])
    /\ Owned /\ Unshared /\ OneRefresh /\ HeldFresh /\ JarsFresh
    /\ FalseAlarmNeedsLoss

LEMMA FHolds ==
    ASSUME FInv
    PROVE  /\ \A h \in Handlers : Kind(web[h])
           /\ Owned /\ Unshared /\ OneRefresh /\ HeldFresh /\ JarsFresh
           /\ FalseAlarmNeedsLoss
  BY DEF FInv

\* What may become of request r in a step that gives out no token and after
\* which L are the browsers that are not quiet.
Goes(r, q, L) ==
    /\ Kind(q)
    /\ q.at \in Place => /\ r.at \in Place /\ q.token = r.token
                         /\ q.from = r.from
    /\ NewOne(q) => NewOne(r)
    /\ Refreshing(q) => /\ Refreshing(r) /\ q.from = r.from
                        /\ q.from \in L \/ q.tab # NoTab
    /\ r.at = "signed in" /\ r.kind = "refresh" =>
         \/ /\ q.at = "signed in" /\ q.kind = "refresh"
            /\ q.from = r.from /\ q.token = r.token
         \/ r.from \in L

LEMMA FKept ==
    ASSUME SInv, FInv, \A g \in Handlers : Goes(web[g], web'[g], Loud'),
           \A b \in Browsers : jar'[b] \in {jar[b], NoToken},
           \A s \in Sids : store'[s] \in {store[s], None},
           lossy \subseteq lossy', rivals \subseteq rivals',
           alarms' \subseteq lossy' \union rivals'
    PROVE  FInv'
<1>1. \A b : Quiet(b)' => Quiet(b)
  BY DEF Quiet, Loud
<1>2. \A t : t.sid \in Sids /\ Fresh(t) => Fresh(t)'
  BY DEF Fresh
<1>3. /\ \A g \in Handlers : web[g].at \in Place => web[g].token.sid \in Sids
      /\ \A b \in Browsers : jar[b] # NoToken => jar[b].sid \in Sids
  BY DEF SInv, Given, WithToken, Place, StoreOK
<1>4. Owned'
  <2>1. \A g \in Handlers : web'[g].at \in Place =>
          /\ web[g].at \in Place /\ web'[g].token = web[g].token
          /\ web'[g].from = web[g].from
    BY DEF Goes
  <2>2. \A b \in Browsers : jar'[b] # NoToken => jar[b] = jar'[b]
    OBVIOUS
  <2>3. QED BY <2>1, <2>2, FHolds DEF Owned
<1>5. Unshared'
  <2>1. \A g \in Handlers :
          /\ web'[g].at \in Place => /\ web[g].at \in Place
                                    /\ web'[g].token = web[g].token
          /\ NewOne(web'[g]) => NewOne(web[g])
    BY DEF Goes
  <2>2. \A g \in Handlers : NewOne(web'[g]) => web'[g].at \in Place
    BY DEF NewOne, Place
  <2>3. \A b \in Browsers : jar'[b] # NoToken => jar[b] = jar'[b]
    OBVIOUS
  <2>4. ASSUME NEW h \in Handlers, NewOne(web'[h])
        PROVE  /\ web'[h].token = web[h].token
               /\ \A b \in Browsers :
                    jar[b] # NoToken => jar[b].sid # web[h].token.sid
               /\ \A g \in Handlers \ {h} :
                    web[g].at \in Place => web[g].token.sid # web[h].token.sid
    BY <2>1, <2>2, <2>4, FHolds DEF Unshared
  <2>5. ASSUME NEW h \in Handlers, NewOne(web'[h])
        PROVE  /\ \A b \in Browsers :
                    jar'[b] # NoToken => jar'[b].sid # web'[h].token.sid
               /\ \A g \in Handlers \ {h} :
                    web'[g].at \in Place => web'[g].token.sid # web'[h].token.sid
    BY <2>1, <2>3, <2>4, <2>5
  <2>6. QED BY <2>5 DEF Unshared, NewOne
<1>6. OneRefresh'
  <2>1. \A g \in Handlers : Refreshing(web'[g]) =>
          /\ Refreshing(web[g]) /\ web'[g].from = web[g].from
          /\ web'[g].from \in Loud' \/ web'[g].tab # NoTab
    BY DEF Goes
  <2>2. \A g, h \in Handlers :
          /\ Refreshing(web[g]) /\ Refreshing(web[h])
          /\ web[g].from = web[h].from /\ Quiet(web[g].from)
          => g = h
    BY FHolds DEF OneRefresh
  <2>3. \A b : b \notin Loud' => Quiet(b)
    BY <1>1 DEF Quiet
  <2>4. QED BY <2>1, <2>2, <2>3 DEF OneRefresh, Refreshing, Quiet
<1>7. HeldFresh'
  BY <1>1, <1>2, <1>3, FHolds DEF HeldFresh, Goes
<1>8. JarsFresh'
  <2> SUFFICES ASSUME NEW b \in Browsers, Quiet(b)', jar'[b] # NoToken,
                      ~ Fresh(jar[b])'
               PROVE  \E h \in Handlers : Renewed(web[h], b, jar[b].sid)'
    BY DEF JarsFresh
  <2>1. jar'[b] = jar[b] /\ Quiet(b) /\ ~ Fresh(jar[b])
    BY <1>1, <1>2, <1>3
  <2>2. PICK h \in Handlers : Renewed(web[h], b, jar[b].sid)
    BY <2>1, FHolds DEF JarsFresh
  <2>3. Renewed(web[h], b, jar[b].sid)'
    <3>1. ~ (web[h].from \in Loud')
      BY <2>2 DEF Renewed, Quiet
    <3>2. /\ web'[h].at = "signed in" /\ web'[h].kind = "refresh"
          /\ web'[h].from = web[h].from /\ web'[h].token = web[h].token
      BY <2>2, <3>1 DEF Goes, Renewed
    <3>3. QED BY <2>1, <2>2, <3>2 DEF Renewed
  <2>4. QED BY <2>3
<1>9. \A g \in Handlers : Kind(web[g])'
  BY DEF Goes, Kind
<1>10. QED BY <1>4, <1>5, <1>6, <1>7, <1>8, <1>9
            DEF FInv, FalseAlarmNeedsLoss, Loud

\* One request goes on.
LEMMA FGoesOn ==
    ASSUME SInv, FInv, NEW h \in Handlers, NEW r, Put(h, r), Goes(web[h], r, Loud'),
           \A b \in Browsers : jar'[b] \in {jar[b], NoToken},
           \A s \in Sids : store'[s] \in {store[s], None},
           lossy \subseteq lossy', rivals \subseteq rivals',
           alarms' \subseteq lossy' \union rivals'
    PROVE  FInv'
<1>1. web' = [web EXCEPT ![h] = r] /\ DOMAIN web = Handlers
  BY DEF Put, SInv
<1>2. ASSUME NEW g \in Handlers \ {h}  PROVE Goes(web[g], web'[g], Loud')
  <2>1. /\ web'[g] = web[g] /\ Kind(web[g])
        /\ Refreshing(web[g]) /\ Quiet(web[g].from) => web[g].tab # NoTab
    BY <1>1, FHolds DEF OneRefresh
  <2>2. Quiet(web[g].from)' => Quiet(web[g].from)
    BY <2>1 DEF Quiet, Loud
  <2>3. Refreshing(web[g]) => web[g].from \in Loud' \/ web[g].tab # NoTab
    BY <2>1, <2>2 DEF Quiet
  <2>4. QED BY <2>1, <2>3 DEF Goes
<1>3. web'[h] = r
  BY <1>1
<1>4. QED BY <1>2, <1>3, FKept

LEMMA DropOnlyTakes ==
    ASSUME StoreOK, NEW S, Drop(S)
    PROVE  \A s \in Sids : store'[s] \in {store[s], None}
BY DEF Drop, StoreOK

LEMMA FGoesTo ==
    ASSUME SInv, FInv, NEW h \in Handlers, web[h].at \notin {"idle", "signed in"},
           NEW p \in {"refused", "find", "set", "kill", "store", "signed out"},
           p \in {"find", "set"} => web[h].at \in {"get", "find"},
           p = "kill" => web[h].kind = "refresh",
           p = "store" => web[h].kind = "login",
           Loud \subseteq Loud'
    PROVE  Goes(web[h], [web[h] EXCEPT !.at = p], Loud')
<1>1. web[h] \in Request /\ Kind(web[h])
  BY Here, FHolds
<1>2. PICK q : q = [web[h] EXCEPT !.at = p]
  OBVIOUS
<1>3. /\ q.at = p /\ q.kind = web[h].kind /\ q.from = web[h].from
      /\ q.tab = web[h].tab /\ q.token = web[h].token
  BY <1>1, <1>2 DEF Request
<1>4. Refreshing(web[h]) => web[h].from \in Loud' \/ web[h].tab # NoTab
  BY FHolds DEF OneRefresh, Quiet
<1>5. Kind(q)
  BY <1>1, <1>3 DEF Kind
<1>6. Refreshing(q) => Refreshing(web[h])
  BY <1>3 DEF Refreshing
<1>7. Goes(web[h], q, Loud')
  BY <1>3, <1>4, <1>5, <1>6 DEF Goes, Place, NewOne
<1>8. QED BY <1>2, <1>7

LEMMA FTo ==
    ASSUME SInv, FInv, NEW h \in Handlers, web[h].at \notin {"idle", "signed in"},
           NEW p \in {"refused", "find", "set", "kill", "store", "signed out"},
           p \in {"find", "set"} => web[h].at \in {"get", "find"},
           p = "kill" => web[h].kind = "refresh",
           p = "store" => web[h].kind = "login",
           To(h, p), UNCHANGED <<jar, lossy, rivals>>,
           \A s \in Sids : store'[s] \in {store[s], None},
           alarms' \subseteq lossy \union rivals
    PROVE  FInv'
BY FGoesTo, FGoesOn DEF To, Loud

\* A refresh that finds another token stored comes from a browser that is
\* not quiet.
LEMMA FGet ==
    ASSUME SInv, FInv, NEW h \in Handlers, Get(h)
    PROVE  FInv'
<1>1. /\ web[h].at = "get" /\ web[h].kind = "refresh" /\ web[h].at # "idle"
      /\ UNCHANGED <<jar, store, lossy, rivals>>
      /\ alarms \subseteq lossy \union rivals
  BY DEF Get, In, FInv, Kind, sessions, FalseAlarmNeedsLoss
<1>2. CASE alarms' = alarms /\ (To(h, "refused") \/ To(h, "find"))
  BY <1>1, <1>2, FTo
<1>3. CASE /\ store[web[h].token.sid] \notin {None, web[h].token.t}
           /\ To(h, "kill") /\ alarms' = alarms \union {web[h].from}
  <2>1. ~ Quiet(web[h].from)
    BY <1>1, <1>3, FHolds DEF HeldFresh, Fresh, Place
  <2>2. alarms' \subseteq lossy \union rivals
    BY <1>1, <1>3, <2>1 DEF Quiet, Loud
  <2>3. QED BY <1>1, <1>3, <2>2, FTo
<1>4. QED BY <1>2, <1>3 DEF Get

LEMMA FServerStep ==
    ASSUME SInv, FInv, NEW h \in Handlers,
           \/ Issue(h) \/ Refuse(h) \/ FindUser(h) \/ Kill(h)
           \/ RevokeFromToken(h) \/ Revoked(h)
    PROVE  FInv'
<1>1. /\ UNCHANGED <<jar, lossy, rivals, alarms>>
      /\ alarms \subseteq lossy \union rivals
      /\ web[h].at \notin {"idle", "signed in"}
  BY FHolds DEF FalseAlarmNeedsLoss, Issue, Refuse, FindUser, Kill,
                RevokeFromToken, Revoked, browsers, In
<1>2. \A s \in Sids : store'[s] \in {store[s], None}
  <2>1. CASE Kill(h) \/ RevokeFromToken(h)
    BY <2>1, Here, DropOnlyTakes DEF Kill, RevokeFromToken
  <2>2. QED BY <2>1 DEF Issue, Refuse, FindUser, Revoked, sessions
<1>3. CASE Issue(h)
  BY <1>1, <1>2, <1>3, FTo DEF Issue
<1>4. CASE FindUser(h)
  <2>1. web[h].at = "find" /\ web[h].kind = "refresh"
    BY <1>4, FHolds DEF Kind, FindUser, In
  <2>2. To(h, "set") \/ To(h, "kill")
    BY <1>4 DEF FindUser
  <2>3. QED BY <1>1, <1>2, <2>1, <2>2, FTo
<1>5. CASE Refuse(h) \/ Kill(h)
  BY <1>1, <1>2, <1>5, FTo DEF Refuse, Kill
<1>6. CASE RevokeFromToken(h) \/ Revoked(h)
  BY <1>1, <1>2, <1>6, FTo DEF RevokeFromToken, Revoked
<1>7. QED BY <1>3, <1>4, <1>5, <1>6

LEMMA FScanStep ==
    ASSUME SInv, FInv, NEW h \in Handlers, EndSessions(h) \/ RevokePage(h)
    PROVE  FInv'
<1>1. /\ UNCHANGED <<jar, lossy, rivals, alarms>>
      /\ alarms \subseteq lossy \union rivals
      /\ web[h].at \in {"user", "scan"} /\ web[h] \in Request
  BY Here, FHolds DEF FalseAlarmNeedsLoss, EndSessions, RevokePage, browsers, In
<1>2. \A s \in Sids : store'[s] \in {store[s], None}
  BY Here, DropOnlyTakes DEF EndSessions, RevokePage, sessions
<1>3. PICK todo, r : r = [web[h] EXCEPT !.at = "scan", !.todo = todo] /\ Put(h, r)
  <2>1. CASE EndSessions(h)
    BY <2>1 DEF EndSessions
  <2>2. CASE RevokePage(h)
    <3>1. PICK S : Put(h, [web[h] EXCEPT !.todo = (@ \intersect Live) \ S])
      BY <2>2 DEF RevokePage
    <3> DEFINE d == (web[h].todo \intersect Live) \ S
    <3>2. [web[h] EXCEPT !.todo = d] = [web[h] EXCEPT !.at = "scan", !.todo = d]
      BY <1>1, <2>2 DEF Request, RevokePage, In
    <3>3. QED BY <3>1, <3>2
  <2>3. QED BY <2>1, <2>2
<1>4. /\ r.at = "scan" /\ r.kind = web[h].kind /\ r.from = web[h].from
      /\ r.tab = web[h].tab
  BY <1>1, <1>3 DEF Request
<1>5. Refreshing(web[h]) => web[h].from \in Loud' \/ web[h].tab # NoTab
  BY <1>1, FHolds DEF OneRefresh, Quiet, Loud
<1>6. Goes(web[h], r, Loud')
  BY <1>1, <1>4, <1>5 DEF Goes, Kind, Place, NewOne, Refreshing
<1>7. QED BY <1>1, <1>2, <1>3, <1>6, FGoesOn

\* Whoever loses the answer to a refresh is not quiet any more.
LEMMA FLossStep ==
    ASSUME SInv, FInv, NEW h \in Handlers, Abandon(h) \/ Die(h)
    PROVE  FInv'
<1>1. /\ web[h] \in Request /\ web[h].at # "idle" /\ Kind(web[h])
      /\ UNCHANGED <<jar, store, rivals, alarms>>
      /\ alarms \subseteq lossy \union rivals
      /\ lossy' = lossy \union Unheard(h)
  BY Here, FHolds DEF FalseAlarmNeedsLoss, Abandon, Die, In, sessions
<1>2. Refreshing(web[h]) => web[h].from \in Loud'
  BY <1>1 DEF Refreshing, Unheard, Loud
<1>3. CASE Abandon(h)
  <2>1. PICK r : r = [web[h] EXCEPT !.tab = NoTab]
    OBVIOUS
  <2>2. /\ r.at = web[h].at /\ r.kind = web[h].kind /\ r.from = web[h].from
        /\ r.token = web[h].token
    BY <1>1, <2>1 DEF Request
  <2>3. Goes(web[h], r, Loud')
    BY <1>1, <1>2, <2>2 DEF Goes, Kind, NewOne, Refreshing
  <2>4. QED BY <1>1, <1>3, <2>1, <2>3, FGoesOn DEF Abandon
<1>4. CASE Die(h)
  <2>1. Goes(web[h], NoRequest, Loud')
    BY <1>1, <1>2, NoTokenIsNone DEF Goes, Kind, NewOne, Refreshing, Place
  <2>2. QED BY <1>1, <1>4, <2>1, FGoesOn DEF Die
<1>5. QED BY <1>3, <1>4

LEMMA FOtherStart ==
    ASSUME SInv, FInv, NEW h \in Handlers, NEW b \in Browsers, NEW tab \in Tabs,
           \/ StartLogin(h, b, tab) \/ StartLogout(h, b, tab)
           \/ StartLogoutAll(h, b, tab) \/ StartDelete(h, b, tab)
    PROVE  FInv'
<1>1. /\ UNCHANGED <<store, jar, lossy, rivals, alarms>> /\ web[h].at = "idle"
      /\ alarms \subseteq lossy \union rivals /\ BrowserOK
  BY FHolds DEF FalseAlarmNeedsLoss, StartLogin, StartLogout, StartLogoutAll,
                StartDelete, Ask, In, sessions, browsers, SInv
<1>2. PICK r : /\ Put(h, r) /\ r.at \in {"user", "del", "scan"}
               /\ r.kind # "refresh"
  <2>1. CASE StartLogin(h, b, tab) \/ StartDelete(h, b, tab)
    BY <1>1, <2>1, AskedIsRequest DEF StartLogin, StartDelete
  <2>2. CASE StartLogout(h, b, tab)
    BY <1>1, <2>2, AskedIsRequest DEF StartLogout, Ask
  <2>3. CASE StartLogoutAll(h, b, tab)
    <3>1. PICK S : S = {s \in Sids : store[s] # None}
      OBVIOUS
    <3>2. PICK r : r = [Asked("all", "scan", b, tab) EXCEPT !.todo = S]
      OBVIOUS
    <3>3. r.at = "scan" /\ r.kind = "all"
      BY <3>2 DEF Asked
    <3>4. Put(h, r)
      BY <2>3, <3>1, <3>2 DEF StartLogoutAll, Ask
    <3>5. QED BY <3>3, <3>4
  <2>4. QED BY <2>1, <2>2, <2>3
<1>3. Goes(web[h], r, Loud')
  BY <1>1, <1>2 DEF Goes, Kind, Place, NewOne, Refreshing
<1>4. QED BY <1>1, <1>2, <1>3, FGoesOn

LEMMA FStill ==
    ASSUME SInv, FInv, UNCHANGED <<web, jar, lossy, rivals, alarms>>,
           \A s \in Sids : store'[s] \in {store[s], None}
    PROVE  FInv'
<1>1. ASSUME NEW g \in Handlers  PROVE Goes(web[g], web[g], Loud')
  <2>1. Kind(web[g]) /\ (Refreshing(web[g]) => web[g].from \in Loud'
                                              \/ web[g].tab # NoTab)
    BY FHolds DEF OneRefresh, Quiet, Loud
  <2>2. QED BY <2>1 DEF Goes
<1>2. QED BY <1>1, FKept DEF FInv, FalseAlarmNeedsLoss

LEMMA FWorldStep ==
    ASSUME SInv, FInv,
           \/ Tick \/ (\E s \in Sids : Expire(s)) \/ UNCHANGED vars
           \/ (\E h \in Handlers : AccountStep(h))
           \/ Purge /\ UNCHANGED <<sessions, browsers, web>>
    PROVE  FInv'
<1>1. UNCHANGED <<web, jar, lossy, rivals, alarms>>
  BY DEF Tick, Expire, vars, AccountStep, browsers
<1>2. \A s \in Sids : store'[s] \in {store[s], None}
  <2>1. CASE \E s \in Sids : Expire(s)
    BY <2>1, DropOnlyTakes DEF SInv, Expire
  <2>2. QED BY <2>1 DEF Tick, vars, AccountStep, sessions
<1>3. QED BY <1>1, <1>2, FStill

\* A quiet browser that starts a refresh has no other on its way, so that
\* the token in its jar is fresh.
LEMMA FStartRefresh ==
    ASSUME SInv, FInv, NEW h \in Handlers, NEW b \in Browsers, NEW tab \in Tabs,
           StartRefresh(h, b, tab)
    PROVE  FInv'
<1>1. /\ web[h].at = "idle" /\ jar[b] # NoToken /\ BrowserOK
      /\ UNCHANGED <<store, jar, lossy, alarms>> /\ rivals \subseteq rivals'
      /\ alarms \subseteq lossy \union rivals /\ Put(h, Asked("refresh", "get", b, tab))
  BY FHolds DEF StartRefresh, Ask, In, SInv, sessions, FalseAlarmNeedsLoss
<1>2. PICK r : r = Asked("refresh", "get", b, tab)
  OBVIOUS
<1>3. /\ r.at = "get" /\ r.kind = "refresh" /\ r.from = b /\ r.tab = tab
      /\ r.token = jar[b]
  BY <1>2 DEF Asked
<1>4. web'[h] = r /\ \A g \in Handlers \ {h} : web'[g] = web[g]
  BY <1>1, <1>2 DEF SInv, Put
<1>5. \A a : Quiet(a)' => Quiet(a)
  BY <1>1 DEF Quiet, Loud
<1>6. ASSUME Quiet(b)', NEW g \in Handlers, Refreshing(web[g])
      PROVE  web[g].from # b
  <2> SUFFICES ASSUME web[g].from = b
               PROVE  FALSE
    OBVIOUS
  <2>1. web[g] \in Request /\ web[g].tab \in Tabs
    BY <1>5, <1>6, Here, FHolds DEF Refreshing, OneRefresh, Request
  <2>2. g \in InFlight(b, web[g].tab)
    BY <1>6 DEF InFlight, Refreshing, In
  <2>3. web[g].tab # tab
    BY <2>2 DEF StartRefresh, MayRefresh
  <2>4. b \in rivals'
    BY <2>1, <2>2, <2>3 DEF StartRefresh
  <2>5. QED BY <1>6, <2>4 DEF Quiet, Loud
<1>7. Quiet(b)' => Fresh(jar[b])
  BY <1>1, <1>5, <1>6, FHolds DEF JarsFresh, Renewed, Refreshing
<1>8. \A g \in Handlers : Kind(web'[g])
  BY <1>3, <1>4, FHolds DEF Kind
<1>9. Owned'
  BY <1>1, <1>3, <1>4, FHolds DEF Owned
<1>10. Unshared'
  <2>1. ASSUME NEW g \in Handlers, NewOne(web'[g])
        PROVE  /\ web'[g] = web[g]
               /\ \A a \in Browsers :
                    jar[a] # NoToken => jar[a].sid # web[g].token.sid
               /\ \A f \in Handlers \ {g} :
                    web[f].at \in Place => web[f].token.sid # web[g].token.sid
    <3>1. web'[g] = web[g]
      BY <1>3, <1>4, <2>1 DEF NewOne
    <3>2. QED BY <2>1, <3>1, FHolds DEF Unshared
  <2>2. ASSUME NEW g \in Handlers, NewOne(web'[g])
        PROVE  /\ \A a \in Browsers :
                    jar'[a] # NoToken => jar'[a].sid # web'[g].token.sid
               /\ \A f \in Handlers \ {g} :
                    web'[f].at \in Place => web'[f].token.sid # web'[g].token.sid
    BY <1>1, <1>3, <1>4, <2>1, <2>2
  <2>3. QED BY <2>2 DEF Unshared, NewOne
<1>11. OneRefresh'
  <2>1. tab # NoTab
    BY SessionsAssumption
  <2>2. \A a : a \notin Loud' => Quiet(a)
    BY <1>5 DEF Quiet
  <2>3. ASSUME NEW g \in Handlers, Refreshing(web'[g]), web'[g].from \notin Loud'
        PROVE  /\ web'[g].tab # NoTab
               /\ g # h => Refreshing(web[g]) /\ web[g].from # b
    <3>1. CASE g = h
      BY <1>3, <1>4, <2>1, <3>1
    <3>2. CASE g # h
      <4>1. web'[g] = web[g] /\ Refreshing(web[g]) /\ Quiet(web[g].from)
        BY <1>4, <2>2, <2>3, <3>2
      <4>2. web[g].from # b
        BY <1>6, <2>3, <4>1 DEF Quiet
      <4>3. QED BY <4>1, <4>2, FHolds DEF OneRefresh
    <3>3. QED BY <3>1, <3>2
  <2>4. \A f, g \in Handlers :
          /\ Refreshing(web'[f]) /\ Refreshing(web'[g])
          /\ web'[f].from = web'[g].from /\ web'[f].from \notin Loud'
          => f = g
    BY <1>3, <1>4, <2>2, <2>3, FHolds DEF OneRefresh
  <2>5. QED BY <2>3, <2>4 DEF OneRefresh, Refreshing, Quiet
<1>12. HeldFresh'
  BY <1>1, <1>3, <1>4, <1>5, <1>7, FHolds DEF HeldFresh, Fresh, Place
<1>13. JarsFresh'
  <2>1. ASSUME NEW a \in Browsers, Quiet(a)', jar'[a] # NoToken, ~ Fresh(jar[a])'
        PROVE  \E g \in Handlers : Renewed(web[g], a, jar[a].sid)'
    <3>1. PICK g \in Handlers : Renewed(web[g], a, jar[a].sid)
      BY <1>1, <1>5, <2>1, FHolds DEF JarsFresh, Fresh
    <3>2. web'[g] = web[g]
      BY <1>1, <1>4, <3>1 DEF Renewed
    <3>3. QED BY <1>1, <3>1, <3>2 DEF Renewed
  <2>2. QED BY <2>1 DEF JarsFresh
<1>14. QED BY <1>1, <1>8, <1>9, <1>10, <1>11, <1>12, <1>13
           DEF FInv, FalseAlarmNeedsLoss, Kind

\* A new session's token is like no other.
LEMMA FIssueSession ==
    ASSUME SInv, FInv, NEW h \in Handlers, NEW s \in Sids, IssueSession(h, s)
    PROVE  FInv'
<1>1. /\ web[h].at = "store" /\ web[h].kind = "login" /\ web[h] \in Request
      /\ s \notin used /\ StoreOK
      /\ UNCHANGED <<jar, lossy, rivals, alarms>>
      /\ store' = [store EXCEPT ![s] = clock]
  BY Here, FHolds DEF Kind, IssueSession, In, Persist, browsers
<1>2. PICK r : r = [web[h] EXCEPT !.at = "signed in",
                                  !.token = [sid |-> s, t |-> clock]]
  OBVIOUS
<1>3. /\ r.at = "signed in" /\ r.kind = "login" /\ r.token.sid = s
      /\ r.token.t = clock
  BY <1>1, <1>2 DEF Request
<1>4. web'[h] = r /\ \A g \in Handlers \ {h} : web'[g] = web[g]
  BY <1>2 DEF SInv, IssueSession, Signed, Put
<1>5. /\ \A g \in Handlers :
           web[g].at \in Place => web[g].token.sid # s /\ web[g].token.sid \in Sids
      /\ \A b \in Browsers : jar[b] # NoToken => jar[b].sid # s /\ jar[b].sid \in Sids
  BY <1>1 DEF SInv, Given, WithToken, Place, Token, StoreOK
<1>6. store'[s] = clock /\ \A t \in Sids \ {s} : store'[t] = store[t]
  BY <1>1 DEF StoreOK
<1>7. \A g \in Handlers : Kind(web'[g])
  BY <1>3, <1>4, FHolds DEF Kind
<1>8. Owned'
  <2>1. ASSUME NEW f \in Handlers, NEW g \in Handlers,
               web'[f].at \in Place, web'[g].at \in Place,
               web'[f].token.sid = web'[g].token.sid
        PROVE  web'[f].from = web'[g].from
    <3>1. f # h /\ g # h => web'[f].from = web'[g].from
      BY <1>4, <2>1, FHolds DEF Owned
    <3>2. \A g1 \in Handlers : web'[g1].at \in Place =>
            (web'[g1].token.sid = s <=> g1 = h)
      BY <1>3, <1>4, <1>5
    <3>3. (f = h) <=> (g = h)
      BY <2>1, <3>2
    <3>4. QED BY <3>1, <3>3
  <2>2. ASSUME NEW g \in Handlers, NEW b \in Browsers,
               web'[g].at \in Place, jar[b] # NoToken,
               jar[b].sid = web'[g].token.sid
        PROVE  web'[g].from = b
    <3>1. g # h
      BY <1>3, <1>4, <1>5, <2>2
    <3>2. web'[g] = web[g]
      BY <1>4, <3>1
    <3>3. QED BY <2>2, <3>2, FHolds DEF Owned
  <2>3. QED BY <1>1, <2>1, <2>2, FHolds DEF Owned
<1>9. Unshared'
  <2>1. ASSUME NEW g \in Handlers, NewOne(web'[g])
        PROVE  /\ \A a \in Browsers :
                    jar'[a] # NoToken => jar'[a].sid # web'[g].token.sid
               /\ \A f \in Handlers \ {g} :
                    web'[f].at \in Place => web'[f].token.sid # web'[g].token.sid
    <3>1. CASE g = h
      <4>1. web'[g].token.sid = s
        BY <1>3, <1>4, <3>1
      <4>2. \A f \in Handlers \ {g} : web'[f] = web[f]
        BY <1>4, <3>1
      <4>3. QED BY <1>1, <1>5, <4>1, <4>2
    <3>2. CASE g # h
      <4>1. web'[g] = web[g] /\ NewOne(web[g]) /\ web[g].at \in Place
        BY <1>4, <2>1, <3>2 DEF NewOne, Place
      <4>2. web[g].token.sid # s
        BY <1>5, <4>1
      <4>3. ASSUME NEW f \in Handlers \ {g}, web'[f].at \in Place
            PROVE  web'[f].token.sid # web[g].token.sid
        <5>1. CASE f = h
          BY <1>3, <1>4, <4>2, <5>1
        <5>2. CASE f # h
          BY <1>4, <4>1, <4>3, <5>2, FHolds DEF Unshared
        <5>3. QED BY <5>1, <5>2
      <4>4. \A a \in Browsers : jar[a] # NoToken => jar[a].sid # web[g].token.sid
        BY <4>1, FHolds DEF Unshared
      <4>5. QED BY <1>1, <4>1, <4>3, <4>4
    <3>3. QED BY <3>1, <3>2
  <2>2. QED BY <2>1 DEF Unshared, NewOne
<1>10. OneRefresh'
  <2>1. \A g \in Handlers : Refreshing(web'[g]) => web'[g] = web[g]
    BY <1>3, <1>4 DEF Refreshing
  <2>2. Loud' = Loud
    BY <1>1 DEF Loud
  <2>3. QED BY <2>1, <2>2, FHolds DEF OneRefresh, Quiet, Refreshing
<1>11. HeldFresh'
  <2>1. ASSUME NEW g \in Handlers, web'[g].at \in Place, web'[g].from \notin Loud
        PROVE  store'[web'[g].token.sid] \in {None, web'[g].token.t}
    <3>1. CASE g = h
      BY <1>3, <1>4, <1>6, <3>1
    <3>2. CASE g # h
      BY <1>4, <1>5, <1>6, <2>1, <3>2, FHolds DEF HeldFresh, Fresh, Quiet
    <3>3. QED BY <3>1, <3>2
  <2>2. QED BY <1>1, <2>1 DEF HeldFresh, Fresh, Quiet, Loud
<1>12. JarsFresh'
  <2>1. ASSUME NEW a \in Browsers, Quiet(a)', jar'[a] # NoToken, ~ Fresh(jar[a])'
        PROVE  \E g \in Handlers : Renewed(web[g], a, jar[a].sid)'
    <3>1. PICK g \in Handlers : Renewed(web[g], a, jar[a].sid)
      BY <1>1, <1>5, <1>6, <2>1, FHolds DEF JarsFresh, Fresh, Quiet, Loud
    <3>2. web'[g] = web[g]
      BY <1>1, <1>4, <3>1 DEF Renewed
    <3>3. QED BY <1>1, <3>1, <3>2 DEF Renewed
  <2>2. QED BY <2>1 DEF JarsFresh
<1>13. QED BY <1>1, <1>7, <1>8, <1>9, <1>10, <1>11, <1>12
           DEF FInv, FalseAlarmNeedsLoss, Kind

\* A rotation: the only refresh of a quiet browser replaces its token.
LEMMA FSetSession ==
    ASSUME SInv, FInv, NEW h \in Handlers, SetSession(h)
    PROVE  FInv'
<1>1. PICK s : s = web[h].token.sid
  OBVIOUS
<1>2. /\ web[h].at = "set" /\ web[h].kind = "refresh" /\ web[h] \in Request
      /\ s \in Sids /\ StoreOK
      /\ UNCHANGED <<jar, lossy, rivals, alarms>>
      /\ store' = [store EXCEPT ![s] = clock]
  BY <1>1, Here, FHolds DEF Kind, SetSession, In, Persist, browsers, WithToken, Given, Token
<1>3. PICK r : r = [web[h] EXCEPT !.at = "signed in",
                                  !.token = [sid |-> s, t |-> clock]]
  OBVIOUS
<1>4. /\ r.at = "signed in" /\ r.kind = "refresh" /\ r.token.sid = s
      /\ r.token.t = clock /\ r.from = web[h].from /\ r.tab = web[h].tab
  BY <1>2, <1>3 DEF Request
<1>5. web'[h] = r /\ \A g \in Handlers \ {h} : web'[g] = web[g]
  BY <1>1, <1>3 DEF SInv, SetSession, Signed, Put
<1>6. /\ \A g \in Handlers : web[g].at \in Place => web[g].token.sid \in Sids
      /\ \A b \in Browsers : jar[b] # NoToken => jar[b].sid \in Sids
  BY DEF SInv, Given, WithToken, Place, Token
<1>7. store'[s] = clock /\ \A t \in Sids \ {s} : store'[t] = store[t]
  BY <1>2 DEF StoreOK
<1>8. web[h].at \in Place /\ Refreshing(web[h]) /\ Loud' = Loud
  BY <1>2 DEF Place, Refreshing, Loud
<1>9. \A g \in Handlers : Kind(web'[g])
  BY <1>4, <1>5, FHolds DEF Kind
<1>10. Owned'
  <2>1. \A g \in Handlers : web'[g].at \in Place =>
          /\ web[g].at \in Place /\ web'[g].token.sid = web[g].token.sid
          /\ web'[g].from = web[g].from
    BY <1>1, <1>4, <1>5, <1>8
  <2>2. QED BY <1>2, <2>1, FHolds DEF Owned
<1>11. \A g \in Handlers \ {h} :
         NewOne(web[g]) => web[g].token.sid # s
  BY <1>1, <1>8, FHolds DEF Unshared
<1>12. Unshared'
  <2>1. ASSUME NEW g \in Handlers, NewOne(web'[g])
        PROVE  /\ \A a \in Browsers :
                    jar'[a] # NoToken => jar'[a].sid # web'[g].token.sid
               /\ \A f \in Handlers \ {g} :
                    web'[f].at \in Place => web'[f].token.sid # web'[g].token.sid
    <3>1. g # h /\ web'[g] = web[g] /\ NewOne(web[g])
      BY <1>4, <1>5, <2>1 DEF NewOne
    <3>2. \A a \in Browsers : jar[a] # NoToken => jar[a].sid # web[g].token.sid
      BY <3>1, FHolds DEF Unshared
    <3>3. ASSUME NEW f \in Handlers \ {g}, web'[f].at \in Place
          PROVE  web'[f].token.sid # web[g].token.sid
      <4>1. CASE f = h
        BY <1>4, <1>5, <1>11, <3>1, <4>1
      <4>2. CASE f # h
        BY <1>5, <3>1, <3>3, <4>2, FHolds DEF Unshared
      <4>3. QED BY <4>1, <4>2
    <3>4. QED BY <1>2, <3>1, <3>2, <3>3
  <2>2. QED BY <2>1 DEF Unshared, NewOne
<1>13. OneRefresh'
  <2>1. \A g \in Handlers : Refreshing(web'[g]) =>
          /\ Refreshing(web[g]) /\ web'[g].from = web[g].from
          /\ web'[g].tab = web[g].tab
    BY <1>4, <1>5, <1>8
  <2>2. QED BY <1>8, <2>1, FHolds DEF OneRefresh, Quiet, Refreshing
<1>14. HeldFresh'
  <2>1. ASSUME NEW g \in Handlers \ {h}, web[g].at \in Place,
               Quiet(web[g].from)
        PROVE  web[g].token.sid # s
    <3> SUFFICES ASSUME web[g].token.sid = s
                 PROVE  FALSE
      OBVIOUS
    <3>1. web[g].from = web[h].from
      BY <1>1, <1>8, <2>1, FHolds DEF Owned
    <3>2. web[g].kind = "refresh" \/ NewOne(web[g])
      BY <2>1, FHolds DEF Kind, Place, NewOne
    <3>3. Refreshing(web[g])
      BY <1>11, <2>1, <3>2 DEF Refreshing, Place
    <3>4. QED BY <1>8, <2>1, <3>1, <3>3, FHolds DEF OneRefresh
  <2>2. ASSUME NEW g \in Handlers, web'[g].at \in Place, web'[g].from \notin Loud
        PROVE  store'[web'[g].token.sid] \in {None, web'[g].token.t}
    <3>1. CASE g = h
      BY <1>4, <1>5, <1>7, <3>1
    <3>2. CASE g # h
      BY <1>5, <1>6, <1>7, <2>1, <2>2, <3>2, FHolds DEF HeldFresh, Fresh, Quiet
    <3>3. QED BY <3>1, <3>2
  <2>3. QED BY <1>8, <2>2 DEF HeldFresh, Fresh, Quiet
<1>15. JarsFresh'
  <2>1. ASSUME NEW a \in Browsers, Quiet(a)', jar'[a] # NoToken, ~ Fresh(jar[a])'
        PROVE  \E g \in Handlers : Renewed(web[g], a, jar[a].sid)'
    <3>1. CASE jar[a].sid = s
      <4>1. web[h].from = a
        BY <1>1, <1>2, <1>8, <2>1, <3>1, FHolds DEF Owned
      <4>2. Renewed(web[h], a, jar[a].sid)'
        BY <1>2, <1>4, <1>5, <3>1, <4>1 DEF Renewed
      <4>3. QED BY <4>2
    <3>2. CASE jar[a].sid # s
      <4>1. PICK g \in Handlers : Renewed(web[g], a, jar[a].sid)
        BY <1>2, <1>6, <1>7, <1>8, <2>1, <3>2, FHolds DEF JarsFresh, Fresh, Quiet
      <4>2. web'[g] = web[g]
        BY <1>2, <1>5, <4>1 DEF Renewed
      <4>3. QED BY <1>2, <4>1, <4>2 DEF Renewed
    <3>3. QED BY <3>1, <3>2
  <2>2. QED BY <2>1 DEF JarsFresh
<1>16. QED BY <1>2, <1>9, <1>10, <1>12, <1>13, <1>14, <1>15
           DEF FInv, FalseAlarmNeedsLoss, Kind

\* The answer to a sign-in or a refresh brings its token into the jar.
LEMMA FSignedIn ==
    ASSUME SInv, FInv, NEW h \in Handlers, Arrive(h), web[h].at = "signed in",
           web[h].tab # NoTab
    PROVE  FInv'
<1>1. PICK b \in Browsers : b = web[h].from
  BY Here DEF Request
<1>2. /\ web[h].at \in Place /\ UNCHANGED <<store, lossy, rivals, alarms>>
      /\ web[h].token # NoToken
      /\ jar'[b] = web[h].token /\ \A a \in Browsers \ {b} : jar'[a] = jar[a]
  BY <1>1, NoTokenIsNone
  DEF Arrive, Place, SInv, BrowserOK, sessions, WithToken, Given
<1>3. /\ web'[h] = NoRequest /\ NoRequest.at \notin Place \union {"store", "kill"}
      /\ NoRequest.at = "idle" /\ \A g \in Handlers \ {h} : web'[g] = web[g]
  BY NoTokenIsNone DEF SInv, Arrive, Put, Place
<1>4. Loud' = Loud
  BY <1>2 DEF Loud
<1>5. \A g \in Handlers : Kind(web'[g])
  BY <1>3, FHolds DEF Kind, Place
<1>6. \A g \in Handlers : web'[g].at \in Place =>
        g # h /\ web'[g] = web[g] /\ web[g].at \in Place
  BY <1>3
<1>7. Owned'
  <2>1. ASSUME NEW f \in Handlers, NEW g \in Handlers,
               web'[f].at \in Place, web'[g].at \in Place,
               web'[f].token.sid = web'[g].token.sid
        PROVE  web'[f].from = web'[g].from
    <3>1. /\ web'[f] = web[f] /\ web[f].at \in Place
          /\ web'[g] = web[g] /\ web[g].at \in Place
      BY <1>6, <2>1
    <3>2. web[f].token.sid = web[g].token.sid => web[f].from = web[g].from
      BY <3>1, FHolds DEF Owned
    <3>3. QED BY <2>1, <3>1, <3>2
  <2>2. ASSUME NEW g \in Handlers, NEW a \in Browsers,
               web'[g].at \in Place, jar'[a] # NoToken,
               jar'[a].sid = web'[g].token.sid
        PROVE  web'[g].from = a
    <3>1. web'[g] = web[g] /\ web[g].at \in Place
      BY <1>6, <2>2
    <3>2. CASE a = b
      <4>1. web[h].token.sid = web[g].token.sid
        BY <1>2, <2>2, <3>1, <3>2
      <4>2. web[h].from = web[g].from
        BY <1>2, <3>1, <4>1, FHolds DEF Owned
      <4>3. QED BY <1>1, <3>1, <3>2, <4>2
    <3>3. CASE a # b
      <4>1. jar'[a] = jar[a]
        BY <1>2, <3>3
      <4>2. QED BY <2>2, <3>1, <4>1, FHolds DEF Owned
    <3>4. QED BY <3>2, <3>3
  <2>3. ASSUME NEW a \in Browsers \ {b}, jar'[a] # NoToken
        PROVE  jar'[a].sid # jar'[b].sid
    <3>1. jar'[a] = jar[a] /\ jar'[b] = web[h].token
      BY <1>2, <2>3
    <3>2. jar[a].sid = web[h].token.sid => web[h].from = a
      BY <1>2, <2>3, <3>1, FHolds DEF Owned
    <3>3. QED BY <1>1, <2>3, <3>1, <3>2
  <2>4. ASSUME NEW a \in Browsers, NEW c \in Browsers,
               jar'[a] # NoToken, jar'[c] # NoToken,
               jar'[a].sid = jar'[c].sid
        PROVE  a = c
    <3>1. CASE a = b \/ c = b
      BY <2>3, <2>4, <3>1
    <3>2. CASE a # b /\ c # b
      <4>1. jar'[a] = jar[a] /\ jar'[c] = jar[c]
        BY <1>2, <3>2
      <4>2. jar[a] # NoToken /\ jar[c] # NoToken /\ jar[a].sid = jar[c].sid
        BY <2>4, <4>1
      <4>3. QED BY <4>2, FHolds DEF Owned
    <3>3. QED BY <3>1, <3>2
  <2>5. QED BY <2>1, <2>2, <2>4 DEF Owned
<1>8. Unshared'
  <2>1. ASSUME NEW g \in Handlers, NewOne(web'[g])
        PROVE  /\ \A a \in Browsers :
                    jar'[a] # NoToken => jar'[a].sid # web'[g].token.sid
               /\ \A f \in Handlers \ {g} :
                    web'[f].at \in Place => web'[f].token.sid # web'[g].token.sid
    <3>1. g # h /\ web'[g] = web[g] /\ NewOne(web[g])
      BY <1>3, <2>1 DEF NewOne
    <3>2. /\ \A a \in Browsers :
               jar[a] # NoToken => jar[a].sid # web[g].token.sid
          /\ \A f \in Handlers \ {g} :
               web[f].at \in Place => web[f].token.sid # web[g].token.sid
      BY <3>1, FHolds DEF Unshared
    <3>3. \A a \in Browsers : jar'[a] = jar[a] \/ jar'[a] = web[h].token
      BY <1>2
    <3>4. web[h].token.sid # web[g].token.sid
      BY <1>2, <3>1, <3>2
    <3>5. QED BY <1>6, <3>1, <3>2, <3>3, <3>4
  <2>2. QED BY <2>1 DEF Unshared, NewOne
<1>9. OneRefresh'
  <2>1. \A g \in Handlers : Refreshing(web'[g]) => web'[g] = web[g]
    BY <1>3 DEF Refreshing
  <2>2. QED BY <1>4, <2>1, FHolds DEF OneRefresh, Quiet, Refreshing
<1>10. HeldFresh'
  BY <1>2, <1>4, <1>6, FHolds DEF HeldFresh, Fresh, Quiet
<1>11. JarsFresh'
  <2>1. ASSUME NEW a \in Browsers, Quiet(a)', jar'[a] # NoToken, ~ Fresh(jar[a])'
        PROVE  \E g \in Handlers : Renewed(web[g], a, jar[a].sid)'
    <3>1. a # b
      BY <1>1, <1>2, <1>4, <2>1, FHolds DEF HeldFresh, Fresh, Quiet
    <3>2. PICK g \in Handlers : Renewed(web[g], a, jar[a].sid)
      BY <1>2, <1>4, <2>1, <3>1, FHolds DEF JarsFresh, Fresh, Quiet
    <3>3. web'[g] = web[g]
      BY <1>1, <1>3, <3>1, <3>2 DEF Renewed
    <3>4. QED BY <1>2, <3>1, <3>2, <3>3 DEF Renewed
  <2>2. QED BY <2>1 DEF JarsFresh
<1>12. QED BY <1>2, <1>5, <1>7, <1>8, <1>9, <1>10, <1>11
           DEF FInv, FalseAlarmNeedsLoss, Kind

LEMMA FArrive ==
    ASSUME SInv, FInv, NEW h \in Handlers, Arrive(h)
    PROVE  FInv'
<1>1. /\ web[h] \in Request /\ Put(h, NoRequest)
      /\ UNCHANGED <<store, lossy, rivals, alarms>>
      /\ alarms \subseteq lossy \union rivals
  BY Here, FHolds DEF Arrive, sessions, FalseAlarmNeedsLoss
<1>2. CASE web[h].at = "signed in" /\ web[h].tab # NoTab
  BY <1>2, FSignedIn
<1>3. CASE web[h].at # "signed in" \/ web[h].tab = NoTab
  <2>1. \A b \in Browsers : jar'[b] \in {jar[b], NoToken}
    BY <1>3 DEF Arrive, SInv, BrowserOK
  <2>2. web[h].at = "signed in" /\ web[h].kind = "refresh" => web[h].from \in Loud'
    BY <1>1, <1>3, FHolds DEF OneRefresh, Refreshing, Quiet, Loud
  <2>3. Goes(web[h], NoRequest, Loud')
    BY <2>2, NoTokenIsNone DEF Goes, Kind, Place, NewOne, Refreshing
  <2>4. QED BY <1>1, <2>1, <2>3, FGoesOn
<1>4. QED BY <1>2, <1>3

LEMMA FInvariance == Spec => []FInv
<1>1. Init => FInv
  BY NoTokenIsNone
  DEF Init, FInv, Kind, Owned, Unshared, OneRefresh, HeldFresh, JarsFresh, NewOne,
      Refreshing, Place, FalseAlarmNeedsLoss
<1>2. SInv /\ FInv /\ [Next]_vars => FInv'
  <2> SUFFICES ASSUME SInv, FInv, [Next]_vars PROVE FInv'
    OBVIOUS
  <2>1. ASSUME NEW h \in Handlers, NEW b \in Browsers, NEW tab \in Tabs,
               \/ StartRefresh(h, b, tab) \/ StartLogin(h, b, tab)
               \/ StartLogout(h, b, tab) \/ StartLogoutAll(h, b, tab)
               \/ StartDelete(h, b, tab)
        PROVE  FInv'
    BY <2>1, FStartRefresh, FOtherStart
  <2>2. ASSUME NEW h \in Handlers,
               \/ AccountStep(h) \/ Abandon(h) \/ Arrive(h) \/ Die(h)
               \/ Issue(h) \/ EndSessions(h) \/ Refuse(h)
               \/ Get(h) \/ FindUser(h) \/ Revoked(h)
        PROVE  FInv'
    BY <2>2, FWorldStep, FLossStep, FArrive, FServerStep, FScanStep, FGet
  <2>3. ASSUME NEW h \in Handlers,
               \/ (\E s \in Sids : IssueSession(h, s)) \/ SetSession(h)
               \/ Kill(h) \/ RevokeFromToken(h) \/ RevokePage(h)
        PROVE  FInv'
    BY <2>3, FIssueSession, FSetSession, FServerStep, FScanStep
  <2>4. QED BY <2>1, <2>2, <2>3, FWorldStep DEF Next
<1>3. QED BY <1>1, <1>2, Invariance, PTL DEF Spec

(* A browser whose one tab hears the answer to every refresh is never      *)
(* taken for a thief, whatever other browsers and other requests do.       *)
THEOREM AlarmsNeedLoss == Spec => []FalseAlarmNeedsLoss
<1>1. FInv => FalseAlarmNeedsLoss
  BY FHolds
<1>2. QED BY <1>1, FInvariance, PTL
=============================================================================
