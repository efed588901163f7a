------------------------------ MODULE Accounts ------------------------------
(***************************************************************************)
(* One user's row (UsersService): signing in with Google, the roles that   *)
(* onboarding and a submitted application give, soft deletion, and the     *)
(* purge of accounts whose grace period is over.                           *)
(*                                                                         *)
(* As in ProviderProfile, save compares the copy with the row and then     *)
(* writes the columns that differ.                                         *)
(***************************************************************************)
EXTENDS Integers, FiniteSets

CONSTANTS
    Handlers,   \* requests that may be in progress at a time
    MaxCalls    \* bound: requests in a run

ASSUME AccountsAssumption == MaxCalls \in Nat

VARIABLES
    user,       \* the row, NoUser before the first sign-in, Purged at the end
    calls,      \* the requests that work on it
    begun,      \* how many requests there have been
    overtaken   \* a call saved after another had written what it had read

account == <<user, calls, overtaken>>

Roles == {"seeker", "provider", "admin"}
Columns == {"roles", "deleted"}
User == [roles : SUBSET Roles, deleted : BOOLEAN]
NoUser == [row |-> "none"]
Purged == [row |-> "purged"]
NewUser == [roles |-> {}, deleted |-> FALSE]
HasRow == user \notin {NoUser, Purged}

Call == [op : {"login", "seeker", "promote", "delete"},
         at : {"idle", "again", "compare", "write", "insert", "delete",
               "saved"},
         copy : User, cols : SUBSET Columns, fresh : BOOLEAN]
Idle == [op |-> "login", at |-> "idle", copy |-> NewUser, cols |-> {},
         fresh |-> TRUE]

AccountTypeOK ==
    /\ user \in User \union {NoUser, Purged}
    /\ calls \in [Handlers -> Call]
    /\ begun \in 0 .. MaxCalls
    /\ overtaken \in BOOLEAN

\* The two roles that exclude each other.
BothRoles == {"seeker", "provider"}

\* Nobody yet, or somebody with any roles they can have.
AccountInit ==
    /\ user \in {NoUser} \union {u \in User : /\ ~ u.deleted
                                            /\ ~ (BothRoles \subseteq u.roles)}
    /\ calls = [h \in Handlers |-> Idle]
    /\ begun = 0
    /\ overtaken = FALSE

-----------------------------------------------------------------------------
At(h, p) == calls[h].at = p
Set(h, c) == calls' = [calls EXCEPT ![h] = c]
Goto(h, p) == Set(h, [calls[h] EXCEPT !.at = p])
Return(h) == Set(h, Idle)
Begin(h) == At(h, "idle") /\ begun < MaxCalls /\ begun' = begun + 1

\* What h has read is the past for every other call.
Overtake(h, c) ==
    calls' = [g \in Handlers |->
                 IF g = h THEN c
                 ELSE [calls[g] EXCEPT !.fresh = At(g, "idle")]]

\* findById leaves out deleted users.
Exists == HasRow /\ ~ user.deleted

Copied(op, copy) == [Idle EXCEPT !.op = op, !.at = "compare", !.copy = copy]

\* findOrCreateFromGoogle finds deleted users too, and takes them back.  Who
\* signs in after the purge gets a new account, not this one.
Login(h) ==
    /\ Begin(h)
    /\ \/ user = NoUser
          /\ Set(h, [Idle EXCEPT !.at = "insert"])
       \/ HasRow
          /\ Set(h, Copied("login", [user EXCEPT !.deleted = FALSE]))
    /\ UNCHANGED <<user, overtaken>>

\* Mutant: the rule is left to the web client.
AnyUser == Exists
\* Who may take the seeker role.
MayBeSeeker == Exists /\ "provider" \notin user.roles

\* assignSeekerRole looks for the other role, ...
AssignSeeker(h) ==
    /\ Begin(h)
    /\ MayBeSeeker
    /\ Set(h, [Idle EXCEPT !.op = "seeker", !.at = "again"])
    /\ UNCHANGED <<user, overtaken>>

AsSeeker == [user EXCEPT !.roles = @ \union {"seeker"}]

\* ... and addRole loads the user again.
AddRole(h) ==
    /\ At(h, "again")
    /\ \/ Exists /\ "seeker" \notin user.roles
          /\ Set(h, [Copied("seeker", AsSeeker) EXCEPT
                        !.fresh = calls[h].fresh])
       \/ ~ (Exists /\ "seeker" \notin user.roles) /\ Goto(h, "saved")
    /\ UNCHANGED <<user, begun, overtaken>>

ProviderOnly(R) == {"provider"}     \* mutant: the set is replaced
AsProvider(R) == (R \ {"seeker"}) \union {"provider"}

\* promoteToProvider
Promote(h) ==
    /\ Begin(h)
    /\ Exists
    /\ Set(h, Copied("promote", [user EXCEPT !.roles = AsProvider(@)]))
    /\ UNCHANGED <<user, overtaken>>

\* deleteAccount, once it has found no active job.
Delete(h) ==
    /\ Begin(h) /\ HasRow
    /\ Set(h, [Idle EXCEPT !.op = "delete", !.at = "delete"])
    /\ UNCHANGED <<user, overtaken>>

SoftDelete(h) ==
    /\ At(h, "delete")
    /\ user' = [user EXCEPT !.deleted = TRUE]
    /\ Overtake(h, [calls[h] EXCEPT !.at = "saved"])
    /\ UNCHANGED <<begun, overtaken>>

-----------------------------------------------------------------------------
\* save
Compare(h) ==
    LET c == calls[h] IN
    /\ At(h, "compare")
    /\ Set(h, [c EXCEPT !.at = "write",
                        !.cols = {x \in Columns : c.copy[x] # user[x]}])
    /\ UNCHANGED <<user, begun, overtaken>>

Written(c) == [x \in Columns |-> IF x \in c.cols THEN c.copy[x] ELSE user[x]]

Write(h) ==
    LET c == calls[h] IN
    /\ At(h, "write")
    /\ \/ c.cols = {} /\ Goto(h, "saved") /\ UNCHANGED user
       \/ c.cols # {} /\ user' = Written(c)
                      /\ Overtake(h, [c EXCEPT !.at = "saved"])
    /\ overtaken' = (overtaken \/ ~ c.fresh)
    /\ UNCHANGED begun

\* The e-mail is unique: an insert fails if another sign-in, after a purge
\* perhaps one to a new account, has been there first.
Insert(h) ==
    /\ At(h, "insert")
    /\ \/ user # NoUser /\ Return(h) /\ UNCHANGED user
       \/ ~ HasRow /\ Goto(h, "saved") /\ user' = calls[h].copy
    /\ UNCHANGED <<begun, overtaken>>

\* The answer of the requests that do no more than this.
Answer(h) ==
    /\ At(h, "saved") /\ Return(h)
    /\ UNCHANGED <<user, begun, overtaken>>

\* A sign-in whose row is purged: save finds none and inserts the copy, an
\* update that is already under way changes nothing.
Bereft(c) ==
    CASE c.at = "compare" -> [c EXCEPT !.at = "insert"]
      [] c.at = "write"   -> [c EXCEPT !.cols = {}]
      [] OTHER            -> c

\* purgeExpiredAccounts.  After the 15 days of grace only a sign-in can be
\* at work on the row.
Purge ==
    /\ HasRow /\ user.deleted
    /\ \A h \in Handlers :
          calls[h].op = "login" /\ calls[h].at \in {"idle", "compare", "write"}
    /\ user' = Purged
    /\ calls' = [h \in Handlers |-> Bereft(calls[h])]
    /\ UNCHANGED <<begun, overtaken>>

-----------------------------------------------------------------------------
(* No overlap of requests takes the admin role from a user ("admin is      *)
(* preserved", promoteToProvider) as long as there is an account.          *)
AdminStays ==
    HasRow /\ HasRow' /\ "admin" \in user.roles => "admin" \in user'.roles
AdminStaysAdmin == [][AdminStays]_user

(* As long as no call has written over another's work, a user is not both  *)
(* seeker and provider, a provider stays one, and only a sign-in brings a  *)
(* deleted account back ("A user can't be both a seeker and a provider,    *)
(* and a provider can't downgrade", assignSeekerRole).                     *)
OneRole == HasRow => ~ (BothRoles \subseteq user.roles)
RoleKept ==
    HasRow /\ HasRow' =>
        /\ "provider" \in user.roles => "provider" \in user'.roles
        /\ user.deleted /\ ~ user'.deleted =>
             \E h \in Handlers : calls[h].op = "login" /\ At(h, "write")
RolesUnlessOvertaken == [][~ overtaken' => OneRole' /\ RoleKept]_user
=============================================================================
