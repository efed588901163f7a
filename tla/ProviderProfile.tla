-------------------------- MODULE ProviderProfile --------------------------
(***************************************************************************)
(* One provider's application: ProvidersService, the review by an admin,   *)
(* and the rating that ReviewsService keeps on the same row.               *)
(*                                                                         *)
(* No handler takes a lock or a transaction of its own.  Each loads the    *)
(* row into a copy, changes the copy and saves it, and TypeORM's save is   *)
(* again two steps: it compares the copy with the row as it is now, and    *)
(* then writes the columns that differ, the ones the handler never touched *)
(* included.  A call that another one has overtaken writes back what it    *)
(* had read; `stale' records that this has happened.  The provider role    *)
(* that submit grants is kept in the user's row, which is saved the same   *)
(* way, here and by whoever else saves it (`overwritten').                 *)
(***************************************************************************)
EXTENDS Integers, FiniteSets

CONSTANTS
    Handlers,   \* requests that may be in progress at a time
    Numbers,    \* phone numbers
    NoNumber,   \* none
    DocIds,     \* uploaded documents (of the one type that is told apart)
    Jobs,       \* completed jobs that seekers may review
    MaxCalls    \* bound: requests in a run

ASSUME ProfileAssumption ==
    /\ NoNumber \notin Numbers
    /\ IsFiniteSet(Jobs)
    /\ MaxCalls \in Nat

VARIABLES
    row,        \* the provider_profiles row, NoRow before it is created
    docs,       \* the documents of the profile
    otp,        \* the number that the stored code was sent to
    promoted,   \* the user has the provider role
    orphaned,   \* a submit has ended between its save and the role
    overwritten,  \* another save of the user's row took the role away
    mailed,     \* the "verified" mail is queued
    reviews,    \* the jobs with a stored review
    calls,      \* the requests in progress
    begun,      \* how many requests there have been
    proved,     \* numbers whose code was entered
    swapped,    \* a code was entered for another number than the row's
    dropped,    \* stored reviews whose call died before the profile save
    stale       \* a call saved after another had written what it had read

phone  == <<otp, proved, swapped>>
user   == <<promoted, orphaned, overwritten, mailed>>
rating == <<reviews, dropped>>
vars   == <<row, docs, phone, user, rating, calls, begun, stale>>

Statuses == {"draft", "submitted", "approved", "rejected"}
Operations == {"update", "send", "verify", "confirm", "submit", "touch",
               "approve", "reject", "review", "sign in"}
Points == {"create", "consume", "store", "load", "find", "replace", "set code",
           "compare", "write", "promote", "save user", "write user", "mail",
           "done"}
\* Where a submit is between its save and the role.
Promoting == {"promote", "save user", "write user"}

Columns == {"status", "name", "skills", "phone", "verified", "reason", "count"}
RowWith(Counts) ==
    [status : Statuses, name : BOOLEAN, skills : BOOLEAN,
     phone : Numbers \union {NoNumber}, verified : BOOLEAN,
     reason : BOOLEAN, count : Counts]
Row == RowWith(Nat)
NoRow == [status |-> "none"]
Empty(status) ==
    [status |-> status, name |-> FALSE, skills |-> FALSE, phone |-> NoNumber,
     verified |-> FALSE, reason |-> FALSE, count |-> 0]
DraftUnset == Empty("none")     \* mutant: the column has no default
Draft == Empty("draft")

\* UpdateApplicationDto: a field may be absent.
Edits == [name : BOOLEAN, skills : {"absent", "none", "some"},
          phone : Numbers \union {NoNumber}]
Absent == [name |-> FALSE, skills |-> "absent", phone |-> NoNumber]

\* A request: what it asks for, how far it is, the copy it works on and the
\* documents it loaded, the columns that save found different, whether nobody
\* has written since it read, and the role in its copy of the user's row.
Call == [op : Operations, at : Points, edit : Edits, job : SUBSET Jobs,
         copy : Row, docs : SUBSET DocIds, cols : SUBSET Columns,
         fresh : BOOLEAN, role : BOOLEAN]
Idle == [op |-> "touch", at |-> "done", edit |-> Absent, job |-> {},
         copy |-> Draft, docs |-> {}, cols |-> {}, fresh |-> TRUE,
         role |-> FALSE]

TypeOK ==
    /\ row \in Row \union {NoRow}
    /\ docs \subseteq DocIds
    /\ otp \in Numbers \union {NoNumber}
    /\ {promoted, orphaned, overwritten, mailed, swapped, stale} \subseteq BOOLEAN
    /\ reviews \subseteq Jobs /\ dropped \subseteq reviews
    /\ calls \in [Handlers -> Call]
    /\ begun \in 0 .. MaxCalls
    /\ proved \subseteq Numbers

Locked(r) == r.status \in {"submitted", "approved"}
\* assertEditable
Editable(r) == ~ Locked(r)
\* What submit asks for.
Ready(r, d) == r.name /\ r.verified /\ r.skills /\ d # {}

\* The review that a call has stored and not yet added to the rating.
InHand(c) == IF c.at \in {"load", "compare", "write"} THEN c.job ELSE {}

\* The stored reviews that the rating should have by now.
counted == reviews \ (dropped \union UNION {InHand(calls[h]) : h \in Handlers})

(* The application as calls leave it that never overtake one another.      *)
Sound ==
    row # NoRow =>
        /\ Locked(row) => Ready(row, docs)
        /\ row.reason <=> row.status = "rejected"
        /\ row.verified => /\ row.phone # NoNumber
                           /\ row.phone \in proved \/ swapped
        /\ row.count = Cardinality(counted)
        /\ mailed => row.status = "approved"

\* A run begins with no application yet, or with one that earlier calls left.
Init ==
    /\ row \in {NoRow} \union RowWith({0})
    /\ docs \in {D \in SUBSET DocIds : Cardinality(D) <= 1}
    /\ row = NoRow => docs = {}
    /\ otp = NoNumber
    /\ promoted = (row.status \notin {"none", "draft"})
    /\ orphaned = FALSE /\ overwritten = FALSE
    /\ mailed = (row.status = "approved")
    /\ reviews = {} /\ dropped = {}
    /\ calls = [h \in Handlers |-> Idle]
    /\ begun = 0
    /\ proved = IF row # NoRow /\ row.verified THEN {row.phone} ELSE {}
    /\ swapped = FALSE /\ stale = FALSE
    /\ Sound

-----------------------------------------------------------------------------
(* Requests begin, and load the row.                                       *)

Set(h, c) == calls' = [calls EXCEPT ![h] = c]
At(h, p) == calls[h].at = p
Goto(h, p) == Set(h, [calls[h] EXCEPT !.at = p])
Return(h) == Set(h, Idle)
\* An error, after which a review in hand never gets to the rating.
Throw(h) == Return(h) /\ dropped' = dropped \union InHand(calls[h])

Begin(h) == At(h, "done") /\ begun < MaxCalls /\ begun' = begun + 1

\* Only the provider's own handlers load documents and skills with the row.
Full(op) == op \notin {"approve", "reject", "review", "sign in"}

EditingButSubmit == {"update", "confirm"}   \* mutant: submit does not assert
\* The handlers that call assertEditable.
Editing == {"update", "confirm", "submit"}

Allowed(op) ==
    /\ op \in Editing => Editable(row)
    /\ op = "submit" => Ready(row, docs)
    /\ op \in {"approve", "reject"} => row.status = "submitted"
    /\ op = "send" => row.phone # NoNumber

Updated(e) ==
    [row EXCEPT
        !.name = @ \/ e.name,
        !.skills = IF e.skills = "absent" THEN @ ELSE e.skills = "some",
        !.phone = IF e.phone = NoNumber THEN @ ELSE e.phone,
        !.verified = @ /\ e.phone \in {NoNumber, row.phone}]   \* re-verify

\* Mutant: the reason of an earlier rejection stays.
SubmittedAgain == [row EXCEPT !.status = "submitted"]
Submitted == [row EXCEPT !.status = "submitted", !.reason = FALSE]
Approved  == [row EXCEPT !.status = "approved", !.reason = FALSE]
Rejected  == [row EXCEPT !.status = "rejected", !.reason = TRUE]

\* What each handler makes of its copy.
Changed(op, e) ==
    CASE op = "update"  -> Updated(e)
      [] op = "verify"  -> [row EXCEPT !.verified = TRUE]
      [] op = "submit"  -> Submitted
      [] op = "approve" -> Approved
      [] op = "reject"  -> Rejected
      [] op = "review"  -> [row EXCEPT !.count = @ + 1]
      [] OTHER          -> row

AfterLoad(op) ==
    CASE op = "send"    -> "set code"
      [] op = "confirm" -> "find"
      [] OTHER          -> "compare"

Loaded(op, e, j) ==
    [Idle EXCEPT !.op = op, !.at = AfterLoad(op), !.job = j,
                 !.copy = Changed(op, e),
                 !.docs = IF Full(op) THEN docs ELSE {}]

\* The provider's requests other than verify, and the admin's.
Open(h, op, e) ==
    /\ Begin(h)
    /\ \/ /\ row = NoRow /\ Full(op)
          /\ Set(h, [Idle EXCEPT !.op = op, !.at = "create", !.edit = e])
       \/ /\ row # NoRow /\ Allowed(op)
          /\ Set(h, Loaded(op, e, {}))
    /\ UNCHANGED <<row, docs, phone, user, rating, stale>>

\* getOrCreateDraft inserts; userId is unique, the second of two fails.
Create(h) ==
    /\ At(h, "create")
    /\ \/ row = NoRow /\ row' = Draft /\ Goto(h, "load")
       \/ row # NoRow /\ Return(h) /\ UNCHANGED row
    /\ UNCHANGED <<docs, phone, user, rating, begun, stale>>

Load(h) ==
    /\ At(h, "load")
    /\ LET c == calls[h] IN
         \/ /\ Allowed(c.op) /\ Set(h, Loaded(c.op, c.edit, c.job))
            /\ swapped' = (swapped \/
                            (c.op = "verify" /\ c.edit.phone # row.phone))
            /\ UNCHANGED dropped
         \/ ~ Allowed(c.op) /\ Throw(h) /\ UNCHANGED swapped
    /\ UNCHANGED <<row, docs, otp, proved, user, reviews, begun, stale>>

-----------------------------------------------------------------------------
(* save: compare the copy with the row, then write what differs.           *)

\* What h has read is the past for every other call.
Overtake(h, c) ==
    calls' = [g \in Handlers |->
                 IF g = h THEN c
                 ELSE [calls[g] EXCEPT !.fresh = At(g, "done")]]

Compare(h) ==
    /\ At(h, "compare")
    /\ LET c == calls[h]
           looked == IF Full(c.op) THEN Columns ELSE Columns \ {"skills"}
       IN  Set(h, [c EXCEPT !.at = "write",
                            !.cols = {x \in looked : c.copy[x] # row[x]},
                            !.docs = IF Full(c.op) THEN docs \ @ ELSE {}])
    /\ UNCHANGED <<row, docs, phone, user, rating, begun, stale>>

AfterWriteUnpromoted(c) ==      \* mutant: submit does not grant the role
    IF c.op = "approve" THEN [c EXCEPT !.at = "mail"] ELSE Idle
AfterWrite(c) ==
    CASE c.op = "submit"  -> [c EXCEPT !.at = "promote"]
      [] c.op = "approve" -> [c EXCEPT !.at = "mail"]
      [] OTHER            -> Idle

Written(c) == [x \in Columns |-> IF x \in c.cols THEN c.copy[x] ELSE row[x]]

\* A document that the copy does not list would lose its owner: save fails.
Write(h) ==
    LET c == calls[h] IN
    /\ At(h, "write")
    /\ \/ /\ c.docs \intersect docs # {}
          /\ Throw(h) /\ UNCHANGED <<row, stale>>
       \/ /\ c.docs \intersect docs = {}
          /\ row' = Written(c)
          /\ \/ c.cols = {} /\ Set(h, AfterWrite(c))
             \/ c.cols # {} /\ Overtake(h, AfterWrite(c))
          /\ stale' = (stale \/ ~ c.fresh)
          /\ UNCHANGED dropped
    /\ UNCHANGED <<docs, phone, user, reviews, begun>>

(* promoteToProvider, the last step of submit, and the sign-ins and role    *)
(* changes that save the same row of the user (UsersService).              *)

\* findById, which does not find a user who has been deleted meanwhile.
Promote(h) ==
    /\ At(h, "promote")
    /\ \/ /\ Set(h, [calls[h] EXCEPT !.at = "save user", !.role = TRUE])
          /\ UNCHANGED orphaned
       \/ Return(h) /\ orphaned' = TRUE
    /\ UNCHANGED <<row, docs, phone, promoted, overwritten, mailed, rating, begun,
                   stale>>

\* findOrCreateFromGoogle, or addRole: the row is loaded, to be saved again.
SignIn(h) ==
    /\ Begin(h)
    /\ Set(h, [Idle EXCEPT !.op = "sign in", !.at = "save user",
                           !.role = promoted])
    /\ UNCHANGED <<row, docs, phone, user, rating, stale>>

\* save: the role is written if the row differs from the copy.
CompareUser(h) ==
    /\ At(h, "save user")
    /\ \/ calls[h].role = promoted /\ Return(h)
       \/ calls[h].role # promoted /\ Goto(h, "write user")
    /\ UNCHANGED <<row, docs, phone, user, rating, begun, stale>>

WriteUser(h) ==
    /\ At(h, "write user") /\ Return(h)
    /\ promoted' = calls[h].role
    /\ overwritten' = (overwritten \/ ~ calls[h].role)
    /\ UNCHANGED <<row, docs, phone, orphaned, mailed, rating, begun, stale>>

\* queueAccountVerified, the last step of approve.
Mail(h) ==
    /\ At(h, "mail") /\ Return(h)
    /\ mailed' = TRUE
    /\ UNCHANGED <<row, docs, phone, promoted, orphaned, overwritten, rating, begun,
                   stale>>

-----------------------------------------------------------------------------
(* The phone number.                                                       *)

\* sendPhoneOtp stores a code for the user, not for the number.
SetCode(h) ==
    /\ At(h, "set code") /\ Return(h)
    /\ otp' = calls[h].copy.phone
    /\ UNCHANGED <<row, docs, proved, swapped, user, rating, begun, stale>>

\* The code lives for OTP_TTL_SECONDS.
Expire ==
    /\ otp # NoNumber /\ otp' = NoNumber
    /\ UNCHANGED <<row, docs, proved, swapped, user, rating, calls, begun, stale>>

\* verifyPhoneOtp with the right code.
EnterCode(h) ==
    /\ Begin(h)
    /\ otp # NoNumber
    /\ Set(h, [Idle EXCEPT !.op = "verify", !.at = "consume",
                           !.edit.phone = otp])
    /\ UNCHANGED <<row, docs, phone, user, rating, stale>>

Consume(h) ==
    /\ At(h, "consume") /\ Goto(h, "load")
    /\ otp' = NoNumber
    /\ proved' = proved \union {calls[h].edit.phone}
    /\ UNCHANGED <<row, docs, swapped, user, rating, begun, stale>>

-----------------------------------------------------------------------------
(* confirmDocument after it has found the application editable: the old    *)
(* documents go one by one, then the new one is recorded.                  *)

Find(h) ==
    /\ At(h, "find")
    /\ Set(h, [calls[h] EXCEPT !.at = "replace", !.docs = docs])
    /\ UNCHANGED <<row, docs, phone, user, rating, begun, stale>>

Remove(h, d) ==
    LET c == calls[h] IN
    /\ At(h, "replace") /\ d \in c.docs
    /\ docs' = docs \ {d}
    /\ Overtake(h, [c EXCEPT !.docs = @ \ {d}])
    /\ stale' = (stale \/ ~ c.fresh)
    /\ UNCHANGED <<row, phone, user, rating, begun>>

\* d is a new row: no copy lists it.
Add(h, d) ==
    /\ At(h, "replace") /\ calls[h].docs = {}
    /\ d \notin docs /\ \A g \in Handlers : d \notin calls[g].docs
    /\ docs' = docs \union {d}
    /\ Overtake(h, Idle)
    /\ stale' = (stale \/ ~ calls[h].fresh)
    /\ UNCHANGED <<row, phone, user, rating, begun>>

-----------------------------------------------------------------------------
(* ReviewsService.create: the review, then the provider's rating.          *)

\* The completed jobs are those of a provider who was approved.
Review(h, j) ==
    /\ Begin(h)
    /\ row.status = "approved" \/ stale
    /\ j \notin reviews
    /\ Set(h, [Idle EXCEPT !.op = "review", !.at = "store", !.job = {j}])
    /\ UNCHANGED <<row, docs, phone, user, rating, stale>>

StoreTwice(h) ==                \* mutant: engagementId is not unique
    /\ At(h, "store")
    /\ Goto(h, "load") /\ reviews' = reviews \union calls[h].job
    /\ UNCHANGED <<row, docs, phone, user, dropped, begun, stale>>

\* engagementId is unique: the second of two reviews of a job fails.
Store(h) ==
    /\ At(h, "store")
    /\ \/ calls[h].job \subseteq reviews /\ Return(h) /\ UNCHANGED reviews
       \/ /\ ~ (calls[h].job \subseteq reviews)
          /\ Goto(h, "load") /\ reviews' = reviews \union calls[h].job
    /\ UNCHANGED <<row, docs, phone, user, dropped, begun, stale>>

\* An error or a crash ends a request between two of its steps, and an approve
\* that finds no user sends no mail.
Fail(h) ==
    /\ ~ At(h, "done") /\ Throw(h)
    /\ orphaned' = (orphaned \/
                      (calls[h].op = "submit" /\ calls[h].at \in Promoting))
    /\ UNCHANGED <<row, docs, phone, promoted, overwritten, mailed, reviews, begun,
                   stale>>

Next ==
    \/ \E h \in Handlers :
         \/ \E op \in Operations \ {"update", "verify", "review", "sign in"} :
                Open(h, op, Absent)
         \/ \E e \in Edits : Open(h, "update", e)
         \/ Create(h) \/ Load(h) \/ Compare(h) \/ Write(h)
         \/ Promote(h) \/ SignIn(h) \/ CompareUser(h) \/ WriteUser(h)
         \/ Mail(h) \/ SetCode(h) \/ EnterCode(h) \/ Consume(h)
         \/ Find(h) \/ \E d \in DocIds : Remove(h, d) \/ Add(h, d)
         \/ \E j \in Jobs : Review(h, j)
         \/ Store(h) \/ Fail(h)
    \/ Expire

Spec == Init /\ [][Next]_vars

-----------------------------------------------------------------------------
(* The rating counts no review twice, none that was not stored and none     *)
(* before its call saves it, however the calls that save the row overlap   *)
(* ("immutable reviews -> sum/count is exact", provider-profile.entity.ts):*)
(* what races can do is lose some.                                         *)
RatingNeverInflated == row # NoRow => row.count <= Cardinality(counted)

(* An application that is locked belongs to a user who has the provider    *)
(* role or is about to get it from the submit in progress, however the     *)
(* saves of the application overlap.  There are three ways to a locked     *)
(* application without the role: the submit dies or finds no user between  *)
(* its two saves, or another save of the user's row, which had loaded it   *)
(* before, takes the role away again.                                      *)
LockedIsPromoted ==
    row # NoRow /\ Locked(row) =>
        \/ promoted \/ orphaned \/ overwritten
        \/ \E h \in Handlers : calls[h].op = "submit" /\ calls[h].at \in Promoting

(* As long as no call has written over another's work, the row is sound:   *)
(* nothing incomplete is under review, a reason goes with a rejection, the *)
(* "verified" mail was for an approved one; the code of a verified phone   *)
(* number was entered, unless a code was entered after the number had been *)
(* changed; and of the stored reviews the rating lacks exactly those whose *)
(* call has still to save it or died before it did.                        *)
SoundUnlessStale == ~ stale => Sound

(* And then the application goes "draft -> submitted -> approved /         *)
(* rejected" (provider-status.enum.ts), back only from rejected.           *)
LifecycleUnlessStale ==
    [][~ stale' /\ row # NoRow /\ row'.status # row.status =>
         <<row.status, row'.status>> \in
            {<<"draft", "submitted">>, <<"rejected", "submitted">>,
             <<"submitted", "approved">>, <<"submitted", "rejected">>}]_vars
=============================================================================
