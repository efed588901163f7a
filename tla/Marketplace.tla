---------------------------- MODULE Marketplace -----------------------------
(***************************************************************************)
(* The matching core of the backend: a seeker broadcasts a request,        *)
(* providers offer on it, the seeker accepts one offer, and the engagement *)
(* that results locks both until the seeker completes it                   *)
(* (requests.service.ts and engagements.service.ts).                       *)
(*                                                                         *)
(* The service methods run no transaction that spans an await.  Each one   *)
(* is a handler h whose steps are single database or Redis statements, and *)
(* the steps of different handlers interleave freely.  What a handler read *)
(* before an await it keeps in call[h], and acts on later although the     *)
(* tables may have changed.                                                *)
(*                                                                         *)
(* Tables and keys are the variables: service_requests (status, past),     *)
(* service_request_responses (offers), the req-rejected:* sets of Redis    *)
(* (rejected), engagements (job, helper).  A unique index is a guard on    *)
(* the statements that write the table.                                    *)
(***************************************************************************)
EXTENDS Naturals

CONSTANTS
    Seekers,        \* user ids with the seeker role
    Providers,      \* user ids with the provider role
    Requests,       \* ids of service_requests rows, used or not yet used
    SeekerOf,       \* the seeker who creates the request with this id
    Handlers,       \* HTTP handlers that may be in flight at once
    Sweepers,       \* runs of the expiry sweep that may be in flight at once
    MayFail,        \* the handlers whose statements may throw
    None            \* no user, no request

Procs == Handlers \union Sweepers

ASSUME MarketplaceAssumption ==
    /\ SeekerOf \in [Requests -> Seekers]
    /\ None \notin Seekers \union Providers \union Requests
    /\ Handlers \intersect Sweepers = {}
    /\ MayFail \subseteq Procs

VARIABLES
    status,     \* service_requests.status, "none" while the id is unused
    past,       \* requests whose expiresAt has passed
    offers,     \* service_request_responses rows <<request, provider>>
    rejected,   \* <<request, provider>> in the provider's Redis set
    job,        \* engagements.status by requestId, "none" without a row
    helper,     \* engagements.providerId by requestId
    call        \* what each handler is doing and the values it has read

requestVars == <<status, past>>
offerVars   == <<offers, rejected>>
jobVars     == <<job, helper>>
vars        == <<status, past, offers, rejected, job, helper, call>>

Closed    == {"cancelled", "expired", "fulfilled"}
Status    == {"none", "open"} \union Closed
JobStatus == {"none", "active", "completed"}

Steps == {"idle", "createFind", "createInsert", "remove", "removeOffers",
          "respondRejected", "respondInsert", "rejectMark",
          "acceptOffer", "acceptSeeker", "acceptProvider", "acceptInsert",
          "fulfil", "fulfilOffers", "completeSave", "markReadSave"}

Call == [at   : Steps,                              \* the next statement
         op   : {"none", "create", "cancel", "sweep"},  \* caller of the remove loop
         user : Seekers \union {None},
         rq   : Requests \union {None},
         pv   : Providers \union {None},
         todo : SUBSET Requests,                    \* rows still to remove
         seen : JobStatus]                          \* engagement status read

Idle == [at |-> "idle", op |-> "none", user |-> None, rq |-> None,
         pv |-> None, todo |-> {}, seen |-> "none"]

TypeOK ==
    /\ status \in [Requests -> Status]
    /\ past \subseteq Requests
    /\ offers \subseteq Requests \X Providers
    /\ rejected \subseteq Requests \X Providers
    /\ job \in [Requests -> JobStatus]
    /\ helper \in [Requests -> Providers \union {None}]
    /\ call \in [Procs -> Call]

Init ==
    /\ status = [r \in Requests |-> "none"]
    /\ past = {}
    /\ offers = {}
    /\ rejected = {}
    /\ job = [r \in Requests |-> "none"]
    /\ helper = [r \in Requests |-> None]
    /\ call = [h \in Procs |-> Idle]

At(h, step)   == call[h].at = step
Become(h, c)  == call' = [call EXCEPT ![h] = c]
Goto(h, step) == Become(h, [call[h] EXCEPT !.at = step])
Return(h)     == Become(h, Idle)

OffersOn(r) == {o \in offers : o[1] = r}
RequestsBy(s, st) == {r \in Requests : SeekerOf[r] = s /\ status[r] = st}

\* engagements.count / findOne for an ACTIVE row of this user.
SeekerBusy(s)   == \E r \in Requests : job[r] = "active" /\ SeekerOf[r] = s
ProviderBusy(p) == \E r \in Requests : job[r] = "active" /\ helper[r] = p

-----------------------------------------------------------------------------
(* The unique indexes of the migrations, as guards on the writing          *)
(* statement: a write that would break one throws.                         *)

AnySeekerMayOpen(s) == TRUE                             \* mutant: no index
\* UQ_one_open_request_per_seeker
OpenIndexFree(s) == RequestsBy(s, "open") = {}

AnyRequestKey(r) == TRUE                                \* mutant: no index
\* UQ_engagement_request
RequestKeyFree(r) == job[r] = "none"

AnyActiveSeeker(r) == TRUE                              \* mutant: no index
\* UQ_active_engagement_seeker, for a row about to be active on request r
SeekerIndexFree(r) ==
    \A q \in Requests \ {r} : ~(job[q] = "active" /\ SeekerOf[q] = SeekerOf[r])

AnyActiveProvider(r, p) == TRUE                         \* mutant: no index
\* UQ_active_engagement_provider
ProviderIndexFree(r, p) ==
    \A q \in Requests \ {r} : ~(job[q] = "active" /\ helper[q] = p)

-----------------------------------------------------------------------------
(* RequestsService.create: busy check, supersede the open broadcasts one   *)
(* by one, insert.  No id left to use is the model's bound, not the code's.*)

CreateCheck(h, s) ==
    /\ At(h, "idle")
    /\ RequestsBy(s, "none") # {}
    /\ ~SeekerBusy(s)
    /\ Become(h, [Idle EXCEPT !.at = "createFind", !.op = "create", !.user = s])
    /\ UNCHANGED <<requestVars, offerVars, jobVars>>

CreateFind(h) ==
    /\ At(h, "createFind")
    /\ LET open == RequestsBy(call[h].user, "open") IN
       Become(h, [call[h] EXCEPT
                    !.at = IF open = {} THEN "createInsert" ELSE "remove",
                    !.todo = open])
    /\ UNCHANGED <<requestVars, offerVars, jobVars>>

CreateInsert(h, r) ==
    /\ At(h, "createInsert")
    /\ r \in RequestsBy(call[h].user, "none")
    /\ OpenIndexFree(call[h].user)
    /\ status' = [status EXCEPT ![r] = "open"]
    /\ Return(h)
    /\ UNCHANGED <<past, offerVars, jobVars>>

\* The insert throws: the seeker got another open request in the meantime.
CreateConflict(h) ==
    /\ At(h, "createInsert")
    /\ ~OpenIndexFree(call[h].user)
    /\ Return(h)
    /\ UNCHANGED <<requestVars, offerVars, jobVars>>

-----------------------------------------------------------------------------
(* RequestsService.cancel, the expiry sweep, and the loop over markRemoved *)
(* that create, cancel and the sweep share.  save() writes the loop's      *)
(* status whatever the row holds by now.                                   *)

Cancel(h, r) ==
    /\ At(h, "idle")
    /\ status[r] = "open"
    /\ Become(h, [Idle EXCEPT !.at = "remove", !.op = "cancel", !.todo = {r}])
    /\ UNCHANGED <<requestVars, offerVars, jobVars>>

\* Mutants: the sweep forgets the deadline, or skips requests with offers.
ExpiredIgnoringDeadline == {r \in Requests : status[r] = "open"}
ExpiredWithoutOffers ==
    {r \in Requests : status[r] = "open" /\ r \in past /\ OffersOn(r) = {}}
Expired == {r \in Requests : status[r] = "open" /\ r \in past}

SweepFind(w) ==
    /\ At(w, "idle")
    /\ Expired # {}
    /\ Become(w, [Idle EXCEPT !.at = "remove", !.op = "sweep", !.todo = Expired])
    /\ UNCHANGED <<requestVars, offerVars, jobVars>>

\* Mutant: the caller's name goes into the status column.
RemovedAsCaller(op) == op
RemovedAs(op) == IF op = "sweep" THEN "expired" ELSE "cancelled"

MarkRemoved(h, r) ==
    /\ At(h, "remove")
    /\ r \in call[h].todo
    /\ status' = [status EXCEPT ![r] = RemovedAs(call[h].op)]
    /\ Become(h, [call[h] EXCEPT !.at = "removeOffers", !.rq = r,
                                 !.todo = @ \ {r}])
    /\ UNCHANGED <<past, offerVars, jobVars>>

RemoveOffers(h) ==
    /\ At(h, "removeOffers")
    /\ offers' = offers \ OffersOn(call[h].rq)
    /\ \/ /\ call[h].todo # {}
          /\ Goto(h, "remove")
       \/ /\ call[h].todo = {}
          /\ call[h].op = "create"
          /\ Goto(h, "createInsert")
       \/ /\ call[h].todo = {}
          /\ call[h].op # "create"
          /\ Return(h)
    /\ UNCHANGED <<requestVars, rejected, jobVars>>

-----------------------------------------------------------------------------
(* The provider's side: respond and withdraw an offer.                     *)

Respond(h, r, p) ==
    /\ At(h, "idle")
    /\ status[r] = "open" /\ r \notin past
    /\ Become(h, [Idle EXCEPT !.at = "respondRejected", !.rq = r, !.pv = p])
    /\ UNCHANGED <<requestVars, offerVars, jobVars>>

\* SISMEMBER on the provider's rejected set.
RespondRejected(h) ==
    /\ At(h, "respondRejected")
    /\ IF <<call[h].rq, call[h].pv>> \in rejected
       THEN Return(h)
       ELSE Goto(h, "respondInsert")
    /\ UNCHANGED <<requestVars, offerVars, jobVars>>

\* Look for the provider's row and insert it when there is none.  A row that
\* appears in between makes the insert throw (unique request and provider), so
\* in every case the set of offers gains the pair or keeps it.
RespondInsert(h) ==
    /\ At(h, "respondInsert")
    /\ offers' = offers \union {<<call[h].rq, call[h].pv>>}
    /\ Return(h)
    /\ UNCHANGED <<requestVars, rejected, jobVars>>

\* One DELETE; the read that follows it only addresses a notification.
Withdraw(r, p) ==
    /\ <<r, p>> \in offers
    /\ offers' = offers \ {<<r, p>>}
    /\ UNCHANGED <<requestVars, rejected, jobVars, call>>

-----------------------------------------------------------------------------
(* The seeker's side: reject an offer, or accept it.                       *)

(* The seeker's page calls either for an offer that it shows, and that may *)
(* be long gone: neither handler starts with a look at the offers.         *)

\* The request is looked up for its owner only: its status is not checked, and
\* nothing that was looked up is used after the DELETE.
Reject(h, r, p) ==
    /\ At(h, "idle")
    /\ status[r] # "none"
    /\ offers' = offers \ {<<r, p>>}
    /\ Become(h, [Idle EXCEPT !.at = "rejectMark", !.rq = r, !.pv = p])
    /\ UNCHANGED <<requestVars, rejected, jobVars>>

\* SADD; the key outlives the request (7200 s against 30 min).
RejectMark(h) ==
    /\ At(h, "rejectMark")
    /\ rejected' = rejected \union {<<call[h].rq, call[h].pv>>}
    /\ Return(h)
    /\ UNCHANGED <<requestVars, offers, jobVars>>

\* Mutant: only the deadline is looked at.
AcceptClosed(h, r, p) ==
    /\ At(h, "idle")
    /\ r \notin past
    /\ Become(h, [Idle EXCEPT !.at = "acceptOffer", !.rq = r, !.pv = p])
    /\ UNCHANGED <<requestVars, offerVars, jobVars>>
Accept(h, r, p) ==
    /\ At(h, "idle")
    /\ status[r] = "open" /\ r \notin past
    /\ Become(h, [Idle EXCEPT !.at = "acceptOffer", !.rq = r, !.pv = p])
    /\ UNCHANGED <<requestVars, offerVars, jobVars>>

\* The checks of accept, each a query of its own: go on to the next step, or
\* answer 400.
Check(h, from, ok, to) ==
    /\ At(h, from)
    /\ IF ok THEN Goto(h, to) ELSE Return(h)
    /\ UNCHANGED <<requestVars, offerVars, jobVars>>

AcceptOffer(h) ==
    Check(h, "acceptOffer", <<call[h].rq, call[h].pv>> \in offers, "acceptSeeker")
AcceptSeeker(h) ==
    Check(h, "acceptSeeker", ~SeekerBusy(SeekerOf[call[h].rq]), "acceptProvider")
\* Mutant: the request is marked fulfilled without the insert.
AcceptWithoutInsert(h) ==
    Check(h, "acceptProvider", ~ProviderBusy(call[h].pv), "fulfil")
AcceptProvider(h) ==
    Check(h, "acceptProvider", ~ProviderBusy(call[h].pv), "acceptInsert")

AcceptInsert(h) ==
    LET r == call[h].rq
        p == call[h].pv
    IN  /\ At(h, "acceptInsert")
        /\ IF RequestKeyFree(r) /\ SeekerIndexFree(r) /\ ProviderIndexFree(r, p)
           THEN /\ job' = [job EXCEPT ![r] = "active"]
                /\ helper' = [helper EXCEPT ![r] = p]
                /\ Goto(h, "fulfil")
           ELSE /\ Return(h)
                /\ UNCHANGED jobVars
        /\ UNCHANGED <<requestVars, offerVars>>

\* Mutant: the status is not saved.
FulfilUnsaved(h) ==
    /\ At(h, "fulfil")
    /\ Goto(h, "fulfilOffers")
    /\ UNCHANGED <<requestVars, offerVars, jobVars>>
\* markFulfilled: the row is re-read, but its status is not checked.
Fulfil(h) ==
    /\ At(h, "fulfil")
    /\ status' = [status EXCEPT ![call[h].rq] = "fulfilled"]
    /\ Goto(h, "fulfilOffers")
    /\ UNCHANGED <<past, offerVars, jobVars>>

FulfilOffers(h) ==
    /\ At(h, "fulfilOffers")
    /\ offers' = offers \ OffersOn(call[h].rq)
    /\ Return(h)
    /\ UNCHANGED <<requestVars, rejected, jobVars>>

-----------------------------------------------------------------------------
(* The engagement: complete, and markRead, which loads the whole row and   *)
(* saves it back with a new read time.  save() compares the loaded copy    *)
(* with the row and writes every column that differs, so the status that   *)
(* was read is written back too.                                           *)

Complete(h, r) ==
    /\ At(h, "idle")
    /\ job[r] = "active"
    /\ Become(h, [Idle EXCEPT !.at = "completeSave", !.rq = r])
    /\ UNCHANGED <<requestVars, offerVars, jobVars>>

CompleteSave(h) ==
    /\ At(h, "completeSave")
    /\ job' = [job EXCEPT ![call[h].rq] = "completed"]
    /\ Return(h)
    /\ UNCHANGED <<requestVars, offerVars, helper>>

MarkRead(h, r) ==
    /\ At(h, "idle")
    /\ job[r] # "none"
    /\ Become(h, [Idle EXCEPT !.at = "markReadSave", !.rq = r, !.seen = job[r]])
    /\ UNCHANGED <<requestVars, offerVars, jobVars>>

MarkReadSave(h) ==
    LET r == call[h].rq IN
    /\ At(h, "markReadSave")
    /\ \/ /\ call[h].seen = "active" =>
               SeekerIndexFree(r) /\ ProviderIndexFree(r, helper[r])
          /\ job' = [job EXCEPT ![r] = call[h].seen]
       \/ /\ call[h].seen = "active"
          /\ ~(SeekerIndexFree(r) /\ ProviderIndexFree(r, helper[r]))
          /\ UNCHANGED job                              \* the save throws
    /\ Return(h)
    /\ UNCHANGED <<requestVars, offerVars, helper>>

-----------------------------------------------------------------------------
\* The clock passes expiresAt.  Only open requests look at it.
PassDeadline(r) ==
    /\ status[r] = "open" /\ r \notin past
    /\ past' = past \union {r}
    /\ UNCHANGED <<status, offerVars, jobVars, call>>

\* A statement throws, or the process dies: the handler ends where it is and
\* nothing it has written is undone.
Fail(h) ==
    /\ h \in MayFail
    /\ ~At(h, "idle")
    /\ Return(h)
    /\ UNCHANGED <<requestVars, offerVars, jobVars>>

Begin(h) ==
    \/ \E s \in Seekers : CreateCheck(h, s)
    \/ \E r \in Requests :
         \/ Cancel(h, r)
         \/ Complete(h, r)
         \/ MarkRead(h, r)
         \/ \E p \in Providers : \/ Respond(h, r, p)
                                 \/ Reject(h, r, p)
                                 \/ Accept(h, r, p)

Continue(h) ==
    \/ CreateFind(h) \/ CreateConflict(h)
    \/ \E r \in Requests : CreateInsert(h, r) \/ MarkRemoved(h, r)
    \/ RemoveOffers(h)
    \/ RespondRejected(h) \/ RespondInsert(h)
    \/ RejectMark(h)
    \/ AcceptOffer(h) \/ AcceptSeeker(h) \/ AcceptProvider(h) \/ AcceptInsert(h)
    \/ Fulfil(h) \/ FulfilOffers(h)
    \/ CompleteSave(h) \/ MarkReadSave(h)

Next ==
    \/ \E h \in Handlers : Begin(h)
    \/ \E w \in Sweepers : SweepFind(w)
    \/ \E h \in Procs : Continue(h) \/ Fail(h)
    \/ \E r \in Requests, p \in Providers : Withdraw(r, p)
    \/ \E r \in Requests : PassDeadline(r)

Spec == Init /\ [][Next]_vars

\* The clock moves and the sweep's timer fires.  A sweep whose statement throws
\* is retried by the next one; the database is not down for ever, hence SF.
Fairness ==
    /\ \A r \in Requests : WF_vars(PassDeadline(r))
    /\ \A w \in Sweepers :
         /\ WF_vars(SweepFind(w))
         /\ SF_vars(\E r \in Requests : MarkRemoved(w, r))
         /\ WF_vars(RemoveOffers(w))

FairSpec == Spec /\ Fairness

-----------------------------------------------------------------------------
(* Safety.                                                                 *)

(* A seeker never has two open broadcasts, although create reads the open  *)
(* ones, closes them one by one and inserts with awaits in between         *)
(* (requests.service.ts, create; the migration's "at most one OPEN").      *)
OneOpenPerSeeker ==
    \A q, r \in Requests :
        status[q] = "open" /\ status[r] = "open" /\ SeekerOf[q] = SeekerOf[r]
            => q = r

(* A seeker is in one active job at most: neither two accepts that both    *)
(* passed the hasActive checks, nor a markRead that writes an old ACTIVE   *)
(* back after the seeker has started another job, makes a second one.      *)
OneJobPerSeeker ==
    \A q, r \in Requests :
        job[q] = "active" /\ job[r] = "active" /\ SeekerOf[q] = SeekerOf[r]
            => q = r

(* A provider is in one active job at most, although two seekers may       *)
(* accept the same provider at once.                                       *)
OneJobPerProvider ==
    \A q, r \in Requests :
        job[q] = "active" /\ job[r] = "active" /\ helper[q] = helper[r]
            => q = r

(* A fulfilled request has an engagement: accept, which reads the request  *)
(* long before it writes it, never closes a request it did not win.        *)
FulfilledHasJob ==
    \A r \in Requests : status[r] = "fulfilled" => job[r] # "none"

(* Only a request whose time is up is ever marked expired, by a sweep that *)
(* acts on a list it read earlier.                                         *)
ExpiredOnlyPastDeadline ==
    \A r \in Requests : status[r] = "expired" => r \in past

(* While no handler fails, a request that has an engagement and is still   *)
(* open has its accept in flight, about to mark it fulfilled: markFulfilled*)
(* and the closing handlers it races leave no accepted request open.       *)
OpenJobIsBeingFulfilled ==
    MayFail = {} =>
        \A r \in Requests :
            job[r] # "none" /\ status[r] = "open" =>
                \E h \in Procs : At(h, "fulfil") /\ call[h].rq = r

(* The provider of an engagement never changes: of two accepts of one      *)
(* request for different providers, the late one never takes it over, even *)
(* after the first job is done (engagements.service.ts, accept).           *)
HelperIsFixed ==
    [][\A r \in Requests : helper[r] # None => helper'[r] = helper[r]]_vars

(* What a closed request leaves behind makes no job: an offer inserted by  *)
(* a respond that had checked the request before it was closed, or left by *)
(* a crash between the two writes of markRemoved, is never accepted any    *)
(* more, not by an accept that is retried and not by one of another device.*)
Accepting == {"acceptOffer", "acceptSeeker", "acceptProvider", "acceptInsert",
              "fulfil", "fulfilOffers"}
Abandoned(r) ==
    /\ status[r] \in {"cancelled", "expired"} /\ job[r] = "none"
    /\ ~ \E h \in Procs : call[h].at \in Accepting /\ call[h].rq = r
LeftoversAreInert ==
    [][\A r \in Requests : Abandoned(r) => Abandoned(r)']_vars

(* The engagements implement the exclusive lock of JobLock: whatever the   *)
(* handlers do, each step takes one free pair, frees one pair or neither.  *)
ActiveJobs == {r \in Requests : job[r] = "active"}
Held == {<<SeekerOf[r], helper[r]>> : r \in ActiveJobs}
Lock == INSTANCE JobLock WITH held <- Held
LockSpec == Lock!Spec

-----------------------------------------------------------------------------
(* Liveness.                                                               *)

(* Every broadcast ends: an open request is closed by somebody, at the     *)
(* latest by the sweep after its deadline, even if handlers die and sweeps *)
(* abort in the middle (requests.service.ts, sweepExpired).                *)
OpenRequestCloses ==
    \A r \in Requests : status[r] = "open" ~> status[r] # "open"

-----------------------------------------------------------------------------
(* What a screen says and the interleavings break.                         *)

(* "Mark job as done? This ... frees you both. It can't be undone."        *)
(* (engagement-bar.tsx): a completed engagement stays completed.           *)
CompletedStaysCompleted ==
    [][\A r \in Requests : job[r] = "completed" => job'[r] = "completed"]_vars
=============================================================================
