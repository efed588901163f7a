------------------------- MODULE MarketplaceProofs --------------------------
(***************************************************************************)
(* Theorems about Marketplace for every number of seekers, providers,      *)
(* requests, handlers and sweeps.  The only assumption is                  *)
(* MarketplaceAssumption.                                                  *)
(*                                                                         *)
(* Most steps write neither service_requests nor engagements: they only    *)
(* replace one handler's call, and KeepsTables settles them all.  The      *)
(* statements that do write those tables have a lemma each.                *)
(***************************************************************************)
EXTENDS Marketplace, TLAPS

(* What a handler may rely on when it resumes, from what it checked before *)
(* its awaits: the values it carries are of the right kind, and the facts  *)
(* that no other handler can undo still hold.                              *)
CallOK(c) ==
    /\ c.op = "create" => c.user \in Seekers
    /\ c.at \in {"createFind", "createInsert"} => c.op = "create"
    /\ c.op = "sweep" => c.todo \subseteq past
    /\ c.at \in {"respondRejected", "respondInsert", "rejectMark", "acceptOffer",
                 "acceptSeeker", "acceptProvider", "acceptInsert"}
           => c.rq \in Requests /\ c.pv \in Providers
    /\ c.at \in {"acceptOffer", "acceptSeeker", "acceptProvider", "acceptInsert"}
           => status[c.rq] # "none"
    /\ c.at \in {"removeOffers", "fulfil", "fulfilOffers", "completeSave",
                 "markReadSave"} => c.rq \in Requests
    /\ c.at \in {"fulfil", "completeSave", "markReadSave"} => job[c.rq] # "none"
    /\ c.at = "markReadSave" => c.seen # "none"

CallsOK == \A h \in Procs : CallOK(call[h])

\* An engagement has a provider, and belongs to a request that was posted.
JobOK == \A r \in Requests :
    /\ job[r] # "none" => helper[r] \in Providers /\ status[r] # "none"
    /\ job[r] = "none" => helper[r] = None

(* The inductive invariant.                                                *)
IInv ==
    /\ TypeOK
    /\ CallsOK
    /\ JobOK
    /\ OneOpenPerSeeker
    /\ OneJobPerSeeker
    /\ OneJobPerProvider
    /\ FulfilledHasJob
    /\ ExpiredOnlyPastDeadline
    /\ OpenJobIsBeingFulfilled

-----------------------------------------------------------------------------
LEMMA IdleIsCall == Idle \in Call
BY DEF Idle, Call, Steps, JobStatus

LEMMA IdleOK == CallOK(Idle)
BY DEF Idle, CallOK

(* The tables only grow more definite, so what the other handlers rely on  *)
(* survives the step of h.                                                 *)
LEMMA CallsKept ==
    ASSUME TypeOK, CallsOK, NEW h \in Procs, NEW c \in Call, CallOK(c)',
           call' = [call EXCEPT ![h] = c],
           past \subseteq past',
           \A q \in Requests : /\ status[q] # "none" => status'[q] # "none"
                               /\ job[q] # "none" => job'[q] # "none"
    PROVE  CallsOK' /\ call' \in [Procs -> Call]
<1>1. call' \in [Procs -> Call]
  BY DEF TypeOK
<1>2. ASSUME NEW g \in Procs PROVE CallOK(call[g])'
  <2>1. CASE g = h
    <3>1. call'[g] = c
      BY <2>1 DEF TypeOK
    <3>2. QED
      BY <3>1 DEF CallOK
  <2>2. CASE g # h
    <3>1. call'[g] = call[g] /\ CallOK(call[g])
      BY <2>2 DEF TypeOK, CallsOK
    <3>2. QED
      BY <3>1 DEF CallOK
  <2>3. QED BY <2>1, <2>2
<1>3. QED BY <1>1, <1>2 DEF CallsOK

(* A step that writes only offers and one handler's call keeps IInv.       *)
LEMMA KeepsTables ==
    ASSUME IInv, NEW h \in Procs, NEW c \in Call, CallOK(c),
           call' = [call EXCEPT ![h] = c],
           At(h, "fulfil") => h \in MayFail,
           offers' \subseteq Requests \X Providers,
           rejected' \subseteq Requests \X Providers,
           UNCHANGED <<status, past, job, helper>>
    PROVE  IInv'
<1>1. CallOK(c)'
  BY DEF CallOK
<1>2. CallsOK' /\ call' \in [Procs -> Call]
  BY <1>1, CallsKept DEF IInv
<1>3. TypeOK'
  BY <1>2 DEF IInv, TypeOK
<1>4. OpenJobIsBeingFulfilled'
  <2>1. SUFFICES ASSUME MayFail = {}, NEW r \in Requests,
                        job[r] # "none", status[r] = "open"
                 PROVE  \E g \in Procs : call'[g].at = "fulfil" /\ call'[g].rq = r
    BY DEF OpenJobIsBeingFulfilled, At
  <2>2. PICK g \in Procs : call[g].at = "fulfil" /\ call[g].rq = r
    BY <2>1 DEF IInv, OpenJobIsBeingFulfilled, At
  <2>3. g # h
    BY <2>1, <2>2 DEF At
  <2>4. call'[g] = call[g]
    BY <2>3 DEF IInv, TypeOK
  <2>5. QED BY <2>2, <2>4
<1>5. /\ JobOK' /\ OneOpenPerSeeker' /\ OneJobPerSeeker' /\ OneJobPerProvider'
      /\ FulfilledHasJob' /\ ExpiredOnlyPastDeadline'
  BY DEF IInv, JobOK, OneOpenPerSeeker, OneJobPerSeeker, OneJobPerProvider,
         FulfilledHasJob, ExpiredOnlyPastDeadline
<1>6. QED BY <1>2, <1>3, <1>4, <1>5 DEF IInv

-----------------------------------------------------------------------------
(* The statements that write service_requests.                             *)

LEMMA CreateInsertStep ==
    ASSUME IInv, NEW h \in Procs, NEW r \in Requests, CreateInsert(h, r)
    PROVE  IInv'
<1> USE MarketplaceAssumption
<1>1. /\ status[r] = "none" /\ SeekerOf[r] = call[h].user
      /\ status' = [status EXCEPT ![r] = "open"]
      /\ call' = [call EXCEPT ![h] = Idle]
      /\ \A q \in Requests : SeekerOf[q] = SeekerOf[r] => status[q] # "open"
      /\ UNCHANGED <<past, offers, rejected, job, helper>>
  BY DEF CreateInsert, RequestsBy, OpenIndexFree, Return, Become, offerVars, jobVars
<1>2. job[r] = "none"
  BY <1>1 DEF IInv, JobOK
<1>3. CallOK(Idle)'
  BY DEF Idle, CallOK
<1>4. CallsOK' /\ call' \in [Procs -> Call]
  BY <1>1, <1>3, IdleIsCall, CallsKept DEF IInv, TypeOK
<1>5. TypeOK'
  BY <1>1, <1>4 DEF IInv, TypeOK, Status
<1>6. OneOpenPerSeeker'
  BY <1>1 DEF IInv, TypeOK, OneOpenPerSeeker
<1>7. JobOK' /\ FulfilledHasJob' /\ ExpiredOnlyPastDeadline'
  BY <1>1 DEF IInv, TypeOK, JobOK, FulfilledHasJob, ExpiredOnlyPastDeadline
<1>8. OneJobPerSeeker' /\ OneJobPerProvider'
  BY <1>1 DEF IInv, OneJobPerSeeker, OneJobPerProvider
<1>9. OpenJobIsBeingFulfilled'
  <2>1. SUFFICES ASSUME MayFail = {}, NEW q \in Requests,
                        job[q] # "none", status'[q] = "open"
                 PROVE  \E g \in Procs : call'[g].at = "fulfil" /\ call'[g].rq = q
    BY <1>1 DEF OpenJobIsBeingFulfilled, At
  <2>2. status[q] = "open"
    BY <1>1, <1>2, <2>1 DEF IInv, TypeOK
  <2>3. PICK g \in Procs : call[g].at = "fulfil" /\ call[g].rq = q
    BY <2>1, <2>2 DEF IInv, OpenJobIsBeingFulfilled, At
  <2>4. g # h
    BY <2>3 DEF CreateInsert, At
  <2>5. call'[g] = call[g]
    BY <1>1, <2>4 DEF IInv, TypeOK
  <2>6. QED BY <2>3, <2>5
<1>10. QED BY <1>4, <1>5, <1>6, <1>7, <1>8, <1>9 DEF IInv

(* markRemoved and markFulfilled close a request: what each conjunct needs *)
(* of the new status st is that it is not "open", that "fulfilled" has an  *)
(* engagement and "expired" a deadline behind it.                          *)
LEMMA CloseStep ==
    ASSUME IInv, NEW h \in Procs, NEW c \in Call, NEW r \in Requests,
           NEW st \in Closed, CallOK(c),
           At(h, "fulfil") => call[h].rq = r,
           st = "fulfilled" => job[r] # "none",
           st = "expired" => r \in past,
           status' = [status EXCEPT ![r] = st],
           call' = [call EXCEPT ![h] = c],
           UNCHANGED <<past, offers, rejected, job, helper>>
    PROVE  IInv'
<1>1. st # "none" /\ st # "open"
  BY DEF Closed
<1>2. \A q \in Requests : status[q] # "none" => status'[q] # "none"
  BY <1>1 DEF IInv, TypeOK
<1>3. CallOK(c)'
  BY <1>2 DEF CallOK
<1>4. CallsOK' /\ call' \in [Procs -> Call]
  BY <1>2, <1>3, CallsKept DEF IInv
<1>5. TypeOK'
  BY <1>4 DEF IInv, TypeOK, Status
<1>6. OneOpenPerSeeker' /\ JobOK'
  BY <1>1, <1>2 DEF IInv, TypeOK, OneOpenPerSeeker, JobOK
<1>7. FulfilledHasJob' /\ ExpiredOnlyPastDeadline'
  BY DEF IInv, TypeOK, FulfilledHasJob, ExpiredOnlyPastDeadline
<1>8. OneJobPerSeeker' /\ OneJobPerProvider'
  BY DEF IInv, OneJobPerSeeker, OneJobPerProvider
<1>9. OpenJobIsBeingFulfilled'
  <2>1. SUFFICES ASSUME MayFail = {}, NEW q \in Requests,
                        job[q] # "none", status'[q] = "open"
                 PROVE  \E g \in Procs : call'[g].at = "fulfil" /\ call'[g].rq = q
    BY DEF OpenJobIsBeingFulfilled, At
  <2>2. status[q] = "open" /\ q # r
    BY <1>1, <2>1 DEF IInv, TypeOK
  <2>3. PICK g \in Procs : call[g].at = "fulfil" /\ call[g].rq = q
    BY <2>1, <2>2 DEF IInv, OpenJobIsBeingFulfilled, At
  <2>4. g # h
    BY <2>2, <2>3 DEF At
  <2>5. call'[g] = call[g]
    BY <2>4 DEF IInv, TypeOK
  <2>6. QED BY <2>3, <2>5
<1>10. QED BY <1>4, <1>5, <1>6, <1>7, <1>8, <1>9 DEF IInv

LEMMA MarkRemovedStep ==
    ASSUME IInv, NEW h \in Procs, NEW r \in Requests, MarkRemoved(h, r)
    PROVE  IInv'
<1>1. call[h] \in Call /\ CallOK(call[h]) /\ r \in call[h].todo
  BY DEF IInv, TypeOK, CallsOK, MarkRemoved
<1>2. PICK c \in Call :
        /\ c = [call[h] EXCEPT !.at = "removeOffers", !.rq = r, !.todo = @ \ {r}]
        /\ call' = [call EXCEPT ![h] = c]
  BY <1>1 DEF MarkRemoved, Become, Call, Steps
<1>3. CallOK(c)
  BY <1>1, <1>2 DEF CallOK, Call
<1>4. PICK st \in Closed : st = RemovedAs(call[h].op)
  BY DEF RemovedAs, Closed
<1>5. st # "fulfilled" /\ (st = "expired" => r \in past)
  BY <1>1, <1>4 DEF RemovedAs, CallOK
<1>6. /\ status' = [status EXCEPT ![r] = st]
      /\ ~At(h, "fulfil")
      /\ UNCHANGED <<past, offers, rejected, job, helper>>
  BY <1>4 DEF MarkRemoved, At, offerVars, jobVars
<1>7. QED BY <1>2, <1>3, <1>5, <1>6, CloseStep

LEMMA FulfilStep ==
    ASSUME IInv, NEW h \in Procs, Fulfil(h)
    PROVE  IInv'
<1>1. call[h] \in Call /\ CallOK(call[h]) /\ call[h].at = "fulfil"
  BY DEF IInv, TypeOK, CallsOK, Fulfil, At
<1>2. PICK r \in Requests : r = call[h].rq /\ job[r] # "none"
  BY <1>1 DEF CallOK
<1>3. PICK c \in Call : /\ c = [call[h] EXCEPT !.at = "fulfilOffers"]
                        /\ call' = [call EXCEPT ![h] = c]
  BY <1>1 DEF Fulfil, Goto, Become, Call, Steps
<1>4. CallOK(c)
  BY <1>1, <1>2, <1>3 DEF CallOK, Call
<1>5. /\ status' = [status EXCEPT ![r] = "fulfilled"]
      /\ "fulfilled" \in Closed
      /\ UNCHANGED <<past, offers, rejected, job, helper>>
  BY <1>2 DEF Fulfil, offerVars, jobVars, Closed
<1>6. QED BY <1>2, <1>3, <1>4, <1>5, CloseStep

-----------------------------------------------------------------------------
(* The statements that write engagements.                                  *)

LEMMA AcceptInsertStep ==
    ASSUME IInv, NEW h \in Procs, AcceptInsert(h)
    PROVE  IInv'
<1> USE MarketplaceAssumption
<1>1. /\ call[h] \in Call /\ CallOK(call[h]) /\ call[h].at = "acceptInsert"
      /\ UNCHANGED <<status, past, offers, rejected>>
  BY DEF IInv, TypeOK, CallsOK, AcceptInsert, At, requestVars, offerVars
<1>2. PICK r \in Requests, p \in Providers :
        r = call[h].rq /\ p = call[h].pv /\ status[r] # "none"
  BY <1>1 DEF CallOK
<1>3. CASE ~(RequestKeyFree(r) /\ SeekerIndexFree(r) /\ ProviderIndexFree(r, p))
  <2>1. call' = [call EXCEPT ![h] = Idle] /\ UNCHANGED <<job, helper>>
    BY <1>2, <1>3 DEF AcceptInsert, Return, Become, jobVars
  <2>2. QED
    BY <1>1, <2>1, IdleIsCall, IdleOK, KeepsTables DEF IInv, TypeOK, At
<1>4. CASE RequestKeyFree(r) /\ SeekerIndexFree(r) /\ ProviderIndexFree(r, p)
  <2>1. /\ job[r] = "none"
        /\ \A q \in Requests \ {r} : job[q] = "active" =>
              SeekerOf[q] # SeekerOf[r] /\ helper[q] # p
        /\ job' = [job EXCEPT ![r] = "active"]
        /\ helper' = [helper EXCEPT ![r] = p]
    BY <1>2, <1>4 DEF AcceptInsert, RequestKeyFree, SeekerIndexFree, ProviderIndexFree
  <2>2. PICK c \in Call : /\ c = [call[h] EXCEPT !.at = "fulfil"]
                          /\ call' = [call EXCEPT ![h] = c]
    BY <1>1, <1>2, <1>4 DEF AcceptInsert, Goto, Become, Call, Steps
  <2>3. \A q \in Requests : /\ job[q] # "none" => job'[q] # "none"
                            /\ status[q] # "none" => status'[q] # "none"
    BY <1>1, <2>1 DEF IInv, TypeOK
  <2>4. CallOK(c)'
    BY <1>1, <1>2, <2>1, <2>2 DEF CallOK, Call, IInv, TypeOK
  <2>5. CallsOK' /\ call' \in [Procs -> Call]
    BY <1>1, <2>2, <2>3, <2>4, CallsKept DEF IInv
  <2>6. TypeOK'
    BY <1>1, <2>1, <2>5 DEF IInv, TypeOK, JobStatus
  <2>7. JobOK'
    BY <1>1, <1>2, <2>1 DEF IInv, TypeOK, JobOK
  <2>8. OneJobPerSeeker' /\ OneJobPerProvider'
    BY <2>1 DEF IInv, TypeOK, OneJobPerSeeker, OneJobPerProvider
  <2>9. OneOpenPerSeeker' /\ FulfilledHasJob' /\ ExpiredOnlyPastDeadline'
    BY <1>1, <2>3 DEF IInv, OneOpenPerSeeker, FulfilledHasJob, ExpiredOnlyPastDeadline
  <2>10. OpenJobIsBeingFulfilled'
    <3>1. SUFFICES ASSUME MayFail = {}, NEW q \in Requests,
                          job'[q] # "none", status[q] = "open"
                   PROVE  \E g \in Procs : call'[g].at = "fulfil" /\ call'[g].rq = q
      BY <1>1 DEF OpenJobIsBeingFulfilled, At
    <3>2. CASE q = r
      <4>1. call'[h].at = "fulfil" /\ call'[h].rq = q
        BY <1>1, <1>2, <2>2, <3>2 DEF IInv, TypeOK, Call
      <4>2. QED BY <4>1
    <3>3. CASE q # r
      <4>1. PICK g \in Procs : call[g].at = "fulfil" /\ call[g].rq = q
        BY <2>1, <3>1, <3>3 DEF IInv, TypeOK, OpenJobIsBeingFulfilled, At
      <4>2. g # h
        BY <1>1, <4>1 DEF Procs
      <4>3. call'[g] = call[g]
        BY <2>2, <4>2 DEF IInv, TypeOK
      <4>4. QED BY <4>1, <4>3
    <3>4. QED BY <3>2, <3>3
  <2>11. QED BY <2>5, <2>6, <2>7, <2>8, <2>9, <2>10 DEF IInv
<1>5. QED BY <1>3, <1>4

(* complete and markRead write a status st to the row of a request r that  *)
(* has one; if st is "active", the unique indexes let it pass.             *)
LEMMA SaveJobStep ==
    ASSUME IInv, NEW h \in Procs, NEW r \in Requests, NEW st \in {"active", "completed"},
           ~At(h, "fulfil"), job[r] # "none",
           st = "active" => SeekerIndexFree(r) /\ ProviderIndexFree(r, helper[r]),
           job' = [job EXCEPT ![r] = st],
           call' = [call EXCEPT ![h] = Idle],
           UNCHANGED <<status, past, offers, rejected, helper>>
    PROVE  IInv'
<1>1. \A q \in Requests : /\ job[q] # "none" <=> job'[q] # "none"
                          /\ status[q] # "none" => status'[q] # "none"
  BY DEF IInv, TypeOK
<1>2. CallOK(Idle)'
  BY DEF CallOK, Idle
<1>3. CallsOK' /\ call' \in [Procs -> Call]
  BY <1>1, <1>2, IdleIsCall, CallsKept DEF IInv
<1>4. TypeOK'
  BY <1>3 DEF IInv, TypeOK, JobStatus
<1>5. OneJobPerSeeker' /\ OneJobPerProvider'
  BY DEF IInv, TypeOK, OneJobPerSeeker, OneJobPerProvider, SeekerIndexFree,
         ProviderIndexFree
<1>6. JobOK' /\ OneOpenPerSeeker' /\ FulfilledHasJob' /\ ExpiredOnlyPastDeadline'
  BY <1>1 DEF IInv, TypeOK, JobOK, OneOpenPerSeeker, FulfilledHasJob,
              ExpiredOnlyPastDeadline
<1>7. OpenJobIsBeingFulfilled'
  <2>1. SUFFICES ASSUME MayFail = {}, NEW q \in Requests,
                        job'[q] # "none", status[q] = "open"
                 PROVE  \E g \in Procs : call'[g].at = "fulfil" /\ call'[g].rq = q
    BY DEF OpenJobIsBeingFulfilled, At
  <2>2. PICK g \in Procs : call[g].at = "fulfil" /\ call[g].rq = q
    BY <1>1, <2>1 DEF IInv, OpenJobIsBeingFulfilled, At
  <2>3. call'[g] = call[g]
    BY <2>2 DEF IInv, TypeOK, At
  <2>4. QED BY <2>2, <2>3
<1>8. QED BY <1>3, <1>4, <1>5, <1>6, <1>7 DEF IInv

LEMMA CompleteSaveStep ==
    ASSUME IInv, NEW h \in Procs, CompleteSave(h)
    PROVE  IInv'
<1>1. PICK r \in Requests : r = call[h].rq /\ job[r] # "none"
  BY DEF IInv, CallsOK, CallOK, CompleteSave, At
<1>2. /\ job' = [job EXCEPT ![r] = "completed"]
      /\ call' = [call EXCEPT ![h] = Idle]
      /\ ~At(h, "fulfil")
      /\ UNCHANGED <<status, past, offers, rejected, helper>>
  BY <1>1 DEF CompleteSave, Return, Become, At, requestVars, offerVars
<1>3. QED BY <1>1, <1>2, SaveJobStep

LEMMA MarkReadSaveStep ==
    ASSUME IInv, NEW h \in Procs, MarkReadSave(h)
    PROVE  IInv'
<1>1. call[h] \in Call /\ CallOK(call[h]) /\ call[h].at = "markReadSave"
  BY DEF IInv, TypeOK, CallsOK, MarkReadSave, At
<1>2. PICK r \in Requests : r = call[h].rq /\ job[r] # "none"
  BY <1>1 DEF CallOK
<1>3. PICK st \in {"active", "completed"} : st = call[h].seen
  BY <1>1 DEF CallOK, Call, JobStatus
<1>4. /\ call' = [call EXCEPT ![h] = Idle]
      /\ ~At(h, "fulfil")
      /\ UNCHANGED <<status, past, offers, rejected, helper>>
  BY <1>1 DEF MarkReadSave, Return, Become, At, requestVars, offerVars
<1>5. CASE UNCHANGED job
  BY <1>4, <1>5, IdleIsCall, IdleOK, KeepsTables DEF IInv, TypeOK
<1>6. CASE /\ st = "active" => SeekerIndexFree(r) /\ ProviderIndexFree(r, helper[r])
           /\ job' = [job EXCEPT ![r] = st]
  BY <1>2, <1>4, <1>6, SaveJobStep
<1>7. QED
  BY <1>2, <1>3, <1>5, <1>6 DEF MarkReadSave

LEMMA PassDeadlineStep ==
    ASSUME IInv, NEW r \in Requests, PassDeadline(r)
    PROVE  IInv'
<1>1. past \subseteq past' /\ past' \subseteq Requests
  BY DEF PassDeadline, IInv, TypeOK
<1>2. UNCHANGED <<status, offers, rejected, job, helper, call>>
  BY DEF PassDeadline, offerVars, jobVars
<1>3. CallsOK'
  BY <1>1, <1>2 DEF IInv, CallsOK, CallOK
<1>4. TypeOK' /\ ExpiredOnlyPastDeadline'
  BY <1>1, <1>2 DEF IInv, TypeOK, ExpiredOnlyPastDeadline
<1>5. OpenJobIsBeingFulfilled'
  BY <1>2 DEF IInv, OpenJobIsBeingFulfilled, At
<1>6. JobOK' /\ OneOpenPerSeeker' /\ OneJobPerSeeker' /\ OneJobPerProvider' /\ FulfilledHasJob'
  BY <1>2 DEF IInv, JobOK, OneOpenPerSeeker, OneJobPerSeeker, OneJobPerProvider,
              FulfilledHasJob
<1>7. QED BY <1>3, <1>4, <1>5, <1>6 DEF IInv

-----------------------------------------------------------------------------
(* The other steps.                                                        *)

\* The step writes nothing but offers, rejected sets and the call of h.
CallOnly(h) ==
    /\ \E c \in Call : CallOK(c) /\ call' = [call EXCEPT ![h] = c]
    /\ offers' \subseteq Requests \X Providers
    /\ rejected' \subseteq Requests \X Providers
    /\ UNCHANGED <<status, past, job, helper>>

LEMMA CallOnlyStep ==
    ASSUME IInv, NEW h \in Procs, CallOnly(h), At(h, "fulfil") => h \in MayFail
    PROVE  IInv'
<1>1. PICK c \in Call : CallOK(c) /\ call' = [call EXCEPT ![h] = c]
  BY DEF CallOnly
<1>2. QED BY <1>1, KeepsTables DEF CallOnly

LEMMA ReturnIsCallOnly ==
    ASSUME NEW h \in Procs, Return(h),
           offers' \subseteq Requests \X Providers,
           rejected' \subseteq Requests \X Providers,
           UNCHANGED <<status, past, job, helper>>
    PROVE  CallOnly(h)
BY IdleIsCall, IdleOK DEF CallOnly, Return, Become

LEMMA BeginStep ==
    ASSUME IInv, NEW h \in Procs, Begin(h) \/ SweepFind(h)
    PROVE  IInv'
<1> USE DEF requestVars, offerVars, jobVars, Become
<1>1. ~At(h, "fulfil")
  BY DEF Begin, SweepFind, CreateCheck, Cancel, Complete, MarkRead, Respond, Reject,
         Accept, At
<1>2. ASSUME NEW s \in Seekers, CreateCheck(h, s) PROVE CallOnly(h)
  BY <1>2 DEF CreateCheck, CallOnly, CallOK, IInv, TypeOK, Idle, Call, Steps, JobStatus
<1>3. ASSUME NEW r \in Requests, Cancel(h, r) PROVE CallOnly(h)
  BY <1>3 DEF Cancel, CallOnly, CallOK, IInv, TypeOK, Idle, Call, Steps, JobStatus
<1>4. ASSUME NEW r \in Requests, Complete(h, r) PROVE CallOnly(h)
  BY <1>4 DEF Complete, CallOnly, CallOK, IInv, TypeOK, Idle, Call, Steps, JobStatus
<1>5. ASSUME NEW r \in Requests, MarkRead(h, r) PROVE CallOnly(h)
  BY <1>5 DEF MarkRead, CallOnly, CallOK, IInv, TypeOK, Idle, Call, Steps, JobStatus
<1>6. ASSUME NEW r \in Requests, NEW p \in Providers, Respond(h, r, p) PROVE CallOnly(h)
  BY <1>6 DEF Respond, CallOnly, CallOK, IInv, TypeOK, Idle, Call, Steps, JobStatus
<1>7. ASSUME NEW r \in Requests, NEW p \in Providers, Reject(h, r, p) PROVE CallOnly(h)
  BY <1>7 DEF Reject, CallOnly, CallOK, IInv, TypeOK, Idle, Call, Steps, JobStatus
<1>8. ASSUME NEW r \in Requests, NEW p \in Providers, Accept(h, r, p) PROVE CallOnly(h)
  BY <1>8 DEF Accept, CallOnly, CallOK, IInv, TypeOK, Idle, Call, Steps, JobStatus
<1>9. ASSUME SweepFind(h) PROVE CallOnly(h)
  <2>1. Expired \subseteq past /\ Expired \subseteq Requests
    BY DEF Expired
  <2>2. QED
    BY <1>9, <2>1 DEF SweepFind, CallOnly, CallOK, IInv, TypeOK, Idle, Call, Steps,
                      JobStatus
<1>10. CallOnly(h)
  BY <1>2, <1>3, <1>4, <1>5, <1>6, <1>7, <1>8, <1>9 DEF Begin
<1>11. QED BY <1>1, <1>10, CallOnlyStep

(* The checks of accept: on to a step whose needs the call already meets,  *)
(* or back to idle.                                                        *)
LEMMA CheckStep ==
    ASSUME IInv, NEW h \in Procs,
           NEW from \in {"acceptOffer", "acceptSeeker", "acceptProvider"},
           NEW to \in {"acceptSeeker", "acceptProvider", "acceptInsert"},
           NEW ok \in BOOLEAN, Check(h, from, ok, to)
    PROVE  IInv'
<1>1. call[h] \in Call /\ CallOK(call[h]) /\ call[h].at = from
  BY DEF IInv, TypeOK, CallsOK, Check, At
<1>2. offers' \subseteq Requests \X Providers /\ rejected' \subseteq Requests \X Providers
      /\ UNCHANGED <<status, past, job, helper>>
  BY DEF Check, IInv, TypeOK, requestVars, offerVars, jobVars
<1>3. CallOnly(h)
  <2>1. CASE ok
    <3>1. PICK c \in Call : /\ c = [call[h] EXCEPT !.at = to]
                            /\ call' = [call EXCEPT ![h] = c]
      BY <1>1, <2>1 DEF Check, Goto, Become, Call, Steps
    <3>2. CallOK(c)
      BY <1>1, <3>1 DEF CallOK, Call
    <3>3. QED BY <1>2, <3>1, <3>2 DEF CallOnly
  <2>2. CASE ~ok
    BY <1>2, <2>2, ReturnIsCallOnly DEF Check
  <2>3. QED BY <2>1, <2>2
<1>4. QED BY <1>1, <1>3, CallOnlyStep DEF At

LEMMA RemoveOffersStep ==
    ASSUME IInv, NEW h \in Procs, RemoveOffers(h)
    PROVE  IInv'
<1>1. call[h] \in Call /\ CallOK(call[h]) /\ call[h].at = "removeOffers"
  BY DEF IInv, TypeOK, CallsOK, RemoveOffers, At
<1>2. offers' \subseteq Requests \X Providers /\ rejected' \subseteq Requests \X Providers
      /\ UNCHANGED <<status, past, job, helper>>
  BY DEF RemoveOffers, IInv, TypeOK, requestVars, jobVars
<1>3. ASSUME NEW step \in {"remove", "createInsert"}, Goto(h, step),
             step = "createInsert" => call[h].op = "create"
      PROVE  CallOnly(h)
  <2>1. PICK c \in Call : /\ c = [call[h] EXCEPT !.at = step]
                          /\ call' = [call EXCEPT ![h] = c]
    BY <1>1, <1>3 DEF Goto, Become, Call, Steps
  <2>2. CallOK(c)
    BY <1>1, <1>3, <2>1 DEF CallOK, Call
  <2>3. QED BY <1>2, <2>1, <2>2 DEF CallOnly
<1>4. CallOnly(h)
  BY <1>2, <1>3, ReturnIsCallOnly DEF RemoveOffers
<1>5. QED BY <1>1, <1>4, CallOnlyStep DEF At

LEMMA CreateFindStep ==
    ASSUME IInv, NEW h \in Procs, CreateFind(h)
    PROVE  IInv'
<1>1. call[h] \in Call /\ CallOK(call[h]) /\ call[h].at = "createFind"
  BY DEF IInv, TypeOK, CallsOK, CreateFind, At
<1>2. PICK open \in SUBSET Requests : open = RequestsBy(call[h].user, "open")
  BY DEF RequestsBy
<1>3. PICK c \in Call :
        /\ c = [call[h] EXCEPT !.at = IF open = {} THEN "createInsert" ELSE "remove",
                               !.todo = open]
        /\ call' = [call EXCEPT ![h] = c]
  BY <1>1, <1>2 DEF CreateFind, Become, Call, Steps
<1>4. CallOK(c)
  BY <1>1, <1>3 DEF CallOK, Call
<1>5. CallOnly(h)
  BY <1>3, <1>4 DEF CallOnly, CreateFind, IInv, TypeOK, requestVars, offerVars, jobVars
<1>6. QED BY <1>1, <1>5, CallOnlyStep DEF At

LEMMA RespondRejectedStep ==
    ASSUME IInv, NEW h \in Procs, RespondRejected(h)
    PROVE  IInv'
<1>1. call[h] \in Call /\ CallOK(call[h]) /\ call[h].at = "respondRejected"
  BY DEF IInv, TypeOK, CallsOK, RespondRejected, At
<1>2. offers' \subseteq Requests \X Providers /\ rejected' \subseteq Requests \X Providers
      /\ UNCHANGED <<status, past, job, helper>>
  BY DEF RespondRejected, IInv, TypeOK, requestVars, offerVars, jobVars
<1>3. CASE Goto(h, "respondInsert")
  <2>1. PICK c \in Call : /\ c = [call[h] EXCEPT !.at = "respondInsert"]
                          /\ call' = [call EXCEPT ![h] = c]
    BY <1>1, <1>3 DEF Goto, Become, Call, Steps
  <2>2. CallOK(c)
    BY <1>1, <2>1 DEF CallOK, Call
  <2>3. CallOnly(h)
    BY <1>2, <2>1, <2>2 DEF CallOnly
  <2>4. QED BY <1>1, <2>3, CallOnlyStep DEF At
<1>4. CASE Return(h)
  BY <1>1, <1>2, <1>4, ReturnIsCallOnly, CallOnlyStep DEF At
<1>5. QED BY <1>3, <1>4 DEF RespondRejected

(* The handler ends here, after a last write to offers or rejected if any. *)
LEMMA ReturnStep ==
    ASSUME IInv, NEW h \in Procs,
           CreateConflict(h) \/ RespondInsert(h) \/ RejectMark(h) \/ FulfilOffers(h)
             \/ Fail(h)
    PROVE  IInv'
<1>1. call[h] \in Call /\ CallOK(call[h])
  BY DEF IInv, TypeOK, CallsOK
<1>2. /\ Return(h)
      /\ At(h, "fulfil") => h \in MayFail
      /\ UNCHANGED <<status, past, job, helper>>
  BY DEF CreateConflict, RespondInsert, RejectMark, FulfilOffers, Fail, At,
         requestVars, jobVars
<1>3. offers' \subseteq Requests \X Providers /\ rejected' \subseteq Requests \X Providers
  <2>1. CASE RespondInsert(h) \/ RejectMark(h)
    <3>1. <<call[h].rq, call[h].pv>> \in Requests \X Providers
      BY <1>1, <2>1 DEF RespondInsert, RejectMark, At, CallOK
    <3>2. QED
      BY <2>1, <3>1 DEF RespondInsert, RejectMark, IInv, TypeOK
  <2>2. CASE CreateConflict(h) \/ FulfilOffers(h) \/ Fail(h)
    BY <2>2 DEF CreateConflict, FulfilOffers, Fail, offerVars, IInv, TypeOK
  <2>3. QED BY <2>1, <2>2
<1>4. QED BY <1>2, <1>3, ReturnIsCallOnly, CallOnlyStep

LEMMA WithdrawStep ==
    ASSUME IInv, NEW r \in Requests, NEW p \in Providers, Withdraw(r, p)
    PROVE  IInv'
<1>1. TypeOK' /\ CallsOK'
  BY DEF Withdraw, IInv, TypeOK, CallsOK, CallOK, requestVars, jobVars
<1>2. OpenJobIsBeingFulfilled' /\ JobOK' /\ FulfilledHasJob' /\ ExpiredOnlyPastDeadline'
  BY DEF Withdraw, IInv, OpenJobIsBeingFulfilled, JobOK, FulfilledHasJob,
         ExpiredOnlyPastDeadline, At, requestVars, jobVars
<1>3. OneOpenPerSeeker' /\ OneJobPerSeeker' /\ OneJobPerProvider'
  BY DEF Withdraw, IInv, OneOpenPerSeeker, OneJobPerSeeker, OneJobPerProvider,
         requestVars, jobVars
<1>4. QED BY <1>1, <1>2, <1>3 DEF IInv

LEMMA StutterStep == IInv /\ UNCHANGED vars => IInv'
<1> SUFFICES ASSUME IInv, UNCHANGED vars PROVE IInv'
  OBVIOUS
<1> USE DEF vars
<1>1. TypeOK' /\ CallsOK'
  BY DEF IInv, TypeOK, CallsOK, CallOK
<1>2. OpenJobIsBeingFulfilled' /\ JobOK' /\ FulfilledHasJob' /\ ExpiredOnlyPastDeadline'
  BY DEF IInv, OpenJobIsBeingFulfilled, JobOK, FulfilledHasJob,
         ExpiredOnlyPastDeadline, At
<1>3. OneOpenPerSeeker' /\ OneJobPerSeeker' /\ OneJobPerProvider'
  BY DEF IInv, OneOpenPerSeeker, OneJobPerSeeker, OneJobPerProvider
<1>4. QED BY <1>1, <1>2, <1>3 DEF IInv

-----------------------------------------------------------------------------
LEMMA InitIInv == Init => IInv
<1> SUFFICES ASSUME Init PROVE IInv
  OBVIOUS
<1>1. TypeOK /\ CallsOK
  BY IdleIsCall, IdleOK DEF Init, TypeOK, CallsOK, Status, JobStatus
<1>2. JobOK /\ FulfilledHasJob /\ ExpiredOnlyPastDeadline /\ OpenJobIsBeingFulfilled
  BY DEF Init, JobOK, FulfilledHasJob, ExpiredOnlyPastDeadline, OpenJobIsBeingFulfilled
<1>3. OneOpenPerSeeker /\ OneJobPerSeeker /\ OneJobPerProvider
  BY DEF Init, OneOpenPerSeeker, OneJobPerSeeker, OneJobPerProvider
<1>4. QED BY <1>1, <1>2, <1>3 DEF IInv

LEMMA StepIInv == IInv /\ [Next]_vars => IInv'
<1> SUFFICES ASSUME IInv, [Next]_vars PROVE IInv'
  OBVIOUS
<1>1. ASSUME NEW h \in Procs, Begin(h) \/ SweepFind(h) PROVE IInv'
  BY <1>1, BeginStep
<1>2. ASSUME NEW h \in Procs, Fail(h) PROVE IInv'
  BY <1>2, ReturnStep
<1>3. ASSUME NEW h \in Procs, Continue(h) PROVE IInv'
  <2>1. CASE CreateFind(h) \/ RemoveOffers(h) \/ RespondRejected(h)
    BY <2>1, CreateFindStep, RemoveOffersStep, RespondRejectedStep
  <2>2. CASE CreateConflict(h) \/ RespondInsert(h) \/ RejectMark(h) \/ FulfilOffers(h)
    BY <2>2, ReturnStep
  <2>3. CASE \E r \in Requests : CreateInsert(h, r) \/ MarkRemoved(h, r)
    BY <2>3, CreateInsertStep, MarkRemovedStep
  <2>4. CASE AcceptOffer(h) \/ AcceptSeeker(h) \/ AcceptProvider(h)
    <3>1. CASE AcceptOffer(h)
      <4>1. (<<call[h].rq, call[h].pv>> \in offers) \in BOOLEAN
        OBVIOUS
      <4>2. Check(h, "acceptOffer", <<call[h].rq, call[h].pv>> \in offers, "acceptSeeker")
        BY <3>1, Zenon DEF AcceptOffer
      <4>3. QED BY <4>1, <4>2, CheckStep, Zenon
    <3>2. CASE AcceptSeeker(h)
      BY <3>2, CheckStep DEF AcceptSeeker, SeekerBusy
    <3>3. CASE AcceptProvider(h)
      BY <3>3, CheckStep DEF AcceptProvider, ProviderBusy
    <3>4. QED BY <2>4, <3>1, <3>2, <3>3
  <2>5. CASE AcceptInsert(h) \/ Fulfil(h) \/ CompleteSave(h) \/ MarkReadSave(h)
    BY <2>5, AcceptInsertStep, FulfilStep, CompleteSaveStep, MarkReadSaveStep
  <2>6. QED BY <1>3, <2>1, <2>2, <2>3, <2>4, <2>5 DEF Continue
<1>4. ASSUME NEW r \in Requests, NEW p \in Providers, Withdraw(r, p) PROVE IInv'
  BY <1>4, WithdrawStep
<1>5. ASSUME NEW r \in Requests, PassDeadline(r) PROVE IInv'
  BY <1>5, PassDeadlineStep
<1>6. CASE UNCHANGED vars
  BY <1>6, StutterStep
<1>7. QED BY <1>1, <1>2, <1>3, <1>4, <1>5, <1>6 DEF Next, Procs

(* The strengthening is an invariant: what a handler checked before an     *)
(* await and relies on after it still holds in every reachable state.      *)
THEOREM Invariance == Spec => []IInv
<1>1. QED BY InitIInv, StepIInv, PTL DEF Spec

(* Every variable keeps its type.                                          *)
THEOREM TypeCorrect == Spec => []TypeOK
<1>1. IInv => TypeOK
  BY DEF IInv
<1>2. QED BY <1>1, Invariance, PTL

(* However creates, cancels and sweeps of one seeker interleave, at most   *)
(* one broadcast of the seeker is open.                                    *)
THEOREM OneOpenBroadcast == Spec => []OneOpenPerSeeker
<1>1. IInv => OneOpenPerSeeker
  BY DEF IInv
<1>2. QED BY <1>1, Invariance, PTL

(* No interleaving of accepts, completions and read marks puts a seeker or *)
(* a provider in two active jobs.                                          *)
THEOREM OneJobEach == Spec => [](OneJobPerSeeker /\ OneJobPerProvider)
<1>1. IInv => OneJobPerSeeker /\ OneJobPerProvider
  BY DEF IInv
<1>2. QED BY <1>1, Invariance, PTL

(* In particular no provider is in two active jobs, with one seeker or two.*)
THEOREM ProviderHasOneJob == Spec => []OneJobPerProvider
<1>1. IInv => OneJobPerProvider
  BY DEF IInv
<1>2. QED BY <1>1, Invariance, PTL

(* A request is marked fulfilled only if an engagement was made for it.    *)
THEOREM FulfilledMeansEngaged == Spec => []FulfilledHasJob
<1>1. IInv => FulfilledHasJob
  BY DEF IInv
<1>2. QED BY <1>1, Invariance, PTL

(* A request is marked expired only after its deadline.                    *)
THEOREM ExpiredMeansLate == Spec => []ExpiredOnlyPastDeadline
<1>1. IInv => ExpiredOnlyPastDeadline
  BY DEF IInv
<1>2. QED BY <1>1, Invariance, PTL

(* If no handler fails, an open request with an engagement has the accept  *)
(* that will close it in flight.                                           *)
THEOREM EngagedRequestCloses == Spec => []OpenJobIsBeingFulfilled
<1>1. IInv => OpenJobIsBeingFulfilled
  BY DEF IInv
<1>2. QED BY <1>1, Invariance, PTL
=============================================================================
