----------------------- MODULE MarketplaceLockProofs ------------------------
(***************************************************************************)
(* Marketplace implements JobLock: whatever the handlers do, the active    *)
(* engagements change like an exclusive lock on seekers and providers.     *)
(* The refinement mapping is Held.  Only three statements write            *)
(* engagements; each is an Acquire, a Release or a stuttering step, and    *)
(* that rests on the invariant IInv of MarketplaceProofs.                  *)
(*                                                                         *)
(* From the same invariant follow the action properties: the provider of   *)
(* an engagement is fixed, what a closed request leaves behind is inert,   *)
(* and a finished job stays so unless a read mark loaded it before.        *)
(***************************************************************************)
EXTENDS MarketplaceProofs

LEMMA JobsUnchanged ==
    ASSUME UNCHANGED <<job, helper>>
    PROVE  UNCHANGED Held
BY DEF Held, ActiveJobs

\* An engagement that is not active becomes active with provider p.
LEMMA AcquireStep ==
    ASSUME IInv, NEW r \in Requests, NEW p \in Providers, job[r] # "active",
           SeekerIndexFree(r), ProviderIndexFree(r, p),
           job' = [job EXCEPT ![r] = "active"],
           \/ helper' = [helper EXCEPT ![r] = p]
           \/ helper' = helper /\ helper[r] = p
    PROVE  Lock!Next
<1>1. /\ \A q \in Requests \ {r} : job'[q] = job[q] /\ helper'[q] = helper[q]
      /\ job'[r] = "active" /\ helper'[r] = p
  BY DEF IInv, TypeOK
<1>2. ActiveJobs' = ActiveJobs \union {r} /\ r \notin ActiveJobs
  BY <1>1 DEF ActiveJobs
<1>3. Held' = Held \union {<<SeekerOf[r], p>>}
  BY <1>1, <1>2 DEF Held, ActiveJobs
<1>4. Lock!Free(SeekerOf[r], p)
  BY DEF Lock!Free, Held, ActiveJobs, SeekerIndexFree, ProviderIndexFree
<1>5. SeekerOf[r] \in Seekers
  BY MarketplaceAssumption
<1>6. QED BY <1>3, <1>4, <1>5 DEF Lock!Next, Lock!Acquire

\* An active engagement is completed: its pair, and no other, is let go.
LEMMA ReleaseStep ==
    ASSUME IInv, NEW r \in Requests, job[r] = "active",
           job' = [job EXCEPT ![r] = "completed"], UNCHANGED helper
    PROVE  Lock!Next
<1>1. ActiveJobs' = ActiveJobs \ {r} /\ r \in ActiveJobs
  BY DEF ActiveJobs, IInv, TypeOK
<1>2. \A q \in ActiveJobs : SeekerOf[q] = SeekerOf[r] => q = r
  BY DEF ActiveJobs, IInv, OneJobPerSeeker
<1>3. Held' = Held \ {<<SeekerOf[r], helper[r]>>}
  BY <1>1, <1>2 DEF Held
<1>4. <<SeekerOf[r], helper[r]>> \in Held
  BY <1>1 DEF Held
<1>5. QED BY <1>3, <1>4 DEF Lock!Next, Lock!Release

LEMMA WriteJobStep ==
    ASSUME IInv, NEW h \in Procs,
           AcceptInsert(h) \/ CompleteSave(h) \/ MarkReadSave(h)
    PROVE  Lock!Next \/ UNCHANGED Held
<1>1. call[h] \in Call /\ CallOK(call[h])
  BY DEF IInv, TypeOK, CallsOK
<1>2. CASE AcceptInsert(h)
  <2>1. PICK r \in Requests, p \in Providers : r = call[h].rq /\ p = call[h].pv
    BY <1>1, <1>2 DEF AcceptInsert, At, CallOK
  <2>2. CASE /\ RequestKeyFree(r) /\ SeekerIndexFree(r) /\ ProviderIndexFree(r, p)
             /\ job' = [job EXCEPT ![r] = "active"]
             /\ helper' = [helper EXCEPT ![r] = p]
    BY <2>2, AcquireStep DEF RequestKeyFree
  <2>3. CASE UNCHANGED <<job, helper>>
    BY <2>3, JobsUnchanged
  <2>4. QED
    BY <1>2, <2>1, <2>2, <2>3 DEF AcceptInsert, jobVars
<1>3. CASE CompleteSave(h)
  <2>1. PICK r \in Requests : /\ r = call[h].rq /\ UNCHANGED helper
                              /\ job' = [job EXCEPT ![r] = "completed"]
    BY <1>1, <1>3 DEF CompleteSave, At, CallOK
  <2>2. CASE job[r] = "active"
    BY <2>1, <2>2, ReleaseStep
  <2>3. CASE job[r] # "active"
    <3>1. UNCHANGED ActiveJobs
      BY <2>1, <2>3 DEF ActiveJobs, IInv, TypeOK
    <3>2. QED BY <2>1, <3>1 DEF Held
  <2>4. QED BY <2>2, <2>3
<1>4. CASE MarkReadSave(h)
  <2>1. PICK r \in Requests : r = call[h].rq /\ job[r] # "none" /\ UNCHANGED helper
    BY <1>1, <1>4 DEF MarkReadSave, At, CallOK
  <2>2. call[h].seen \in {"active", "completed"}
    BY <1>1, <1>4 DEF MarkReadSave, At, CallOK, Call, JobStatus
  <2>3. CASE job' = [job EXCEPT ![r] = call[h].seen] /\ job[r] = "active"
                /\ call[h].seen = "completed"
    BY <2>1, <2>3, ReleaseStep
  <2>4. CASE /\ job' = [job EXCEPT ![r] = call[h].seen] /\ job[r] # "active"
             /\ call[h].seen = "active"
             /\ SeekerIndexFree(r) /\ ProviderIndexFree(r, helper[r])
    <3>1. helper[r] \in Providers
      BY <2>1 DEF IInv, JobOK
    <3>2. QED BY <2>1, <2>4, <3>1, AcquireStep
  <2>5. CASE job' = [job EXCEPT ![r] = call[h].seen] /\ job[r] = call[h].seen
    <3>1. UNCHANGED job
      BY <2>5 DEF IInv, TypeOK
    <3>2. QED BY <2>1, <3>1, JobsUnchanged
  <2>6. CASE UNCHANGED job
    BY <2>1, <2>6, JobsUnchanged
  <2>7. job[r] \in {"active", "completed"}
    BY <2>1 DEF IInv, TypeOK, JobStatus
  <2>8. QED
    BY <1>4, <2>1, <2>2, <2>3, <2>4, <2>5, <2>6, <2>7 DEF MarkReadSave
<1>5. QED BY <1>2, <1>3, <1>4

\* The three statements above are the only ones that write engagements.
LEMMA JobWriters ==
    ASSUME [Next]_vars
    PROVE  \/ UNCHANGED <<job, helper>>
           \/ \E h \in Procs : AcceptInsert(h) \/ CompleteSave(h) \/ MarkReadSave(h)
<1> USE DEF jobVars
<1>1. ASSUME NEW h \in Procs, Begin(h) \/ SweepFind(h) PROVE UNCHANGED <<job, helper>>
  BY <1>1 DEF Begin, SweepFind, CreateCheck, Cancel, Complete, MarkRead, Respond,
              Reject, Accept
<1>2. ASSUME NEW h \in Procs, Continue(h) \/ Fail(h)
      PROVE  \/ UNCHANGED <<job, helper>>
             \/ AcceptInsert(h) \/ CompleteSave(h) \/ MarkReadSave(h)
  BY <1>2 DEF Continue, Fail, CreateFind, CreateConflict, CreateInsert, MarkRemoved,
              RemoveOffers, RespondRejected, RespondInsert, RejectMark, AcceptOffer,
              AcceptSeeker, AcceptProvider, Check, Fulfil, FulfilOffers
<1>3. ASSUME NEW r \in Requests, NEW p \in Providers, Withdraw(r, p)
      PROVE  UNCHANGED <<job, helper>>
  BY <1>3 DEF Withdraw
<1>4. ASSUME NEW r \in Requests, PassDeadline(r) PROVE UNCHANGED <<job, helper>>
  BY <1>4 DEF PassDeadline
<1>5. CASE UNCHANGED vars
  BY <1>5 DEF vars
<1>6. QED BY <1>1, <1>2, <1>3, <1>4, <1>5 DEF Next, Procs

(* The engagements implement the exclusive lock: nobody is acquired while  *)
(* in a job, and no step changes two pairs.                                *)
THEOREM ImplementsLock == Spec => LockSpec
<1>1. Init => Lock!Init
  BY DEF Init, Lock!Init, Held, ActiveJobs
<1>2. IInv /\ [Next]_vars => [Lock!Next]_Held
  BY JobWriters, JobsUnchanged, WriteJobStep
<1>3. QED BY <1>1, <1>2, Invariance, PTL DEF Spec, LockSpec, Lock!Spec

(* The provider of an engagement never changes, however many accepts of    *)
(* the request are in flight.                                              *)
THEOREM HelperNeverChanges == Spec => HelperIsFixed
<1>1. IInv /\ [Next]_vars
        => [\A r \in Requests : helper[r] # None => helper'[r] = helper[r]]_vars
  <2> SUFFICES ASSUME IInv, [Next]_vars, NEW r \in Requests, helper[r] # None
               PROVE  helper'[r] = helper[r]
    OBVIOUS
  <2>1. job[r] # "none"
    BY DEF IInv, JobOK
  <2>2. ASSUME NEW h \in Procs, AcceptInsert(h) \/ CompleteSave(h) \/ MarkReadSave(h)
        PROVE  helper'[r] = helper[r]
    <3>1. call[h].at = "acceptInsert" => call[h].rq \in Requests
      BY DEF IInv, CallsOK, CallOK
    <3>2. QED
      BY <2>1, <2>2, <3>1 DEF AcceptInsert, CompleteSave, MarkReadSave, At,
                              RequestKeyFree, jobVars, IInv, TypeOK
  <2>3. QED BY <2>2, JobWriters
<1>2. QED BY <1>1, Invariance, PTL DEF Spec, HelperIsFixed

(* The lock is a matching in every state: nobody is in two jobs, as a      *)
(* seeker or as a provider, and no two engagements share a pair.  That is  *)
(* a fact about JobLock alone, which Marketplace inherits.                 *)
THEOREM PairsAreExclusive == Spec => []Lock!Matching
<1>1. Lock!Init => Lock!Matching
  BY DEF Lock!Init, Lock!Matching
<1>2. Lock!Matching /\ [Lock!Next]_Held => Lock!Matching'
  <2> SUFFICES ASSUME Lock!Matching, [Lock!Next]_Held
               PROVE  Lock!Matching'
    OBVIOUS
  <2>1. ASSUME NEW s \in Seekers, NEW p \in Providers, Lock!Acquire(s, p)
        PROVE  Lock!Matching'
    <3>1. /\ Held' = Held \union {<<s, p>>} /\ <<s, p>> \in Lock!Pairs
          /\ \A l \in Held : l[1] # s /\ l[2] # p
      BY <2>1 DEF Lock!Acquire, Lock!Free, Lock!Pairs
    <3>2. QED BY <3>1 DEF Lock!Matching
  <2>2. ASSUME NEW l \in Held, Lock!Release(l)
        PROVE  Lock!Matching'
    BY <2>2 DEF Lock!Release, Lock!Matching
  <2>3. CASE UNCHANGED Held
    BY <2>3 DEF Lock!Matching
  <2>4. QED BY <2>1, <2>2, <2>3 DEF Lock!Next
<1>3. Lock!Spec => []Lock!Matching
  BY <1>1, <1>2, PTL DEF Lock!Spec
<1>4. QED BY <1>3, ImplementsLock DEF LockSpec

-----------------------------------------------------------------------------
(* What a closed request leaves behind.                                    *)

\* A handler that goes on is accepting only if it was before, or has found
\* its request open; and a read mark holds the status that the job has now.
GoesOn(h) ==
    /\ \A g \in Procs \ {h} : call'[g] = call[g]
    /\ call'[h].at \in Accepting =>
         \/ status[call'[h].rq] = "open"
         \/ call[h].at \in Accepting /\ call'[h].rq = call[h].rq
    /\ call'[h].at = "markReadSave" => call'[h].seen = job[call'[h].rq]

LEMMA BeginsAnew ==
    ASSUME IInv, NEW h \in Procs, Begin(h) \/ SweepFind(h)
    PROVE  GoesOn(h)
<1> DEFINE Ordinary == Steps \ (Accepting \union {"markReadSave"})
<1>1. \A c : Become(h, c) => call'[h] = c /\ \A g \in Procs \ {h} : call'[g] = call[g]
  BY DEF Become, IInv, TypeOK
<1>2. ASSUME NEW c, Become(h, c), c.at \in Ordinary
      PROVE  GoesOn(h)
  BY <1>1, <1>2 DEF GoesOn
<1>3. ASSUME NEW r \in Requests, NEW p \in Providers, Accept(h, r, p)
      PROVE  GoesOn(h)
  <2> DEFINE c == [Idle EXCEPT !.at = "acceptOffer", !.rq = r, !.pv = p]
  <2>1. Become(h, c) /\ status[r] = "open"
    BY <1>3 DEF Accept
  <2>2. c.at = "acceptOffer" /\ c.rq = r
    BY DEF Idle
  <2> HIDE DEF c
  <2>3. QED BY <1>1, <2>1, <2>2 DEF GoesOn
<1>4. ASSUME NEW r \in Requests, MarkRead(h, r)
      PROVE  GoesOn(h)
  <2> DEFINE c == [Idle EXCEPT !.at = "markReadSave", !.rq = r, !.seen = job[r]]
  <2>1. Become(h, c)
    BY <1>4 DEF MarkRead
  <2>2. c.at = "markReadSave" /\ c.rq = r /\ c.seen = job[r]
    BY DEF Idle
  <2> HIDE DEF c
  <2>3. QED BY <1>1, <2>1, <2>2 DEF GoesOn, Accepting
<1>5. ASSUME NEW s \in Seekers, CreateCheck(h, s)
      PROVE  GoesOn(h)
  BY <1>2, <1>5 DEF CreateCheck, Idle, Steps, Accepting
<1>6. ASSUME NEW r \in Requests, Cancel(h, r) \/ Complete(h, r)
      PROVE  GoesOn(h)
  BY <1>2, <1>6 DEF Cancel, Complete, Idle, Steps, Accepting
<1>7. ASSUME NEW r \in Requests, NEW p \in Providers, Respond(h, r, p) \/ Reject(h, r, p)
      PROVE  GoesOn(h)
  BY <1>2, <1>7 DEF Respond, Reject, Idle, Steps, Accepting
<1>8. CASE SweepFind(h)
  BY <1>2, <1>8 DEF SweepFind, Idle, Steps, Accepting
<1>9. QED BY <1>3, <1>4, <1>5, <1>6, <1>7, <1>8 DEF Begin

LEMMA ContinuesAs ==
    ASSUME IInv, NEW h \in Procs, Continue(h) \/ Fail(h)
    PROVE  GoesOn(h)
<1> DEFINE Ordinary == Steps \ (Accepting \union {"markReadSave"})
<1>1. \A c : Become(h, c) => call'[h] = c /\ \A g \in Procs \ {h} : call'[g] = call[g]
  BY DEF Become, IInv, TypeOK
<1>2. call[h] \in Call
  BY DEF IInv, TypeOK
<1>3. ASSUME NEW c, Become(h, c), c.at \in Ordinary
      PROVE  GoesOn(h)
  BY <1>1, <1>3 DEF GoesOn
<1>4. ASSUME Return(h) PROVE GoesOn(h)
  BY <1>3, <1>4 DEF Return, Idle, Steps, Accepting
<1>5. ASSUME NEW at \in Ordinary, Goto(h, at) PROVE GoesOn(h)
  BY <1>2, <1>3, <1>5 DEF Goto, Call
<1>6. ASSUME NEW at \in Accepting, Goto(h, at), call[h].at \in Accepting
      PROVE  GoesOn(h)
  <2>1. call'[h].at = at /\ call'[h].rq = call[h].rq
    BY <1>1, <1>2, <1>6 DEF Goto, Call
  <2>2. QED BY <1>1, <1>6, <2>1 DEF GoesOn, Goto, Accepting
<1>7. CASE \/ CreateConflict(h) \/ RespondInsert(h) \/ RejectMark(h) \/ Fail(h)
           \/ FulfilOffers(h) \/ CompleteSave(h) \/ MarkReadSave(h)
           \/ \E r \in Requests : CreateInsert(h, r)
  BY <1>4, <1>7 DEF CreateConflict, RespondInsert, RejectMark, Fail, FulfilOffers,
                    CompleteSave, MarkReadSave, CreateInsert
<1>8. CASE CreateFind(h)
  <2> DEFINE open == RequestsBy(call[h].user, "open")
             c == [call[h] EXCEPT !.at = IF open = {} THEN "createInsert" ELSE "remove",
                                  !.todo = open]
  <2>1. Become(h, c)
    BY <1>8 DEF CreateFind
  <2>2. c.at \in Ordinary
    BY <1>2 DEF Call, Steps, Accepting
  <2>3. QED BY <1>3, <2>1, <2>2
<1>9. CASE \E r \in Requests : MarkRemoved(h, r)
  <2>1. PICK r \in Requests :
          Become(h, [call[h] EXCEPT !.at = "removeOffers", !.rq = r, !.todo = @ \ {r}])
    BY <1>9 DEF MarkRemoved
  <2>2. [call[h] EXCEPT !.at = "removeOffers", !.rq = r, !.todo = @ \ {r}].at \in Ordinary
    BY <1>2 DEF Call, Steps, Accepting
  <2>3. QED BY <1>3, <2>1, <2>2
<1>10. CASE RemoveOffers(h) \/ RespondRejected(h)
  <2>1. Return(h) \/ \E at \in {"remove", "createInsert", "respondInsert"} : Goto(h, at)
    BY <1>10 DEF RemoveOffers, RespondRejected
  <2>2. {"remove", "createInsert", "respondInsert"} \subseteq Ordinary
    BY DEF Steps, Accepting
  <2>3. QED BY <1>4, <1>5, <2>1, <2>2
<1>11. CASE \/ AcceptOffer(h) \/ AcceptSeeker(h) \/ AcceptProvider(h)
            \/ AcceptInsert(h) \/ Fulfil(h)
  <2>1. call[h].at \in Accepting
    BY <1>11 DEF AcceptOffer, AcceptSeeker, AcceptProvider, Check, AcceptInsert,
                 Fulfil, At, Accepting
  <2>2. Return(h) \/ \E at \in Accepting : Goto(h, at)
    BY <1>11 DEF AcceptOffer, AcceptSeeker, AcceptProvider, Check, AcceptInsert,
                 Fulfil, Accepting
  <2>3. QED BY <1>4, <1>6, <2>1, <2>2
<1>12. QED BY <1>7, <1>8, <1>9, <1>10, <1>11 DEF Continue

\* The three statements that write service_requests.
LEMMA StatusWriters ==
    ASSUME [Next]_vars
    PROVE  \/ UNCHANGED status
           \/ \E h \in Procs :
                \/ Fulfil(h)
                \/ \E r \in Requests : CreateInsert(h, r) \/ MarkRemoved(h, r)
<1>1. ASSUME NEW h \in Procs, Begin(h) \/ SweepFind(h) \/ Fail(h)
      PROVE  UNCHANGED status
  BY <1>1 DEF Begin, SweepFind, Fail, CreateCheck, Cancel, Complete, MarkRead,
              Respond, Reject, Accept, requestVars
<1>2. ASSUME NEW h \in Procs, Continue(h)
      PROVE  \/ UNCHANGED status
             \/ Fulfil(h)
             \/ \E r \in Requests : CreateInsert(h, r) \/ MarkRemoved(h, r)
  BY <1>2 DEF Continue, CreateFind, CreateConflict, RemoveOffers, RespondRejected,
              RespondInsert, RejectMark, AcceptOffer, AcceptSeeker, AcceptProvider,
              Check, AcceptInsert, FulfilOffers, CompleteSave, MarkReadSave,
              requestVars
<1>3. ASSUME NEW r \in Requests, NEW p \in Providers, Withdraw(r, p)
      PROVE  UNCHANGED status
  BY <1>3 DEF Withdraw, requestVars
<1>4. ASSUME NEW r \in Requests, PassDeadline(r) PROVE UNCHANGED status
  BY <1>4 DEF PassDeadline
<1>5. CASE UNCHANGED vars
  BY <1>5 DEF vars
<1>6. QED BY <1>1, <1>2, <1>3, <1>4, <1>5 DEF Next, Procs

LEMMA AbandonedIsNotReopened ==
    ASSUME IInv, [Next]_vars, NEW r \in Requests, Abandoned(r)
    PROVE  status'[r] \in {"cancelled", "expired"}
<1>1. status[r] \in {"cancelled", "expired"} /\ status \in [Requests -> Status]
  BY DEF Abandoned, IInv, TypeOK
<1>2. ASSUME NEW h \in Procs, Fulfil(h)
      PROVE  status'[r] = status[r]
  <2>1. call[h].rq # r
    BY <1>2 DEF Fulfil, At, Abandoned, Accepting
  <2>2. QED BY <1>1, <1>2, <2>1 DEF Fulfil
<1>3. ASSUME NEW h \in Procs, NEW q \in Requests, CreateInsert(h, q)
      PROVE  status'[r] = status[r]
  BY <1>1, <1>3 DEF CreateInsert, RequestsBy
<1>4. ASSUME NEW h \in Procs, NEW q \in Requests, MarkRemoved(h, q)
      PROVE  status'[r] \in {"cancelled", "expired"}
  BY <1>1, <1>4 DEF MarkRemoved, RemovedAs
<1>5. QED BY <1>1, <1>2, <1>3, <1>4, StatusWriters

LEMMA AbandonedHasNoJob ==
    ASSUME IInv, [Next]_vars, NEW r \in Requests, Abandoned(r)
    PROVE  job'[r] = "none"
<1>1. job[r] = "none" /\ job \in [Requests -> JobStatus]
  BY DEF Abandoned, IInv, TypeOK
<1>2. ASSUME NEW h \in Procs, AcceptInsert(h) \/ CompleteSave(h) \/ MarkReadSave(h)
      PROVE  job'[r] = job[r]
  <2>1. call[h].rq # r
    <3>1. CASE AcceptInsert(h)
      BY <3>1 DEF AcceptInsert, At, Abandoned, Accepting
    <3>2. CASE CompleteSave(h) \/ MarkReadSave(h)
      BY <1>1, <3>2 DEF CompleteSave, MarkReadSave, At, IInv, CallsOK, CallOK
    <3>3. QED BY <1>2, <3>1, <3>2
  <2>2. QED BY <1>1, <1>2, <2>1 DEF AcceptInsert, CompleteSave, MarkReadSave, jobVars
<1>3. QED BY <1>1, <1>2, JobWriters

LEMMA AbandonedIsNotAccepted ==
    ASSUME IInv, [Next]_vars, NEW r \in Requests, Abandoned(r), NEW g \in Procs,
           call'[g].at \in Accepting
    PROVE  call'[g].rq # r
<1>1. call[g].at \in Accepting => call[g].rq # r
  BY DEF Abandoned
<1>2. ASSUME NEW h \in Procs, Begin(h) \/ SweepFind(h) \/ Continue(h) \/ Fail(h)
      PROVE  call'[g].rq # r
  <2>1. GoesOn(h)
    BY <1>2, BeginsAnew, ContinuesAs
  <2>2. status[r] # "open"
    BY DEF Abandoned
  <2>3. QED BY <1>1, <2>1, <2>2 DEF GoesOn
<1>3. CASE UNCHANGED call
  BY <1>1, <1>3
<1>4. QED BY <1>2, <1>3 DEF Next, Withdraw, PassDeadline, vars, Procs

(* Nothing that a closed request leaves behind makes a job of it: no offer *)
(* that a late respond inserted or a crash left in the table is accepted,  *)
(* by any number of accepts, however often they are tried again.           *)
THEOREM ClosedForGood == Spec => LeftoversAreInert
<1>1. IInv /\ [Next]_vars
        => [\A r \in Requests : Abandoned(r) => Abandoned(r)']_vars
  <2> SUFFICES ASSUME IInv, [Next]_vars, NEW r \in Requests, Abandoned(r)
               PROVE  Abandoned(r)'
    OBVIOUS
  <2>1. \A g \in Procs : ~ (call'[g].at \in Accepting /\ call'[g].rq = r)
    BY AbandonedIsNotAccepted
  <2>2. QED BY <2>1, AbandonedIsNotReopened, AbandonedHasNoJob DEF Abandoned
<1>2. QED BY <1>1, Invariance, PTL DEF Spec, LeftoversAreInert

-----------------------------------------------------------------------------
(* What the screen says of a finished job (CompletedStaysCompleted) does   *)
(* not hold; this is how far it does.                                      *)

\* A read mark that loaded the engagement of r while it was active.
ReadWhileActive(r) ==
    \E h \in Procs : /\ call[h].at = "markReadSave" /\ call[h].rq = r
                     /\ call[h].seen = "active"

\* A job that is done, with no such read mark in flight.
Done(r) == job[r] = "completed" /\ ~ ReadWhileActive(r)

DoneStaysDone == [][\A r \in Requests : Done(r) => Done(r)']_vars

LEMMA DoneIsNotRevived ==
    ASSUME IInv, [Next]_vars, NEW r \in Requests, Done(r)
    PROVE  job'[r] = "completed"
<1>1. job \in [Requests -> JobStatus] /\ job[r] = "completed"
  BY DEF IInv, TypeOK, Done
<1>2. ASSUME NEW h \in Procs, AcceptInsert(h) \/ CompleteSave(h) \/ MarkReadSave(h)
      PROVE  job'[r] = "completed"
  <2>1. CASE AcceptInsert(h)
    BY <1>1, <2>1 DEF AcceptInsert, RequestKeyFree, jobVars
  <2>2. CASE CompleteSave(h)
    BY <1>1, <2>2 DEF CompleteSave
  <2>3. CASE MarkReadSave(h)
    <3>1. call[h] \in Call /\ CallOK(call[h]) /\ call[h].at = "markReadSave"
      BY <2>3 DEF IInv, TypeOK, CallsOK, MarkReadSave, At
    <3>2. call[h].seen \in {"active", "completed"}
      BY <3>1 DEF CallOK, Call, JobStatus
    <3>3. call[h].rq = r => call[h].seen = "completed"
      BY <3>1, <3>2 DEF Done, ReadWhileActive
    <3>4. QED BY <1>1, <2>3, <3>3 DEF MarkReadSave
  <2>4. QED BY <1>2, <2>1, <2>2, <2>3
<1>3. QED BY <1>1, <1>2, JobWriters

LEMMA DoneIsReadAsDone ==
    ASSUME IInv, [Next]_vars, NEW r \in Requests, Done(r), NEW g \in Procs,
           call'[g].at = "markReadSave", call'[g].rq = r
    PROVE  call'[g].seen # "active"
<1>1. /\ job[r] = "completed"
      /\ call[g].at = "markReadSave" /\ call[g].rq = r => call[g].seen # "active"
  BY DEF Done, ReadWhileActive
<1>2. ASSUME NEW h \in Procs, Begin(h) \/ SweepFind(h) \/ Continue(h) \/ Fail(h)
      PROVE  call'[g].seen # "active"
  <2>1. GoesOn(h)
    BY <1>2, BeginsAnew, ContinuesAs
  <2>2. QED BY <1>1, <2>1 DEF GoesOn
<1>3. CASE UNCHANGED call
  BY <1>1, <1>3
<1>4. QED BY <1>2, <1>3 DEF Next, Withdraw, PassDeadline, vars, Procs

(* A completed job comes back to life in one way only, a read mark that    *)
(* was loaded before the job was completed: no accept, complete or retry   *)
(* revives it, and no read mark that begins afterwards.                    *)
THEOREM DoneUnlessReadMark == Spec => DoneStaysDone
<1>1. IInv /\ [Next]_vars => [\A r \in Requests : Done(r) => Done(r)']_vars
  <2> SUFFICES ASSUME IInv, [Next]_vars, NEW r \in Requests, Done(r)
               PROVE  Done(r)'
    OBVIOUS
  <2>1. ~ ReadWhileActive(r)'
    BY DoneIsReadAsDone DEF ReadWhileActive
  <2>2. QED BY <2>1, DoneIsNotRevived DEF Done
<1>2. QED BY <1>1, Invariance, PTL DEF Spec, DoneStaysDone
=============================================================================
