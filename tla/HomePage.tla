------------------------------ MODULE HomePage ------------------------------
(***************************************************************************)
(* A user's home page against the server: what the seeker's or the         *)
(* provider's page shows of the requests and of the active job, kept by    *)
(* fetches, by pushes over a socket that breaks, by the answers to the     *)
(* user's own requests, by a poll and by a timer.                          *)
(*                                                                         *)
(* There is one seeker and one provider; one of them, `me', has the page   *)
(* open, and its first fetches have been answered.  What either does       *)
(* elsewhere reaches the server all the same.  The server's handlers are   *)
(* atomic here, pushes included: how they interleave is Marketplace's      *)
(* subject.                                                                *)
(***************************************************************************)
EXTENDS Integers, FiniteSets

CONSTANTS
    Requests,
    None,           \* no request
    MaxDrops,       \* bound: how often the socket breaks
    MaxFailures     \* bound: lost requests and answers, early timers, and
                    \* withdrawals of what is withdrawn already

ASSUME HomePageAssumption ==
    None \notin Requests /\ MaxDrops \in Nat /\ MaxFailures \in Nat

VARIABLES
    me,             \* whose page it is
    status, past,   \* the requests, and whether their deadline is over
    offers,         \* requests that the provider has offered to help with
    rejected,       \* requests that the provider was rejected from
    job,            \* the request that the active engagement is about
    link,           \* the page's socket
    list, listFetch,    \* cache and fetch of the requests (incoming or mine)
    bar, barFetch,      \* cache and fetch of the active engagement
    armed,          \* the timer of the request that the seeker's page shows
    replies,        \* the answer on its way to the page, if any
    rejecting,      \* rejections on their way to the server
    drops, failures,
    missed,         \* an event was emitted between "connect" and the join
    raced,          \* bar was written during a fetch of it, or out of date
    unlucky         \* a fetch failed, or the timer fired early

server == <<status, past, offers, rejected, job>>
lists  == <<list, listFetch, armed>>
bars   == <<bar, barFetch, raced, missed>>
net    == <<link, replies, rejecting, drops, failures>>
vars   == <<me, server, lists, bars, net, unlucky>>

Shown == {"absent", "plain", "offered"}
Lists == [Requests -> Shown]
Ats == {"idle", "asked", "answered"}

TypeOK ==
    /\ me \in {"seeker", "provider"}
    /\ status \in [Requests ->
                    {"unsent", "open", "cancelled", "expired", "fulfilled"}]
    /\ past \subseteq Requests /\ offers \subseteq Requests
    /\ rejected \subseteq Requests /\ rejecting \subseteq Requests
    /\ job \in Requests \union {None}
    /\ link \in {"down", "verifying", "joined"}
    /\ list \in Lists /\ bar \in Requests \union {None}
    /\ listFetch \in [at : Ats, snap : Lists]
    /\ barFetch \in [at : Ats, snap : Requests \union {None}]
    /\ replies \subseteq
         {"created", "cancelled", "accepted", "done", "responded",
          "withdrawn"} \X Requests
    /\ Cardinality(replies) <= 1
    /\ drops \in 0 .. MaxDrops /\ failures \in 0 .. MaxFailures
    /\ {armed, missed, raced, unlucky} \subseteq BOOLEAN

-----------------------------------------------------------------------------
(* What the server answers.                                                *)

Usable(r) == status[r] = "open" /\ r \notin past
Flag(r) == IF r \in offers THEN "offered" ELSE "plain"

\* incoming: nothing for a provider who is in a job.  The provider is approved,
\* available and near enough, has the skill, and at most 100 requests are in
\* reach: what changes those is not modelled.
Incoming == [r \in Requests |->
    IF job = None /\ Usable(r) /\ r \notin rejected THEN Flag(r) ELSE "absent"]
Mine == [r \in Requests |-> IF Usable(r) THEN Flag(r) ELSE "absent"]
Answer == IF me = "provider" THEN Incoming ELSE Mine

NoList == [r \in Requests |-> "absent"]
ListIdle == [at |-> "idle", snap |-> NoList]
BarIdle  == [at |-> "idle", snap |-> None]

Init ==
    /\ me \in {"seeker", "provider"}
    /\ status = [r \in Requests |-> "unsent"]
    /\ past = {} /\ offers = {} /\ rejected = {} /\ job = None
    /\ link = "down" /\ list = NoList /\ listFetch = ListIdle
    /\ bar = None /\ barFetch = BarIdle /\ armed = FALSE
    /\ replies = {} /\ rejecting = {} /\ drops = 0 /\ failures = 0
    /\ missed = FALSE /\ raced = FALSE /\ unlucky = FALSE

-----------------------------------------------------------------------------
(* The caches of the page.                                                 *)

\* A write of the list; the effect that arms the timer runs if it changed.
ArmedWhilePlain(l) ==           \* mutant: no timer once there is an offer
    me = "seeker" /\ \E r \in Requests : l[r] = "plain"
Armed(l) == me = "seeker" /\ l # NoList
Write(l) == list' = l /\ armed' = Armed(l)
Without(Q) == [r \in Requests |-> IF r \in Q THEN "absent" ELSE list[r]]

\* setQueryData leaves a fetch of the same key running, and asks nobody
\* whether r still is the active job.
WriteBar(r) ==
    /\ bar' = r
    /\ raced' = (raced \/ barFetch.at # "idle" \/ r # job)

AskListDeduped ==               \* mutant: an earlier fetch may answer for it
    listFetch' = IF listFetch.at = "idle" THEN [at |-> "asked", snap |-> NoList]
                                          ELSE listFetch
AskBarDeduped ==
    barFetch' = IF barFetch.at = "idle" THEN [at |-> "asked", snap |-> None]
                                        ELSE barFetch
\* invalidateQueries: the answer of an earlier fetch is ignored.
AskList == listFetch' = [at |-> "asked", snap |-> NoList]
AskListIfShown == IF me = "provider" THEN AskList ELSE UNCHANGED listFetch
AskBar == barFetch' = [at |-> "asked", snap |-> None]

\* request:new (ask), request:removed (gone), request:response and
\* request:response-removed (ask), to a user who is in the room.
Hears(user, gone, ask) ==
    /\ UNCHANGED bars
    /\ IF me = user /\ link = "joined"
       THEN /\ IF gone = {} THEN UNCHANGED <<list, armed>>
                            ELSE Write(Without(gone))
            /\ IF ask THEN AskList ELSE UNCHANGED listFetch
       ELSE UNCHANGED lists

\* engagement:started and engagement:ended, to both users.
JobEvent(ev) ==
    /\ UNCHANGED <<list, armed>>
    /\ missed' = (missed \/ link = "verifying")
    /\ IF link = "joined"
       THEN /\ AskListIfShown
            /\ IF ev = "started" THEN AskBar /\ UNCHANGED <<bar, raced>>
               ELSE /\ bar' = None /\ raced' = (raced \/ barFetch.at # "idle")
                    /\ UNCHANGED barFetch
       ELSE UNCHANGED <<listFetch, bar, barFetch, raced>>

-----------------------------------------------------------------------------
(* The server's handlers.  Each comes from this page, which awaits one     *)
(* answer at a time, or from elsewhere.                                    *)

By(user, r, seen, reply) ==
    /\ \/ UNCHANGED replies
       \/ /\ me = user /\ list[r] \in seen /\ replies = {}
          /\ replies' = {<<reply, r>>}
    /\ UNCHANGED <<me, link, rejecting, drops, unlucky>>

\* create: the request takes the place of an open one.
Create(r) ==
    LET old == {q \in Requests : status[q] = "open"} IN
    /\ status[r] = "unsent" /\ job = None
    /\ status' = [q \in Requests |-> IF q = r THEN "open"
                                     ELSE IF q \in old THEN "cancelled"
                                     ELSE status[q]]
    /\ offers' = offers \ old
    /\ Hears("provider", old, TRUE)
    /\ By("seeker", r, {"absent"}, "created")
    /\ UNCHANGED <<past, rejected, job, failures>>

\* Only providers without a job are told.
Closes(r, how) ==
    /\ status[r] = "open"
    /\ status' = [status EXCEPT ![r] = how]
    /\ offers' = offers \ {r}
    /\ Hears("provider", IF job = None THEN {r} ELSE {}, FALSE)
    /\ UNCHANGED <<past, rejected, job>>

CancelRemoved(r) ==             \* mutant: the event's name as the status
    /\ Closes(r, "removed")
    /\ By("seeker", r, {"plain", "offered"}, "cancelled")
    /\ UNCHANGED failures
\* The answer is the same for a request that is closed already.
Cancel(r) ==
    /\ \/ Closes(r, "cancelled")
       \/ status[r] \notin {"unsent", "open"} /\ UNCHANGED <<server, lists, bars>>
    /\ By("seeker", r, {"plain", "offered"}, "cancelled")
    /\ UNCHANGED failures

\* sweepExpired
Sweep(r) ==
    /\ r \in past /\ Closes(r, "expired")
    /\ UNCHANGED <<me, net, unlucky>>

PassDeadline(r) ==
    /\ status[r] # "unsent" /\ r \notin past
    /\ past' = past \union {r}
    /\ UNCHANGED <<me, status, offers, rejected, job, lists, bars, net,
                   unlucky>>

Respond(r) ==
    /\ Usable(r) /\ r \notin rejected
    /\ offers' = offers \union {r}
    /\ Hears("seeker", {}, TRUE)
    /\ By("provider", r, {"plain"}, "responded")
    /\ UNCHANGED <<status, past, rejected, job, failures>>

Fails == failures < MaxFailures /\ failures' = failures + 1

\* Whatever the request has come to, and with or without an offer to delete.
Withdraw(r) ==
    /\ status[r] # "unsent"
    /\ \/ r \in offers /\ UNCHANGED failures
       \/ r \notin offers /\ Fails
    /\ offers' = offers \ {r}
    /\ Hears("seeker", {}, TRUE)
    /\ By("provider", r, {"offered"}, "withdrawn")
    /\ UNCHANGED <<status, past, rejected, job>>

\* reject, on its way from this page or elsewhere; it does not look for an
\* offer either.
Reject(r) ==
    /\ status[r] # "unsent"
    /\ offers' = offers \ {r} /\ rejected' = rejected \union {r}
    /\ rejecting' = rejecting \ {r}
    /\ Hears("provider", {r}, FALSE)
    /\ UNCHANGED <<me, status, past, job, link, replies, drops, failures,
                   unlucky>>

\* accept and markFulfilled: the provider is in a job when the request is
\* closed, so that only engagement:started reaches their page.
Accept(r) ==
    /\ Usable(r) /\ r \in offers /\ job = None
    /\ job' = r
    /\ status' = [status EXCEPT ![r] = "fulfilled"]
    /\ offers' = offers \ {r}
    /\ JobEvent("started")
    /\ By("seeker", r, {"offered"}, "accepted")
    /\ UNCHANGED <<past, rejected, failures>>

\* complete, by the seeker's bar
Complete ==
    /\ job # None /\ job' = None
    /\ JobEvent("ended")
    /\ \/ UNCHANGED replies
       \/ /\ me = "seeker" /\ bar = job /\ replies = {}
          /\ replies' = {<<"done", job>>}
    /\ UNCHANGED <<me, status, past, offers, rejected, link, rejecting, drops,
                   failures, unlucky>>

-----------------------------------------------------------------------------
(* Fetches, poll and timer.                                                *)

ListSnapshot ==
    /\ listFetch.at = "asked"
    /\ listFetch' = [at |-> "answered", snap |-> Answer]
    /\ UNCHANGED <<me, server, list, armed, bars, net, unlucky>>

\* An answer that equals the cached list is not a change: no effect runs.
ListDone ==
    /\ listFetch.at = "answered"
    /\ listFetch' = ListIdle
    /\ IF listFetch.snap = list THEN UNCHANGED <<list, armed>>
                                ELSE Write(listFetch.snap)
    /\ UNCHANGED <<me, server, bars, net, unlucky>>

BarSnapshot ==
    /\ barFetch.at = "asked"
    /\ barFetch' = [at |-> "answered", snap |-> job]
    /\ UNCHANGED <<me, server, lists, bar, raced, missed, net, unlucky>>

BarDone ==
    /\ barFetch.at = "answered"
    /\ barFetch' = BarIdle
    /\ bar' = barFetch.snap
    /\ UNCHANGED <<me, server, lists, raced, missed, net, unlucky>>

PollWhileEmpty ==               \* mutant: waits for requests only
    /\ me = "provider" /\ listFetch.at = "idle" /\ list = NoList
    /\ AskList
    /\ UNCHANGED <<me, server, list, armed, bars, net, unlucky>>
\* refetchInterval of the incoming requests
Poll ==
    /\ me = "provider" /\ listFetch.at = "idle"
    /\ AskList
    /\ UNCHANGED <<me, server, list, armed, bars, net, unlucky>>

\* The timer of the request on the seeker's page, perhaps by a clock that is
\* ahead of the server's.
TimerFires ==
    /\ armed /\ armed' = FALSE
    /\ AskList
    /\ \/ /\ \E r \in past : list[r] # "absent"
          /\ UNCHANGED <<failures, unlucky>>
       \/ /\ \A r \in past : list[r] = "absent"
          /\ Fails /\ unlucky' = TRUE
    /\ UNCHANGED <<me, server, list, bars, link, replies, rejecting, drops>>

-----------------------------------------------------------------------------
(* The socket.                                                             *)

Drop ==
    /\ link # "down" /\ link' = "down"
    /\ drops < MaxDrops /\ drops' = drops + 1
    /\ UNCHANGED <<me, server, lists, bars, replies, rejecting, failures,
                   unlucky>>

ConnectSilently ==              \* mutant: the bar does not listen
    /\ link = "down" /\ link' = "verifying"
    /\ AskListIfShown
    /\ UNCHANGED <<me, server, list, armed, bars, replies, rejecting, drops,
                   failures, unlucky>>
\* "connect" on every page (EngagementBar): re-sync.
Connect ==
    /\ link = "down" /\ link' = "verifying"
    /\ AskBar /\ AskListIfShown
    /\ UNCHANGED <<me, server, list, armed, bar, raced, missed, replies,
                   rejecting, drops, failures, unlucky>>

\* handleConnection has verified the token.
Join ==
    /\ link = "verifying" /\ link' = "joined"
    /\ UNCHANGED <<me, server, lists, bars, replies, rejecting, drops,
                   failures, unlucky>>

-----------------------------------------------------------------------------
(* The answers to the user's own requests (onSuccess).                     *)

Marked(r, flag) ==
    IF list[r] = "absent" THEN list ELSE [list EXCEPT ![r] = flag]

Reply(what, r) ==
    /\ <<what, r>> \in replies /\ replies' = {}
    /\ CASE what = "created"   -> Write([NoList EXCEPT ![r] = "plain"])
         [] what = "responded" -> Write(Marked(r, "offered"))
         [] what = "withdrawn" -> Write(Marked(r, "plain"))
         [] what \in {"cancelled", "accepted"} -> Write(NoList)
         [] what = "done"      -> UNCHANGED <<list, armed>>
    /\ CASE what = "accepted" -> WriteBar(r)
         [] what = "done"     -> WriteBar(None)
         [] OTHER             -> UNCHANGED <<bar, raced>>
    /\ UNCHANGED <<me, server, listFetch, barFetch, missed, link, rejecting,
                   drops, failures, unlucky>>

\* useRejectOffer takes the offer off the page before it asks (onMutate).
AskReject(r) ==
    /\ me = "seeker" /\ list[r] = "offered"
    /\ Write([list EXCEPT ![r] = "plain"])
    /\ rejecting' = rejecting \union {r}
    /\ UNCHANGED <<me, server, listFetch, bars, link, replies, drops, failures,
                   unlucky>>

\* A request or its answer is lost.
Lost ==
    /\ Fails
    /\ \/ /\ replies # {} /\ replies' = {}
          /\ UNCHANGED <<rejecting, listFetch, barFetch, unlucky>>
       \/ /\ \E r \in rejecting : rejecting' = rejecting \ {r}
          /\ UNCHANGED <<replies, listFetch, barFetch, unlucky>>
       \/ /\ listFetch.at # "idle" /\ listFetch' = ListIdle
          /\ unlucky' = TRUE
          /\ UNCHANGED <<replies, rejecting, barFetch>>
       \/ /\ barFetch.at # "idle" /\ barFetch' = BarIdle
          /\ unlucky' = TRUE
          /\ UNCHANGED <<replies, rejecting, listFetch>>
    /\ UNCHANGED <<me, server, list, armed, bar, raced, missed, link, drops>>

Next ==
    \/ \E r \in Requests :
         \/ Create(r) \/ Cancel(r) \/ Sweep(r) \/ PassDeadline(r)
         \/ Respond(r) \/ Withdraw(r) \/ Reject(r) \/ Accept(r)
         \/ AskReject(r)
         \/ \E a \in replies : a[2] = r /\ Reply(a[1], r)
    \/ Complete
    \/ ListSnapshot \/ ListDone \/ BarSnapshot \/ BarDone
    \/ Poll \/ TimerFires \/ Drop \/ Connect \/ Join \/ Lost

\* Answers that are not lost arrive, the socket comes back, clocks and timers
\* run.  Users do nothing.  For the provider's page the deadline of an open
\* request may be as far off as it likes, so that the feed has to settle on open
\* requests and their offers as well.
Fairness ==
    /\ WF_vars(ListSnapshot) /\ WF_vars(ListDone)
    /\ WF_vars(BarSnapshot) /\ WF_vars(BarDone)
    /\ WF_vars(Poll) /\ WF_vars(TimerFires)
    /\ WF_vars(Connect) /\ WF_vars(Join)
    /\ \A r \in Requests :
         /\ WF_vars((me = "seeker" \/ status[r] # "open") /\ PassDeadline(r))
         /\ WF_vars(Sweep(r))
    /\ WF_vars(\E a \in replies : Reply(a[1], a[2]))

Spec == Init /\ [][Next]_vars /\ Fairness

-----------------------------------------------------------------------------
(* "Safety net so expired requests drop even without a socket event"       *)
(* (features/requests/hooks.ts): whatever is lost or overwritten, the      *)
(* provider's list ends up as the server's, offers included, unless users  *)
(* never stop changing what the server has.                                *)
Restless == []<><<TRUE>>_server
FeedSettles == me = "provider" => Restless \/ <>[](list = Incoming)

(* "Auto-clear the request from view when it expires" (seeker/page.tsx):   *)
(* a request that was closed, by whatever device or deadline, leaves the   *)
(* seeker's page in the end, unless a fetch of the page has failed, the    *)
(* one that the timer starts or another, or the timer fired too early.     *)
ClosedLeavesPage ==
    me = "seeker" =>
        <>[](unlucky \/ \A r \in Requests :
                           list[r] # "absent" => status[r] = "open")

(* "On (re)connect, re-sync engagement state" (engagement-bar.tsx): the    *)
(* bar ends up showing the active job, unless an event fell between the    *)
(* page's connect and the server's join, a fetch failed, or an answer to   *)
(* an older fetch overwrote what the page had been told.                   *)
BarSettles == <>[](bar = job \/ missed \/ raced \/ unlucky)

(* What BarSettles rests on, in every state: a page that has connected and *)
(* is not asking shows the active job, with the same exceptions.           *)
BarIsCurrent ==
    link # "down" /\ barFetch.at = "idle"
        => bar = job \/ missed \/ raced \/ unlucky

(* What ClosedLeavesPage rests on, in every state: a request on the        *)
(* seeker's page has a timer, or a fetch that the timer started is still   *)
(* to answer for it, unless a fetch of the page has failed or the timer    *)
(* fired too early.                                                        *)
ShownIsTimed ==
    me = "seeker" /\ list # NoList
        => armed \/ listFetch.at # "idle" \/ unlucky
=============================================================================
