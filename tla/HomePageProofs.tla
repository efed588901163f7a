--------------------------- MODULE HomePageProofs ---------------------------
(***************************************************************************)
(* Theorems about HomePage, for every set of requests and every number of  *)
(* broken sockets and lost calls: the types, and the two facts that hold   *)
(* in every state and from which the page's caches come to what the server *)
(* has.  That they do come to it is liveness, and is checked by TLC.       *)
(***************************************************************************)
EXTENDS HomePage, FiniteSetTheorems, TLAPS

\* The types, part by part.
ServerTyped ==
    /\ status \in [Requests ->
                    {"unsent", "open", "cancelled", "expired", "fulfilled"}]
    /\ past \subseteq Requests /\ offers \subseteq Requests
    /\ rejected \subseteq Requests
    /\ job \in Requests \union {None}

ListTyped ==
    /\ me \in {"seeker", "provider"}
    /\ list \in Lists
    /\ listFetch \in [at : Ats, snap : Lists]
    /\ armed \in BOOLEAN

BarTyped ==
    /\ bar \in Requests \union {None}
    /\ barFetch \in [at : Ats, snap : Requests \union {None}]
    /\ missed \in BOOLEAN /\ raced \in BOOLEAN

Calls == {"created", "cancelled", "accepted", "done", "responded", "withdrawn"}

NetTyped ==
    /\ link \in {"down", "verifying", "joined"}
    /\ rejecting \subseteq Requests
    /\ replies \subseteq Calls \X Requests
    /\ Cardinality(replies) <= 1
    /\ drops \in 0 .. MaxDrops /\ failures \in 0 .. MaxFailures
    /\ unlucky \in BOOLEAN

\* What a fetch of the active job that has been answered, or none, is worth.
BarKnown ==
    link # "down" /\ ~missed /\ ~raced /\ ~unlucky =>
        /\ barFetch.at = "idle" => bar = job
        /\ barFetch.at = "answered" => barFetch.snap = job

\* A list without a timer shows an overdue request, which the fetch under way
\* will take away.
Timed ==
    me = "seeker" /\ list # NoList /\ ~armed /\ ~unlucky =>
        \E r \in past :
            /\ list[r] # "absent"
            /\ \/ listFetch.at = "asked"
               \/ listFetch.at = "answered" /\ listFetch.snap[r] = "absent"

\* What a handler of the server keeps, and what the page keeps.
ListInv == ListTyped /\ Timed
BarInv == BarTyped /\ BarKnown
HomeInv == ServerTyped /\ ListInv /\ BarInv /\ NetTyped

LEMMA Parts == TypeOK <=> ServerTyped /\ ListTyped /\ BarTyped /\ NetTyped
BY DEF TypeOK, ServerTyped, ListTyped, BarTyped, NetTyped, Calls

-----------------------------------------------------------------------------
(* Lists and fetches.                                                      *)

LEMMA NoListIsAList == NoList \in Lists /\ ListIdle \in [at : Ats, snap : Lists]
BY DEF NoList, Lists, Shown, ListIdle, Ats

LEMMA AnswerIsAList == Answer \in Lists
BY DEF Answer, Incoming, Mine, Flag, Lists, Shown

LEMMA NoBarIsABar == BarIdle \in [at : Ats, snap : Requests \union {None}]
BY DEF BarIdle, Ats

LEMMA AskedLists ==
    ASSUME AskList
    PROVE  /\ listFetch' \in [at : Ats, snap : Lists]
           /\ listFetch'.at = "asked"
BY NoListIsAList DEF AskList, Ats

LEMMA AskedBars ==
    ASSUME AskBar
    PROVE  /\ barFetch' \in [at : Ats, snap : Requests \union {None}]
           /\ barFetch'.at = "asked"
BY DEF AskBar, Ats

\* A write leaves a timer wherever it leaves a request.
LEMMA WriteArms ==
    ASSUME ListTyped, NEW l \in Lists, Write(l), me' = me,
           listFetch' \in [at : Ats, snap : Lists]
    PROVE  ListInv'
<1>1. list' = l /\ armed' = (me = "seeker" /\ l # NoList)
  BY DEF Write, Armed
<1>2. ListTyped'
  BY <1>1 DEF ListTyped
<1>3. Timed'
  BY <1>1 DEF Timed, NoList
<1>4. QED BY <1>2, <1>3 DEF ListInv

LEMMA ListStays ==
    ASSUME ListInv, UNCHANGED <<me, list, armed, listFetch, unlucky>>,
           past \subseteq past'
    PROVE  ListInv'
BY DEF ListInv, ListTyped, Timed, NoList

LEMMA ListIsAsked ==
    ASSUME ListInv, UNCHANGED <<me, list, armed, unlucky>>,
           past \subseteq past', AskList
    PROVE  ListInv'
BY AskedLists DEF ListInv, ListTyped, Timed, NoList

LEMMA BarStays ==
    ASSUME BarInv, UNCHANGED <<bar, barFetch, raced, missed, unlucky, job>>,
           link' = "down" \/ link' = link \/ link = "verifying"
    PROVE  BarInv'
BY DEF BarInv, BarTyped, BarKnown

\* A list with some requests taken out of it.
LEMMA WithoutIsAList ==
    ASSUME ListTyped, NEW Q PROVE Without(Q) \in Lists
BY DEF ListTyped, Lists, Shown, Without

-----------------------------------------------------------------------------
(* Pushes.                                                                 *)

LEMMA HearsKeeps ==
    ASSUME ListInv, NEW user, NEW gone, NEW ask,
           Hears(user, gone, ask), me' = me, unlucky' = unlucky,
           past \subseteq past'
    PROVE  ListInv' /\ UNCHANGED <<bar, barFetch, raced, missed>>
<1>1. UNCHANGED <<bar, barFetch, raced, missed>>
  BY DEF Hears, bars
<1>2. CASE me = user /\ link = "joined"
  <2>1. CASE gone = {}
    <3>1. UNCHANGED <<list, armed>>
      BY <1>2, <2>1 DEF Hears
    <3>2. AskList \/ listFetch' = listFetch
      BY <1>2 DEF Hears
    <3>3. QED BY <1>1, <3>1, <3>2, ListStays, ListIsAsked
  <2>2. CASE gone # {}
    <3>1. Write(Without(gone))
      BY <1>2, <2>2 DEF Hears
    <3>2. AskList \/ listFetch' = listFetch
      BY <1>2 DEF Hears
    <3>3. ListTyped
      BY DEF ListInv
    <3>4. listFetch' \in [at : Ats, snap : Lists]
      BY <3>2, <3>3, AskedLists DEF ListTyped
    <3>5. QED BY <1>1, <3>1, <3>3, <3>4, WithoutIsAList, WriteArms
  <2>3. QED BY <2>1, <2>2
<1>3. CASE ~(me = user /\ link = "joined")
  <2>1. UNCHANGED lists
    BY <1>3 DEF Hears
  <2>2. QED BY <2>1, <1>1, ListStays DEF lists
<1>4. QED BY <1>1, <1>2, <1>3

\* engagement:started makes the page ask; engagement:ended names the new job,
\* none.
LEMMA JobEventKeeps ==
    ASSUME ListInv, BarInv, NEW ev \in {"started", "ended"}, JobEvent(ev),
           ev = "ended" => job' = None,
           UNCHANGED <<me, unlucky, link>>, past \subseteq past',
           link \in {"down", "verifying", "joined"}
    PROVE  ListInv' /\ BarInv'
<1>1. ListInv'
  <2>1. UNCHANGED <<list, armed>>
    BY DEF JobEvent
  <2>2. AskList \/ listFetch' = listFetch
    BY DEF JobEvent, AskListIfShown
  <2>3. QED BY <2>1, <2>2, ListStays, ListIsAsked
<1>2. missed' = (missed \/ link = "verifying")
  BY DEF JobEvent
<1>3. CASE link # "joined"
  <2>1. UNCHANGED <<bar, barFetch, raced>>
    BY <1>3 DEF JobEvent
  <2>2. BarTyped'
    BY <1>2, <2>1 DEF BarInv, BarTyped
  <2>3. BarKnown'
    BY <1>2, <1>3 DEF BarKnown
  <2>4. QED BY <1>1, <2>2, <2>3 DEF BarInv
<1>4. CASE link = "joined" /\ ev = "started"
  <2>1. AskBar /\ UNCHANGED <<bar, raced>>
    BY <1>4 DEF JobEvent
  <2>2. BarTyped'
    BY <1>2, <2>1, AskedBars DEF BarInv, BarTyped
  <2>3. BarKnown'
    BY <2>1, AskedBars DEF BarKnown
  <2>4. QED BY <1>1, <2>2, <2>3 DEF BarInv
<1>5. CASE link = "joined" /\ ev = "ended"
  <2>1. /\ bar' = None /\ raced' = (raced \/ barFetch.at # "idle")
        /\ barFetch' = barFetch /\ job' = None
    BY <1>5 DEF JobEvent
  <2>2. BarTyped'
    BY <1>2, <2>1 DEF BarInv, BarTyped
  <2>3. BarKnown'
    BY <2>1 DEF BarKnown
  <2>4. QED BY <1>1, <2>2, <2>3 DEF BarInv
<1>6. QED BY <1>3, <1>4, <1>5

-----------------------------------------------------------------------------
(* The server's handlers.                                                  *)

LEMMA FailsCount ==
    ASSUME NetTyped, Fails PROVE failures' \in 0 .. MaxFailures
BY HomePageAssumption DEF NetTyped, Fails

LEMMA ByKeeps ==
    ASSUME NetTyped, NEW user, NEW r \in Requests, NEW seen,
           NEW reply \in Calls, By(user, r, seen, reply),
           failures' \in 0 .. MaxFailures
    PROVE  NetTyped' /\ UNCHANGED <<me, link, unlucky>>
<1>1. UNCHANGED <<me, link, rejecting, drops, unlucky>>
  BY DEF By
<1>2. replies' = replies \/ replies' = {<<reply, r>>}
  BY DEF By
<1>3. Cardinality({<<reply, r>>}) = 1
  BY FS_Singleton
<1>4. replies' \subseteq Calls \X Requests /\ Cardinality(replies') <= 1
  BY <1>2, <1>3 DEF NetTyped
<1>5. QED BY <1>1, <1>4 DEF NetTyped

\* A handler that pushes nothing about the job.
LEMMA HandlerKeeps ==
    ASSUME HomeInv, ServerTyped', NetTyped', NEW user, NEW gone, NEW ask,
           Hears(user, gone, ask), UNCHANGED <<me, link, unlucky, job>>,
           past \subseteq past'
    PROVE  HomeInv'
<1>1. ListInv' /\ UNCHANGED <<bar, barFetch, raced, missed>>
  BY HearsKeeps DEF HomeInv
<1>2. BarInv'
  BY <1>1, BarStays DEF HomeInv
<1>3. QED BY <1>1, <1>2 DEF HomeInv

LEMMA CreateStep ==
    ASSUME HomeInv, NEW r \in Requests, Create(r)
    PROVE  HomeInv'
<1> DEFINE old == {q \in Requests : status[q] = "open"}
<1>1. /\ status' = [q \in Requests |-> IF q = r THEN "open"
                                       ELSE IF q \in old THEN "cancelled"
                                       ELSE status[q]]
      /\ offers' = offers \ old
      /\ Hears("provider", old, TRUE)
      /\ By("seeker", r, {"absent"}, "created")
      /\ UNCHANGED <<past, rejected, job>>
  BY DEF Create
<1>2. ServerTyped'
  BY <1>1 DEF HomeInv, ServerTyped
<1>3. NetTyped' /\ UNCHANGED <<me, link, unlucky>>
  <2>1. failures' \in 0 .. MaxFailures
    BY DEF Create, HomeInv, NetTyped
  <2>2. QED BY <1>1, <2>1, ByKeeps DEF HomeInv, Calls
<1> HIDE DEF old
<1>4. QED BY <1>1, <1>2, <1>3, HandlerKeeps

LEMMA CloseStep ==
    ASSUME HomeInv, NEW r \in Requests, Cancel(r) \/ Sweep(r)
    PROVE  HomeInv'
<1>1. NetTyped' /\ UNCHANGED <<me, link, unlucky>>
  <2>1. CASE Cancel(r)
    <3>1. failures' \in 0 .. MaxFailures
      BY <2>1 DEF Cancel, HomeInv, NetTyped
    <3>2. QED BY <2>1, <3>1, ByKeeps DEF Cancel, HomeInv, Calls
  <2>2. CASE Sweep(r)
    BY <2>2 DEF Sweep, net, HomeInv, NetTyped
  <2>3. QED BY <2>1, <2>2
<1>2. (\E how \in {"cancelled", "expired"} : Closes(r, how))
      \/ UNCHANGED <<server, lists, bars>>
  BY DEF Cancel, Sweep
<1>3. CASE \E how \in {"cancelled", "expired"} : Closes(r, how)
  <2>1. PICK how \in {"cancelled", "expired"} : Closes(r, how)
    BY <1>3
  <2>2. ServerTyped' /\ UNCHANGED <<past, job>>
    BY <2>1 DEF Closes, HomeInv, ServerTyped
  <2>3. PICK gone : Hears("provider", gone, FALSE)
    BY <2>1 DEF Closes
  <2>4. QED BY <1>1, <2>2, <2>3, HandlerKeeps
<1>4. CASE UNCHANGED <<server, lists, bars>>
  <2>1. /\ UNCHANGED <<status, past, offers, rejected, job>>
        /\ UNCHANGED <<list, listFetch, armed, bar, barFetch, raced, missed>>
    BY <1>4 DEF server, lists, bars
  <2>2. ServerTyped'
    BY <2>1 DEF HomeInv, ServerTyped
  <2>3. ListInv' /\ BarInv'
    BY <1>1, <2>1, ListStays, BarStays DEF HomeInv
  <2>4. QED BY <1>1, <2>2, <2>3 DEF HomeInv
<1>5. QED BY <1>2, <1>3, <1>4

LEMMA PassDeadlineStep ==
    ASSUME HomeInv, NEW r \in Requests, PassDeadline(r)
    PROVE  HomeInv'
<1>1. /\ past' = past \union {r}
      /\ UNCHANGED <<me, status, offers, rejected, job, unlucky>>
      /\ UNCHANGED <<list, listFetch, armed, bar, barFetch, raced, missed>>
      /\ UNCHANGED <<link, replies, rejecting, drops, failures>>
  BY DEF PassDeadline, lists, bars, net
<1>2. ServerTyped' /\ NetTyped'
  BY <1>1 DEF HomeInv, ServerTyped, NetTyped
<1>3. ListInv' /\ BarInv'
  BY <1>1, ListStays, BarStays DEF HomeInv
<1>4. QED BY <1>2, <1>3 DEF HomeInv

LEMMA OfferStep ==
    ASSUME HomeInv, NEW r \in Requests, Respond(r) \/ Withdraw(r) \/ Reject(r)
    PROVE  HomeInv'
<1>1. ServerTyped' /\ UNCHANGED <<past, job>>
  BY DEF Respond, Withdraw, Reject, HomeInv, ServerTyped
<1>2. NetTyped' /\ UNCHANGED <<me, link, unlucky>>
  <2>1. CASE Respond(r)
    <3>1. failures' \in 0 .. MaxFailures
      BY <2>1 DEF Respond, HomeInv, NetTyped
    <3>2. QED BY <2>1, <3>1, ByKeeps DEF Respond, HomeInv, Calls
  <2>2. CASE Withdraw(r)
    <3>1. failures' \in 0 .. MaxFailures
      BY <2>2, FailsCount DEF Withdraw, HomeInv, NetTyped
    <3>2. QED BY <2>2, <3>1, ByKeeps DEF Withdraw, HomeInv, Calls
  <2>3. CASE Reject(r)
    BY <2>3 DEF Reject, HomeInv, NetTyped
  <2>4. QED BY <2>1, <2>2, <2>3
<1>3. Hears("seeker", {}, TRUE) \/ Hears("provider", {r}, FALSE)
  BY DEF Respond, Withdraw, Reject
<1>4. QED BY <1>1, <1>2, <1>3, HandlerKeeps

LEMMA JobStep ==
    ASSUME HomeInv, (\E r \in Requests : Accept(r)) \/ Complete
    PROVE  HomeInv'
<1>1. ListInv /\ BarInv /\ link \in {"down", "verifying", "joined"}
  BY DEF HomeInv, NetTyped
<1>2. ASSUME NEW r \in Requests, Accept(r) PROVE HomeInv'
  <2>1. ServerTyped' /\ past' = past /\ JobEvent("started")
    BY <1>2 DEF Accept, HomeInv, ServerTyped
  <2>2. NetTyped' /\ UNCHANGED <<me, link, unlucky>>
    <3>1. failures' \in 0 .. MaxFailures
      BY <1>2 DEF Accept, HomeInv, NetTyped
    <3>2. QED BY <1>2, <3>1, ByKeeps DEF Accept, HomeInv, Calls
  <2>3. ListInv' /\ BarInv'
    BY <1>1, <2>1, <2>2, JobEventKeeps
  <2>4. QED BY <2>1, <2>2, <2>3 DEF HomeInv
<1>3. CASE Complete
  <2>1. /\ job' = None /\ JobEvent("ended")
        /\ UNCHANGED <<me, status, past, offers, rejected, link, rejecting,
                       drops, failures, unlucky>>
    BY <1>3 DEF Complete
  <2>2. ServerTyped'
    BY <2>1 DEF HomeInv, ServerTyped
  <2>3. NetTyped'
    <3>1. \/ replies' = replies
          \/ job # None /\ replies' = {<<"done", job>>}
      BY <1>3 DEF Complete
    <3>2. Cardinality({<<"done", job>>}) = 1
      BY FS_Singleton
    <3>3. job # None => job \in Requests
      BY DEF HomeInv, ServerTyped
    <3>4. replies' \subseteq Calls \X Requests /\ Cardinality(replies') <= 1
      BY <3>1, <3>2, <3>3 DEF HomeInv, NetTyped, Calls
    <3>5. QED BY <2>1, <3>4 DEF HomeInv, NetTyped
  <2>4. ListInv' /\ BarInv'
    BY <1>1, <2>1, JobEventKeeps
  <2>5. QED BY <2>2, <2>3, <2>4 DEF HomeInv
<1>4. QED BY <1>2, <1>3

-----------------------------------------------------------------------------
(* The page's own steps.                                                   *)

\* A step that concerns the list only.
LEMMA ListStep ==
    ASSUME HomeInv, ListInv', NetTyped', UNCHANGED <<server, bars, link>>,
           unlucky => unlucky'
    PROVE  HomeInv'
<1>1. ServerTyped'
  BY DEF HomeInv, ServerTyped, server
<1>2. BarInv'
  BY DEF HomeInv, BarInv, BarTyped, BarKnown, bars, server
<1>3. QED BY <1>1, <1>2 DEF HomeInv

\* A step that concerns the active job only.
LEMMA BarStep ==
    ASSUME HomeInv, BarInv', NetTyped', UNCHANGED <<me, server, lists>>,
           unlucky => unlucky'
    PROVE  HomeInv'
<1>1. ServerTyped'
  BY DEF HomeInv, ServerTyped, server
<1>2. ListInv'
  BY DEF HomeInv, ListInv, ListTyped, Timed, NoList, lists, server
<1>3. QED BY <1>1, <1>2 DEF HomeInv

LEMMA ListFetchStep ==
    ASSUME HomeInv, ListSnapshot \/ ListDone \/ Poll
    PROVE  HomeInv'
<1>1. /\ ListInv /\ ListTyped
      /\ UNCHANGED <<me, server, bars, net, unlucky>>
  BY DEF HomeInv, ListInv, ListSnapshot, ListDone, Poll
<1>2. NetTyped'
  BY <1>1 DEF HomeInv, NetTyped, net
<1>3. past' = past /\ link' = link
  BY <1>1 DEF server, net
<1>4. CASE ListSnapshot
  <2>1. /\ listFetch.at = "asked" /\ UNCHANGED <<list, armed>>
        /\ listFetch' = [at |-> "answered", snap |-> Answer]
    BY <1>4 DEF ListSnapshot
  <2>2. ListTyped'
    BY <1>1, <2>1, AnswerIsAList DEF ListTyped, Ats
  <2>3. ASSUME NEW r \in past, me = "seeker", list[r] # "absent"
        PROVE  Answer[r] = "absent"
    <3>1. r \in Requests
      BY DEF HomeInv, ServerTyped
    <3>2. QED BY <2>3, <3>1 DEF Answer, Mine, Usable
  <2>4. Timed'
    BY <1>1, <1>3, <2>1, <2>3 DEF ListInv, Timed, NoList
  <2>5. QED BY <1>1, <1>2, <1>3, <2>2, <2>4, ListStep DEF ListInv
<1>5. CASE ListDone /\ listFetch.snap = list
  <2>1. /\ listFetch.at = "answered" /\ UNCHANGED <<list, armed>>
        /\ listFetch' = ListIdle
    BY <1>5 DEF ListDone
  <2>2. ListTyped'
    BY <1>1, <2>1, NoListIsAList DEF ListTyped
  <2>3. Timed'
    BY <1>1, <1>3, <1>5, <2>1 DEF ListInv, Timed, NoList
  <2>4. QED BY <1>1, <1>2, <1>3, <2>2, <2>3, ListStep DEF ListInv
<1>6. CASE ListDone /\ listFetch.snap # list
  <2>1. Write(listFetch.snap) /\ listFetch' = ListIdle
    BY <1>6 DEF ListDone
  <2>2. listFetch.snap \in Lists
    BY <1>1 DEF ListTyped
  <2>3. ListInv'
    BY <1>1, <2>1, <2>2, NoListIsAList, WriteArms
  <2>4. QED BY <1>1, <1>2, <1>3, <2>3, ListStep
<1>7. CASE Poll
  <2>1. AskList /\ UNCHANGED <<list, armed>>
    BY <1>7 DEF Poll
  <2>2. ListInv'
    BY <1>1, <1>3, <2>1, ListIsAsked
  <2>3. QED BY <1>1, <1>2, <1>3, <2>2, ListStep
<1>8. QED BY <1>4, <1>5, <1>6, <1>7

LEMMA BarFetchStep ==
    ASSUME HomeInv, BarSnapshot \/ BarDone
    PROVE  HomeInv'
<1>1. /\ BarTyped /\ BarKnown /\ job \in Requests \union {None}
      /\ UNCHANGED <<me, server, lists, raced, missed, net, unlucky>>
  BY DEF HomeInv, BarInv, ServerTyped, BarSnapshot, BarDone
<1>2. NetTyped' /\ link' = link /\ job' = job
  BY <1>1 DEF HomeInv, NetTyped, net, server
<1>3. CASE BarSnapshot
  <2>1. /\ bar' = bar
        /\ barFetch' = [at |-> "answered", snap |-> job]
    BY <1>3 DEF BarSnapshot
  <2>2. BarTyped' /\ BarKnown'
    BY <1>1, <1>2, <2>1 DEF BarTyped, BarKnown, Ats
  <2>3. QED BY <1>1, <1>2, <2>2, BarStep DEF BarInv
<1>4. CASE BarDone
  <2>1. /\ barFetch.at = "answered" /\ barFetch' = BarIdle
        /\ bar' = barFetch.snap
    BY <1>4 DEF BarDone
  <2>2. BarTyped'
    BY <1>1, <2>1, NoBarIsABar DEF BarTyped
  <2>3. BarKnown'
    BY <1>1, <1>2, <2>1 DEF BarKnown, BarIdle
  <2>4. QED BY <1>1, <1>2, <2>2, <2>3, BarStep DEF BarInv
<1>5. QED BY <1>3, <1>4

\* The timer starts the fetch that its request needs, or counts as unlucky.
LEMMA TimerStep ==
    ASSUME HomeInv, TimerFires
    PROVE  HomeInv'
<1>1. /\ armed' = FALSE /\ AskList
      /\ UNCHANGED <<me, server, list, bars, link, replies, rejecting, drops>>
      /\ \/ /\ \E r \in past : list[r] # "absent"
            /\ UNCHANGED <<failures, unlucky>>
         \/ Fails /\ unlucky' = TRUE
  BY DEF TimerFires
<1>2. NetTyped'
  <2>1. failures' \in 0 .. MaxFailures /\ unlucky' \in BOOLEAN
    BY <1>1, FailsCount DEF HomeInv, NetTyped
  <2>2. QED BY <1>1, <2>1 DEF HomeInv, NetTyped
<1>3. ListTyped'
  BY <1>1, AskedLists DEF HomeInv, ListInv, ListTyped
<1>4. Timed'
  BY <1>1, AskedLists DEF Timed, server
<1>5. QED BY <1>1, <1>2, <1>3, <1>4, ListStep DEF ListInv, HomeInv, NetTyped

LEMMA SocketStep ==
    ASSUME HomeInv, Drop \/ Connect \/ Join
    PROVE  HomeInv'
<1>1. /\ UNCHANGED <<me, server, list, armed, bar, raced, missed, replies,
                     rejecting, failures, unlucky>>
      /\ AskList \/ listFetch' = listFetch
      /\ \/ link' = "down" /\ barFetch' = barFetch
         \/ AskBar
         \/ link = "verifying" /\ barFetch' = barFetch
  BY DEF Drop, Connect, Join, AskListIfShown, lists, bars
<1>2. NetTyped'
  <2>1. link' \in {"down", "verifying", "joined"} /\ drops' \in 0 .. MaxDrops
    BY HomePageAssumption DEF HomeInv, NetTyped, Drop, Connect, Join
  <2>2. QED BY <1>1, <2>1 DEF HomeInv, NetTyped
<1>3. ServerTyped' /\ past' = past /\ job' = job
  BY <1>1 DEF HomeInv, ServerTyped, server
<1>4. ListInv'
  BY <1>1, <1>3, ListStays, ListIsAsked DEF HomeInv
<1>5. BarInv'
  <2>1. CASE AskBar
    BY <1>1, <2>1, AskedBars DEF HomeInv, BarInv, BarTyped, BarKnown
  <2>2. CASE ~AskBar
    BY <1>1, <1>3, <2>2, BarStays DEF HomeInv
  <2>3. QED BY <2>1, <2>2
<1>6. QED BY <1>2, <1>3, <1>4, <1>5 DEF HomeInv

-----------------------------------------------------------------------------
(* The answers to the user's own requests.                                 *)

LEMMA MarkedIsAList ==
    ASSUME ListTyped, NEW r \in Requests, NEW flag \in Shown
    PROVE  Marked(r, flag) \in Lists
BY DEF ListTyped, Lists, Marked

LEMMA OneIsAList ==
    ASSUME NEW r \in Requests PROVE [NoList EXCEPT ![r] = "plain"] \in Lists
BY DEF NoList, Lists, Shown

LEMMA ReplyStep ==
    ASSUME HomeInv, NEW r \in Requests, NEW what, Reply(what, r)
    PROVE  HomeInv'
<1>1. /\ replies' = {}
      /\ UNCHANGED <<me, server, listFetch, barFetch, missed, link, rejecting,
                     drops, failures, unlucky>>
      /\ what \in Calls
  BY DEF Reply, HomeInv, NetTyped
<1>2. NetTyped'
  BY <1>1, FS_EmptySet DEF HomeInv, NetTyped
<1>3. ServerTyped' /\ past' = past /\ job' = job
  BY <1>1 DEF HomeInv, ServerTyped, server
<1>4. ListInv'
  <2>1. ListTyped /\ listFetch' \in [at : Ats, snap : Lists] /\ me' = me
    BY <1>1 DEF HomeInv, ListInv, ListTyped
  <2>2. CASE what = "done"
    <3>1. UNCHANGED <<list, armed>>
      BY <2>2 DEF Reply
    <3>2. QED BY <1>1, <1>3, <3>1, ListStays DEF HomeInv
  <2>3. CASE what # "done"
    <3>1. \/ Write([NoList EXCEPT ![r] = "plain"])
          \/ Write(Marked(r, "offered"))
          \/ Write(Marked(r, "plain"))
          \/ Write(NoList)
      BY <1>1, <2>3 DEF Reply, Calls
    <3>2. "offered" \in Shown /\ "plain" \in Shown
      BY DEF Shown
    <3>3. QED BY <2>1, <3>1, <3>2, MarkedIsAList, OneIsAList, NoListIsAList,
                 WriteArms
  <2>4. QED BY <2>2, <2>3
<1>5. BarInv'
  <2>1. WriteBar(r) \/ WriteBar(None) \/ UNCHANGED <<bar, raced>>
    BY <1>1 DEF Reply, Calls
  <2>2. CASE UNCHANGED <<bar, raced>>
    BY <1>1, <1>3, <2>2, BarStays DEF HomeInv
  <2>3. ASSUME NEW j \in Requests \union {None}, WriteBar(j)
        PROVE  BarInv'
    <3>1. bar' = j /\ raced' = (raced \/ barFetch.at # "idle" \/ j # job)
      BY <2>3 DEF WriteBar
    <3>2. BarTyped'
      BY <1>1, <3>1 DEF HomeInv, BarInv, BarTyped
    <3>3. BarKnown'
      BY <1>1, <1>3, <3>1 DEF BarKnown
    <3>4. QED BY <3>2, <3>3 DEF BarInv
  <2>4. QED BY <2>1, <2>2, <2>3
<1>6. QED BY <1>2, <1>3, <1>4, <1>5 DEF HomeInv

LEMMA AskRejectStep ==
    ASSUME HomeInv, NEW r \in Requests, AskReject(r)
    PROVE  HomeInv'
<1>1. /\ Write([list EXCEPT ![r] = "plain"])
      /\ rejecting' = rejecting \union {r}
      /\ UNCHANGED <<me, server, listFetch, bars, link, replies, drops, failures,
                     unlucky>>
  BY DEF AskReject
<1>2. NetTyped'
  BY <1>1 DEF HomeInv, NetTyped
<1>3. ListTyped /\ [list EXCEPT ![r] = "plain"] \in Lists
  BY DEF HomeInv, ListInv, ListTyped, Lists, Shown
<1>4. ListInv'
  BY <1>1, <1>3, WriteArms DEF ListTyped
<1>5. QED BY <1>1, <1>2, <1>4, ListStep

LEMMA LostStep ==
    ASSUME HomeInv, Lost
    PROVE  HomeInv'
<1>1. /\ failures < MaxFailures /\ failures' = failures + 1
      /\ UNCHANGED <<me, server, list, armed, bar, raced, missed, link, drops>>
  BY DEF Lost, Fails
<1>2. /\ replies' = replies \/ replies' = {}
      /\ rejecting' \subseteq rejecting
      /\ unlucky' = unlucky \/ unlucky' = TRUE
  BY DEF Lost
<1>3. NetTyped'
  <2>1. failures' \in 0 .. MaxFailures /\ unlucky' \in BOOLEAN
    BY <1>2, FailsCount DEF Lost, HomeInv, NetTyped
  <2>2. replies' \subseteq Calls \X Requests /\ Cardinality(replies') <= 1
    BY <1>2, FS_EmptySet DEF HomeInv, NetTyped
  <2>3. QED BY <1>1, <1>2, <2>1, <2>2 DEF HomeInv, NetTyped
<1>4. ServerTyped' /\ past' = past /\ job' = job
  BY <1>1 DEF HomeInv, ServerTyped, server
<1>5. \/ UNCHANGED <<listFetch, unlucky>>
      \/ listFetch' \in {listFetch, ListIdle} /\ unlucky' = TRUE
  BY DEF Lost
<1>6. \/ UNCHANGED <<barFetch, unlucky>>
      \/ barFetch' \in {barFetch, BarIdle} /\ unlucky' = TRUE
  BY DEF Lost
<1>7. ListInv'
  <2>1. CASE UNCHANGED <<listFetch, unlucky>>
    BY <1>1, <1>4, <2>1, ListStays DEF HomeInv
  <2>2. CASE listFetch' \in {listFetch, ListIdle} /\ unlucky' = TRUE
    BY <1>1, <2>2, NoListIsAList DEF HomeInv, ListInv, ListTyped, Timed
  <2>3. QED BY <1>5, <2>1, <2>2
<1>8. BarInv'
  <2>1. CASE UNCHANGED <<barFetch, unlucky>>
    BY <1>1, <1>4, <2>1, BarStays DEF HomeInv
  <2>2. CASE barFetch' \in {barFetch, BarIdle} /\ unlucky' = TRUE
    BY <1>1, <2>2, NoBarIsABar DEF HomeInv, BarInv, BarTyped, BarKnown
  <2>3. QED BY <1>6, <2>1, <2>2
<1>9. QED BY <1>3, <1>4, <1>7, <1>8 DEF HomeInv

-----------------------------------------------------------------------------
LEMMA Initially == Init => HomeInv
<1> SUFFICES ASSUME Init PROVE HomeInv
  OBVIOUS
<1>1. ServerTyped
  BY DEF Init, ServerTyped
<1>2. ListInv
  BY NoListIsAList DEF Init, ListInv, ListTyped, Timed
<1>3. BarInv
  BY NoBarIsABar DEF Init, BarInv, BarTyped, BarKnown
<1>4. NetTyped
  <2>1. drops \in 0 .. MaxDrops /\ failures \in 0 .. MaxFailures
    BY HomePageAssumption DEF Init
  <2>2. replies \subseteq Calls \X Requests /\ Cardinality(replies) <= 1
    <3>1. replies = {} /\ Cardinality({}) = 0
      BY FS_EmptySet DEF Init
    <3>2. Cardinality(replies) <= 1
      BY <3>1
    <3>3. QED BY <3>1, <3>2
  <2>3. /\ link \in {"down", "verifying", "joined"}
        /\ rejecting \subseteq Requests /\ unlucky \in BOOLEAN
    BY DEF Init
  <2>4. QED BY <2>1, <2>2, <2>3 DEF NetTyped
<1>5. QED BY <1>1, <1>2, <1>3, <1>4 DEF HomeInv

LEMMA Inductive == HomeInv /\ [Next]_vars => HomeInv'
<1> SUFFICES ASSUME HomeInv, [Next]_vars PROVE HomeInv'
  OBVIOUS
<1>1. ASSUME NEW r \in Requests,
             \/ Create(r) \/ Cancel(r) \/ Sweep(r) \/ PassDeadline(r)
             \/ Respond(r) \/ Withdraw(r) \/ Reject(r) \/ AskReject(r)
      PROVE  HomeInv'
  BY <1>1, CreateStep, CloseStep, PassDeadlineStep, OfferStep, AskRejectStep
<1>2. CASE (\E r \in Requests : Accept(r)) \/ Complete
  BY <1>2, JobStep
<1>3. ASSUME NEW r \in Requests, \E a \in replies : a[2] = r /\ Reply(a[1], r)
      PROVE  HomeInv'
  BY <1>3, ReplyStep
<1>4. CASE ListSnapshot \/ ListDone \/ Poll
  BY <1>4, ListFetchStep
<1>5. CASE BarSnapshot \/ BarDone
  BY <1>5, BarFetchStep
<1>6. CASE TimerFires
  BY <1>6, TimerStep
<1>7. CASE Drop \/ Connect \/ Join
  BY <1>7, SocketStep
<1>8. CASE Lost
  BY <1>8, LostStep
<1>9. CASE UNCHANGED vars
  <2>1. NetTyped'
    BY <1>9 DEF vars, net, HomeInv, NetTyped
  <2>2. UNCHANGED <<me, server, lists, bars, link, unlucky>>
    BY <1>9 DEF vars, net
  <2>3. ListInv'
    BY <2>2 DEF HomeInv, ListInv, ListTyped, Timed, NoList, lists, server
  <2>4. QED BY <2>1, <2>2, <2>3, ListStep
<1>10. QED BY <1>1, <1>2, <1>3, <1>4, <1>5, <1>6, <1>7, <1>8, <1>9 DEF Next

LEMMA Invariance == Spec => []HomeInv
<1>1. Init => HomeInv
  BY Initially
<1>2. HomeInv /\ [Next]_vars => HomeInv'
  BY Inductive
<1>3. QED BY <1>1, <1>2, PTL DEF Spec

\* The rows, the caches and the answers under way keep their types, and the
\* page awaits one answer at a time, for any set of requests.
THEOREM HomeTypeCorrect == Spec => []TypeOK
<1>1. HomeInv => TypeOK
  BY Parts DEF HomeInv, ListInv, BarInv
<1>2. QED BY <1>1, Invariance, PTL

\* Whatever order pushes, answers and broken sockets come in, the bar of a
\* connected page that asks nobody shows the active job, unless one of the
\* three named gaps was hit (engagement-bar.tsx).
THEOREM BarShowsTheJob == Spec => []BarIsCurrent
<1>1. HomeInv => BarIsCurrent
  BY DEF HomeInv, BarInv, BarKnown, BarIsCurrent
<1>2. QED BY <1>1, Invariance, PTL

\* No write of the seeker's list leaves a request without a timer or a fetch
\* to take it away (the effect of seeker/page.tsx that arms the timer), unless a
\* fetch of the page has failed or the timer fired early.
THEOREM ListIsTimed == Spec => []ShownIsTimed
<1>1. ASSUME HomeInv PROVE ShownIsTimed
  BY <1>1 DEF HomeInv, ListInv, ListTyped, Timed, ShownIsTimed
<1>2. QED BY <1>1, Invariance, PTL
=============================================================================
