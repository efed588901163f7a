---------------------------- MODULE CallSession -----------------------------
(***************************************************************************)
(* The voice call between the two people of an engagement                  *)
(* (frontend/src/features/calls/call-provider.tsx).  Each side is a state  *)
(* machine with three timers, one current peer connection and callbacks    *)
(* that resume after the browser has answered (ICE servers, microphone).   *)
(* Signals go through the server's relay, which awaits a query for each of *)
(* them: they may overtake each other, and one that meets a closed socket  *)
(* is lost (emitSocket, CallsGateway.relay).                               *)
(*                                                                         *)
(* Left out: candidates (call:ice), which only decide whether the browsers *)
(* find a path, and here they find one or not as they like; muting, texts  *)
(* and the ringtone.  Two equal signals in flight count as one.            *)
(***************************************************************************)
EXTENDS Naturals

CONSTANTS
    Seeker, Provider,   \* the two participants, one open page each
    Ids,                \* call ids, used or not yet used
    Dials,              \* who may use which id to start a call
    None                \* no call id

Peers == {Seeker, Provider}
Other(p) == IF p = Seeker THEN Provider ELSE Seeker

ASSUME CallAssumption ==
    /\ Seeker # Provider
    /\ None \notin Ids
    /\ Dials \subseteq Peers \X Ids

VARIABLES
    peer,       \* the refs, states and timers of each page
    signals,    \* signals on their way
    unused      \* ids no call has had yet

vars == <<peer, signals, unused>>

CallStatus == {"idle", "calling", "incoming", "connecting", "active", "ended"}
Events == {"invite", "accept", "decline", "offer", "answer", "end"}

\* An RTCPeerConnection that is not closed, by its iceConnectionState; "new"
\* is split by whether it has made an offer, "broken" is disconnected or failed.
Conn == [ice : {"none", "new", "offered", "checking", "connected", "broken"},
         of  : Ids \union {None}]           \* the call its remote side is from
NoConn == [ice |-> "none", of |-> None]

\* An async body that waits for the browser, and the call it was begun for.
Kinds == {"startCall", "accept", "onAccept"}

Page == [status : CallStatus,
         id     : Ids \union {None},        \* callIdRef
         caller : BOOLEAN,                  \* isCallerRef
         ring   : BOOLEAN,                  \* ringTimerRef is armed
         fail   : BOOLEAN,                  \* failTimerRef is armed
         linger : BOOLEAN,                  \* endedTimerRef is armed
         mic    : BOOLEAN,                  \* localRef holds a live stream
         pc     : Conn,                     \* pcRef
         lost   : SUBSET Conn,              \* overwritten in pcRef, never closed
         waits  : SUBSET (Kinds \X Ids)]

Signals == [to : Peers, event : Events, id : Ids]

TypeOK ==
    /\ peer \in [Peers -> Page]
    /\ signals \subseteq Signals
    /\ unused \subseteq Ids

Fresh == [status |-> "idle", id |-> None, caller |-> FALSE, ring |-> FALSE,
          fail |-> FALSE, linger |-> FALSE, mic |-> FALSE, pc |-> NoConn,
          lost |-> {}, waits |-> {}]

Init ==
    /\ peer = [p \in Peers |-> Fresh]
    /\ signals = {}
    /\ unused = Ids

-----------------------------------------------------------------------------
(* The helpers of the provider, on the page they change.                   *)

\* Mutants: the reason becomes the status; the timer is not armed.
FinishedAs(pg) == [pg EXCEPT !.status = "missed"]
\* cleanup() and the "why it ended" screen.  Bodies that wait go on waiting.
Finished(pg) == [pg EXCEPT !.status = "ended", !.linger = TRUE,
                           !.ring = FALSE, !.fail = FALSE, !.pc = NoConn,
                           !.mic = FALSE, !.id = None, !.caller = FALSE]

\* signal(): nothing is sent without a current call.
Signal(p, event) ==
    IF peer[p].id = None THEN {}
    ELSE {[to |-> Other(p), event |-> event, id |-> peer[p].id]}

\* A connection that has a remote side.  Nothing happens on the others.
Linked(c) == c.ice \in {"checking", "connected", "broken"}

\* createPeer() once the microphone is there: pcRef points to a new connection,
\* and the one it pointed to stays open.
WithPeer(pg, ice) ==
    [pg EXCEPT !.lost = IF Linked(pg.pc) THEN @ \union {pg.pc} ELSE @,
               !.pc = [ice |-> ice, of |-> None]]

\* Mutant: startCall forgets armRingTimeout.
ResumedUntimed(pg, kind) ==
    IF kind = "startCall" THEN pg
    ELSE WithPeer(pg, IF kind = "accept" THEN "new" ELSE "offered")
\* What an async body does once the browser has answered, and what it sends.
Resumed(pg, kind) ==
    IF kind = "startCall" THEN [pg EXCEPT !.ring = TRUE]
    ELSE WithPeer(pg, IF kind = "accept" THEN "new" ELSE "offered")
Sends == [startCall |-> "invite", accept |-> "accept", onAccept |-> "offer"]

Put(p, pg, sent) ==
    /\ peer' = [peer EXCEPT ![p] = pg]
    /\ signals' = signals \union sent

-----------------------------------------------------------------------------
(* The user's buttons.                                                     *)

StartCall(p, c) ==
    /\ peer[p].status = "idle"
    /\ c \in unused /\ <<p, c>> \in Dials
    /\ unused' = unused \ {c}
    /\ LET pg == [peer[p] EXCEPT !.status = "calling", !.id = c, !.caller = TRUE]
       IN  IF pg.mic
           THEN Put(p, Resumed(pg, "startCall"),
                    {[to |-> Other(p), event |-> "invite", id |-> c]})
           ELSE Put(p, [pg EXCEPT !.waits = @ \union {<<"startCall", c>>}], {})

Accept(p) ==
    /\ peer[p].status = "incoming"
    /\ LET pg == [peer[p] EXCEPT !.status = "connecting", !.caller = FALSE,
                                 !.ring = FALSE]
       IN  IF pg.mic
           THEN Put(p, Resumed(pg, "accept"), Signal(p, "accept"))
           ELSE Put(p, [pg EXCEPT !.waits = @ \union {<<"accept", pg.id>>}], {})
    /\ UNCHANGED unused

Decline(p) ==
    /\ peer[p].status = "incoming"
    /\ Put(p, Finished(peer[p]), Signal(p, "decline"))
    /\ UNCHANGED unused

HangUp(p) ==
    /\ peer[p].status \in {"calling", "connecting", "active"}
    /\ Put(p, Finished(peer[p]), Signal(p, "end"))
    /\ UNCHANGED unused

-----------------------------------------------------------------------------
(* A body that was waiting resumes.  It does not look whether its call is  *)
(* still the current one.                                                  *)

Resume(p, w) ==
    /\ w \in peer[p].waits
    /\ Put(p, Resumed([peer[p] EXCEPT !.waits = @ \ {w}, !.mic = TRUE], w[1]),
           Signal(p, Sends[w[1]]))
    /\ UNCHANGED unused

\* No microphone or no ICE servers: startCall and accept catch it, the
\* call:accept handler does not.
ResumeFails(p, w) ==
    LET pg == [peer[p] EXCEPT !.waits = @ \ {w}] IN
    /\ w \in peer[p].waits
    /\ \/ w[1] = "startCall" /\ Put(p, Finished(pg), {})
       \/ w[1] = "accept"    /\ Put(p, Finished(pg), Signal(p, "decline"))
       \/ w[1] = "onAccept"  /\ Put(p, pg, {})
    /\ UNCHANGED unused

-----------------------------------------------------------------------------
(* Signals arrive.                                                         *)

Receive(m, pg, sent) ==
    /\ peer' = [peer EXCEPT ![m.to] = pg]
    /\ signals' = (signals \ {m}) \union sent
    /\ UNCHANGED unused

Drop(m) == Receive(m, peer[m.to], {})

AnyCall(m) == peer[m.to].id # None                  \* mutant: no comparison
Mine(m) == peer[m.to].id = m.id

\* Mutant: a page that is in a call takes the new one.
OnInviteAtOnce(m) ==
    /\ m.event = "invite"
    /\ Receive(m, [peer[m.to] EXCEPT !.status = "incoming", !.id = m.id,
                                     !.caller = FALSE, !.ring = TRUE], {})
OnInvite(m) ==
    /\ m.event = "invite"
    /\ IF peer[m.to].status # "idle"
       THEN Receive(m, peer[m.to],                  \* busy: refuse this call
                    {[to |-> Other(m.to), event |-> "end", id |-> m.id]})
       ELSE Receive(m, [peer[m.to] EXCEPT !.status = "incoming", !.id = m.id,
                                          !.caller = FALSE, !.ring = TRUE], {})

OnAccept(m) ==
    LET pg == [peer[m.to] EXCEPT !.status = "connecting", !.ring = FALSE] IN
    /\ m.event = "accept"
    /\ Mine(m)
    /\ IF pg.mic
       THEN Receive(m, Resumed(pg, "onAccept"), Signal(m.to, "offer"))
       ELSE Receive(m, [pg EXCEPT !.waits = @ \union {<<"onAccept", m.id>>}], {})

\* An offer is applied to whatever connection is current, if there is one.
OnOffer(m) ==
    /\ m.event = "offer"
    /\ Mine(m)
    /\ peer[m.to].pc # NoConn
    /\ Receive(m, [peer[m.to] EXCEPT !.pc = [ice |-> "checking", of |-> m.id]],
               Signal(m.to, "answer"))

\* A connection that has made no offer refuses an answer.
OnAnswer(m) ==
    /\ m.event = "answer"
    /\ Mine(m)
    /\ peer[m.to].pc.ice \notin {"none", "new"}
    /\ Receive(m, [peer[m.to] EXCEPT !.pc = [ice |-> "checking", of |-> m.id]], {})

OnEnd(m) ==
    /\ m.event \in {"decline", "end"}
    /\ Mine(m)
    /\ Receive(m, Finished(peer[m.to]), {})

\* Lost on the way, or about a call that is not the current one.
Lose(m) == Drop(m)

-----------------------------------------------------------------------------
(* The browser: states of the current and the forgotten connections, and   *)
(* timers.                                                                 *)

Paths(p) == {peer[p].pc} \union peer[p].lost

\* The other page has a connection for the same call.
Matched(p, c) == \E d \in Paths(Other(p)) : Linked(d) /\ d.of = c.of

\* The page once its connection c, current or forgotten, is in state ice.
Moved(pg, c, ice) ==
    LET d == [ice |-> ice, of |-> c.of] IN
    {q \in {[pg EXCEPT !.pc = d]} : pg.pc = c} \union
    {q \in {[pg EXCEPT !.lost = (@ \ {c}) \union {d}]} : c \in pg.lost}

Connected(p, c) ==
    /\ c.ice \in {"checking", "broken"}
    /\ Matched(p, c)
    /\ \E pg \in Moved(peer[p], c, "connected") :
         Put(p, [pg EXCEPT !.status = "active", !.ring = FALSE, !.fail = FALSE], {})
    /\ UNCHANGED unused

\* Mutant: a broken connection does not start the countdown.
BrokenUntimed(p, c) ==
    /\ c.ice \in {"checking", "connected"}
    /\ \E pg \in Moved(peer[p], c, "broken") : Put(p, pg, {})
    /\ UNCHANGED unused
\* "disconnected" starts the countdown; "failed" has the caller offer again.
Broken(p, c) ==
    /\ c.ice \in {"checking", "connected"}
    /\ \E pg \in Moved(peer[p], c, "broken") :
         \/ Put(p, [pg EXCEPT !.fail = TRUE], {})
         \/ /\ pg.caller /\ pg.pc # NoConn
            /\ Put(p, [pg EXCEPT !.fail = TRUE], Signal(p, "offer"))
    /\ UNCHANGED unused

\* Mutant: the other side is told and this one rings on.
RingTimeoutOnlyTells(p) ==
    /\ peer[p].ring
    /\ Put(p, [peer[p] EXCEPT !.ring = FALSE], Signal(p, "end"))
    /\ UNCHANGED unused
RingTimeout(p) ==
    /\ peer[p].ring
    /\ Put(p, Finished(peer[p]), Signal(p, "end"))
    /\ UNCHANGED unused

FailTimeout(p) ==
    /\ peer[p].fail
    /\ Put(p, Finished(peer[p]), {})
    /\ UNCHANGED unused

\* The timer of the end screen does not look at the status either.
Linger(p) ==
    /\ peer[p].linger
    /\ Put(p, [peer[p] EXCEPT !.linger = FALSE, !.status = "idle"], {})
    /\ UNCHANGED unused

\* The page is closed or reloaded: nobody is told.
Vanish(p) ==
    /\ peer[p] # Fresh
    /\ Put(p, Fresh, {})
    /\ UNCHANGED unused

Next ==
    \/ \E p \in Peers :
         \/ \E c \in Ids : StartCall(p, c)
         \/ Accept(p) \/ Decline(p) \/ HangUp(p)
         \/ \E w \in Kinds \X Ids : Resume(p, w) \/ ResumeFails(p, w)
         \/ \E c \in Paths(p) : Connected(p, c) \/ Broken(p, c)
         \/ RingTimeout(p) \/ FailTimeout(p) \/ Linger(p)
         \/ Vanish(p)
    \/ \E m \in signals :
         \/ OnInvite(m) \/ OnAccept(m) \/ OnOffer(m) \/ OnAnswer(m) \/ OnEnd(m)
         \/ Lose(m)

Spec == Init /\ [][Next]_vars

\* The browser ends each check of a path, and sees a path to nowhere break.
PathOutcome(p) ==
    \E c \in Paths(p) :
        \/ c.ice = "checking" /\ (Connected(p, c) \/ Broken(p, c))
        \/ ~Matched(p, c) /\ Broken(p, c)

\* Timers fire and the browser answers: it grants or refuses the microphone,
\* and follows its paths.  Nothing is assumed of users and signals.
Fairness == \A p \in Peers :
    /\ WF_vars(RingTimeout(p))
    /\ WF_vars(FailTimeout(p))
    /\ WF_vars(\E w \in Kinds \X Ids : Resume(p, w) \/ ResumeFails(p, w))
    /\ WF_vars(PathOutcome(p))

FairSpec == Spec /\ Fairness

-----------------------------------------------------------------------------
(* Whoever rings has a timer that will end it, or still waits for the      *)
(* browser before the invitation: no callback, timer or signal of an       *)
(* earlier call disarms the timer of the current one.                      *)
RingingIsTimed == \A p \in Peers :
    /\ peer[p].status = "incoming" => peer[p].ring
    /\ peer[p].status = "calling" =>
         peer[p].ring \/ \E c \in Ids : <<"startCall", c>> \in peer[p].waits

(* Whoever talks has a path that works or is tried, or the countdown that  *)
(* ends the call: a path that broke while another was tried, was forgotten *)
(* or was offered again is never waited for without it.                    *)
TalkIsWatched == \A p \in Peers :
    peer[p].status = "active" =>
        \/ peer[p].fail
        \/ \E c \in Paths(p) : c.ice \in {"checking", "connected"}

(* The connection of a page is with the page's own call: no offer or       *)
(* answer of an earlier call, delivered late, and no callback that resumed *)
(* late, ties the current call to another one.                             *)
PathIsOfCall == \A p \in Peers :
    Linked(peer[p].pc) => peer[p].id # None /\ peer[p].pc.of = peer[p].id

\* The line that a page is on, as CallLine sees it.
LineOf(pg) ==
    [call  |-> pg.id,
     phase |-> IF pg.id = None THEN "free"
               ELSE IF pg.status \in {"calling", "incoming"} THEN "ringing"
               ELSE "talking"]

(* Each page's line is that of CallLine: a page is in one call at a time,  *)
(* leaves it before it is in another, and no late callback, timer, signal  *)
(* or forgotten connection takes the page back from talking to ringing, or *)
(* gives it a call that nobody dialled.  (A call that the page has left    *)
(* may ring again: two bodies of startCall that waited for the microphone  *)
(* at once both send the invitation of the later call, and the second may  *)
(* come when the other page has left it.)  A page that a forgotten connection shows *)
(* as active after its call has a free line: no signal is taken for it.    *)
Line == INSTANCE CallLine
    WITH Pages <- Peers, Calls <- Ids, NoCall <- None,
         line <- [p \in Peers |-> LineOf(peer[p])], dialled <- Ids \ unused
LineSpec == Line!Spec

(* "A ring timeout so a lost call:invite/call:accept doesn't leave someone *)
(* 'Calling...' forever" (docs/calling-feature.md).                        *)
RingingEnds == \A p \in Peers :
    peer[p].status \in {"calling", "incoming"}
        ~> peer[p].status \notin {"calling", "incoming"}

(* Between ringing and talking there is "callee accepts": a ringing page   *)
(* does not become active before its user has accepted                     *)
(* (docs/calling-feature.md, section 5).                                   *)
AnsweredByUser ==
    [][\A p \in Peers :
         peer[p].status = "incoming" => peer'[p].status # "active"]_vars
=============================================================================
