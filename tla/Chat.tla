-------------------------------- MODULE Chat --------------------------------
(***************************************************************************)
(* An open conversation: what one user's chat page shows of the messages   *)
(* that the server stores (EngagementsService.send and listMessages, the   *)
(* socket of EventsGateway, and the query cache of the page).              *)
(*                                                                         *)
(* The list on the page has three sources that race: the answer to a       *)
(* fetch, which replaces the whole list; a push, which appends; and the    *)
(* user's own texts, shown as a bubble until their answer comes.  A push   *)
(* reaches only a socket that has joined its room at that moment.  And a   *)
(* fetch is answered with the oldest messages of the thread, PageLimit of  *)
(* them: what comes after these is on the page only until the next fetch.  *)
(***************************************************************************)
EXTENDS Integers, FiniteSets

CONSTANTS
    Texts,          \* what this user sends
    Incoming,       \* what the other one sends
    PageLimit,      \* how many messages listMessages answers (take: 200)
    MaxDrops,       \* bound: how often the socket breaks
    MaxFailures     \* bound: how many requests fail

ASSUME ChatAssumption ==
    /\ Texts \intersect Incoming = {}
    /\ PageLimit \in Nat
    /\ MaxDrops \in Nat /\ MaxFailures \in Nat

VARIABLES
    link,           \* the socket
    token,          \* the access token that the page holds
    drops, failures,
    stored,         \* how often the server has stored a message
    early,          \* how often it is among the oldest PageLimit of the thread
    room,           \* how many more messages will be
    toEmit,         \* stored messages whose push is still to come
    wire,           \* pushes on their way to the page
    fetch,          \* the fetch of the thread
    cached,         \* the page has a list
    copies,         \* how often the list has a message of the server
    bubble,         \* the bubble of an own text that is not confirmed
    post,           \* the request that sends an own text
    late,           \* requests under way that the page has given up
    lost,           \* how often a send of this text has failed
    unsynced        \* a fetch has failed

socket == <<link, token, drops>>
thread == <<stored, early, room>>
server == <<thread, toEmit, wire>>
list   == <<cached, copies, bubble>>
sends  == <<post, late, lost>>
vars   == <<socket, failures, server, fetch, list, sends, unsynced>>

Messages == Texts \union Incoming
Counts == 0 .. (MaxFailures + 2)

TypeOK ==
    /\ link \in {"down", "verifying", "expired", "joined", "refused"}
    /\ token \in {"fresh", "expired"}
    /\ drops \in 0 .. MaxDrops /\ failures \in 0 .. MaxFailures
    /\ stored \in [Messages -> Counts]
    /\ early \in [Messages -> Counts] /\ room \in 0 .. PageLimit
    /\ toEmit \subseteq Incoming /\ wire \subseteq Incoming
    /\ fetch \in [at : {"idle", "asked", "answered"},
                  snap : [Messages -> Counts]]
    /\ cached \in BOOLEAN
    /\ copies \in [Messages -> Counts]
    /\ bubble \in [Texts -> {"none", "sending", "failed"}]
    /\ post \in [Texts -> {"none", "asked", "stored"}]
    /\ late \in [Texts -> 0 .. MaxFailures]
    /\ lost \in [Texts -> 0 .. MaxFailures]
    /\ unsynced \in BOOLEAN

Nothing == [m \in Messages |-> 0]
Asked == [at |-> "asked", snap |-> Nothing]

\* The page opens, on a thread that may have many messages already, and
\* fetches it.
Init ==
    /\ link \in {"down", "joined"} /\ token = "fresh"
    /\ drops = 0 /\ failures = 0
    /\ stored = Nothing /\ early = Nothing /\ room \in 0 .. PageLimit
    /\ toEmit = {} /\ wire = {}
    /\ fetch = Asked
    /\ cached = FALSE /\ copies = Nothing
    /\ bubble = [t \in Texts |-> "none"]
    /\ post = [t \in Texts |-> "none"]
    /\ late = [t \in Texts |-> 0] /\ lost = [t \in Texts |-> 0]
    /\ unsynced = FALSE

-----------------------------------------------------------------------------
(* The socket.                                                             *)

AskedUnlessFetching ==          \* mutant: an earlier fetch may answer for it
    IF fetch.at = "idle" THEN Asked ELSE fetch
\* invalidateQueries starts a fetch; the answer of an earlier one is ignored.
\* Only the page's first fetch goes on: there is no list to keep meanwhile.
Invalidated == IF cached \/ fetch.at = "idle" THEN Asked ELSE fetch

Drop ==
    /\ link \in {"verifying", "expired", "joined"}
    /\ drops < MaxDrops /\ drops' = drops + 1
    /\ link' = "down"
    /\ wire' = {}
    /\ UNCHANGED <<token, failures, thread, toEmit, fetch, list, sends,
                   unsynced>>

\* The client sends the token that it has, and the page hears "connect".
Connect ==
    /\ link = "down"
    /\ link' = IF token = "fresh" THEN "verifying" ELSE "expired"
    /\ fetch' = Invalidated
    /\ UNCHANGED <<token, drops, failures, server, list, sends, unsynced>>

\* handleConnection verifies the token; only then does the socket join the
\* user's room.  A client that the server disconnects does not try again.
Verify ==
    /\ \/ link = "verifying" /\ link' = "joined"
       \/ link = "expired" /\ link' = "refused"
    /\ UNCHANGED <<token, drops, failures, server, fetch, list, sends,
                   unsynced>>

\* ACCESS_TOKEN_TTL
Expire ==
    /\ token = "fresh" /\ token' = "expired"
    /\ UNCHANGED <<link, drops, failures, server, fetch, list, sends,
                   unsynced>>

-----------------------------------------------------------------------------
(* The thread.  A request that meets a 401 gets a new token first.         *)

\* listMessages: "order: { createdAt: 'ASC' }, take: 200".
Answered(n) == [at |-> "answered", snap |-> n]

Snapshot ==
    /\ fetch.at = "asked"
    /\ fetch' = Answered(early)
    /\ token' = "fresh"
    /\ UNCHANGED <<link, drops, failures, server, list, sends, unsynced>>

Merged == [m \in Messages |-> copies[m] + fetch.snap[m]]  \* mutant: added
\* The answer is the list, whatever was appended meanwhile.
Listed == fetch.snap

FetchDone ==
    /\ fetch.at = "answered"
    /\ fetch' = [fetch EXCEPT !.at = "idle", !.snap = Nothing]
    /\ cached' = TRUE
    /\ copies' = Listed
    /\ bubble' = [t \in Texts |-> "none"]
    /\ UNCHANGED <<socket, failures, server, sends, unsynced>>

Fails == failures < MaxFailures /\ failures' = failures + 1

FetchFails ==
    /\ fetch.at # "idle" /\ Fails
    /\ fetch' = [fetch EXCEPT !.at = "idle", !.snap = Nothing]
    /\ unsynced' = TRUE
    /\ UNCHANGED <<socket, server, list, sends>>

\* The server stores m, the newest message of the thread.
Filed(m) ==
    /\ stored' = [stored EXCEPT ![m] = @ + 1]
    /\ IF room > 0
       THEN early' = [early EXCEPT ![m] = @ + 1] /\ room' = room - 1
       ELSE UNCHANGED <<early, room>>

\* The other user's send: stored first, emitted after another await.
Arrives(m) ==
    /\ stored[m] = 0
    /\ Filed(m)
    /\ toEmit' = toEmit \union {m}
    /\ UNCHANGED <<socket, failures, wire, fetch, list, sends, unsynced>>

Emit(m) ==
    /\ m \in toEmit
    /\ toEmit' = toEmit \ {m}
    /\ wire' = IF link = "joined" THEN wire \union {m} ELSE wire
    /\ UNCHANGED <<socket, failures, thread, fetch, list, sends,
                   unsynced>>

\* message:new
Receive(m) ==
    /\ m \in wire
    /\ wire' = wire \ {m}
    /\ copies' = IF cached THEN [copies EXCEPT ![m] = @ + 1] ELSE copies
    /\ UNCHANGED <<socket, failures, thread, toEmit, fetch, cached, bubble,
                   sends, unsynced>>

-----------------------------------------------------------------------------
(* The user's own texts.                                                   *)

\* submit, and retry of a text whose bubble has failed (onMutate).
Send(t) ==
    /\ \/ stored[t] = 0 /\ post[t] = "none" /\ lost[t] = 0
       \/ bubble[t] = "failed"
    /\ cached' = TRUE
    /\ bubble' = [bubble EXCEPT ![t] = "sending"]
    /\ post' = [post EXCEPT ![t] = "asked"]
    /\ UNCHANGED <<socket, failures, server, fetch, copies, late, lost,
                   unsynced>>

Stored(t) ==
    /\ Filed(t)
    /\ token' = "fresh"
    /\ UNCHANGED <<link, drops, failures, toEmit, wire, fetch, list, lost,
                   unsynced>>

Store(t) ==
    /\ post[t] = "asked" /\ post' = [post EXCEPT ![t] = "stored"]
    /\ Stored(t)
    /\ UNCHANGED late

StoreLate(t) ==
    /\ late[t] > 0 /\ late' = [late EXCEPT ![t] = @ - 1]
    /\ Stored(t)
    /\ UNCHANGED post

Appended(t) ==                  \* mutant: the message is added to the list
    /\ copies' = [copies EXCEPT ![t] = @ + 1]
    /\ bubble' = [bubble EXCEPT ![t] = "none"]
\* onSuccess: the bubble, if it is still there, becomes the message.
Confirmed(t) ==
    /\ copies' = IF bubble[t] = "sending" THEN [copies EXCEPT ![t] = @ + 1]
                 ELSE copies
    /\ bubble' = [bubble EXCEPT ![t] = "none"]

SendDone(t) ==
    /\ post[t] = "stored"
    /\ post' = [post EXCEPT ![t] = "none"]
    /\ Confirmed(t)
    /\ UNCHANGED <<socket, failures, server, fetch, cached, late, lost,
                   unsynced>>

Unflagged(t) == UNCHANGED bubble    \* mutant: no onError
\* onError
Flagged(t) ==
    bubble' = [bubble EXCEPT ![t] = IF @ = "sending" THEN "failed" ELSE @]

\* The page hears an error: the request never arrived, or is still under way,
\* or was served and its answer is lost.
SendFails(t) ==
    /\ post[t] \in {"asked", "stored"} /\ Fails
    /\ post' = [post EXCEPT ![t] = "none"]
    /\ \/ UNCHANGED late
       \/ post[t] = "asked" /\ late' = [late EXCEPT ![t] = @ + 1]
    /\ lost' = [lost EXCEPT ![t] = @ + 1]
    /\ Flagged(t)
    /\ UNCHANGED <<socket, server, fetch, cached, copies, unsynced>>

Next ==
    \/ Drop \/ Connect \/ Verify \/ Expire
    \/ Snapshot \/ FetchDone \/ FetchFails
    \/ \E m \in Incoming : Arrives(m) \/ Emit(m) \/ Receive(m)
    \/ \E t \in Texts : Send(t) \/ Store(t) \/ StoreLate(t) \/ SendDone(t)
                         \/ SendFails(t)

\* The client keeps reconnecting, the server serves what reaches it, and
\* answers that are not lost arrive.
Fairness ==
    /\ WF_vars(Connect) /\ WF_vars(Verify)
    /\ WF_vars(Snapshot) /\ WF_vars(FetchDone)
    /\ \A t \in Texts : WF_vars(Store(t)) /\ WF_vars(SendDone(t))

Spec == Init /\ [][Next]_vars /\ Fairness

-----------------------------------------------------------------------------
(* A text is on the page once, as a bubble or as a message, and once more  *)
(* at most for every time its send has failed and was tried again.         *)
OwnTextOnce ==
    \A t \in Texts :
        copies[t] + (IF bubble[t] = "none" THEN 0 ELSE 1) <= 1 + lost[t]

(* "sending" does not last: the bubble is confirmed, flagged or replaced.  *)
SendingEnds ==
    \A t \in Texts : bubble[t] = "sending" ~> bubble[t] # "sending"

(* "Re-sync on (re)connect ... closes the `messages sent during a drop     *)
(* never appear' gap" (chat/[id]/page.tsx): what was stored while the      *)
(* socket was down, with a list on the page, is on the page in the end and *)
(* stays, unless a fetch fails, provided that it is one of the oldest      *)
(* PageLimit messages of the thread.  Of the others the re-sync brings     *)
(* none, and drops those that the page has.                                *)
DropIsHealed ==
    \A m \in Messages :
        [](link = "down" /\ cached /\ early[m] > 0
             => <>[](copies[m] > 0 \/ unsynced))
=============================================================================
