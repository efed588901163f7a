----------------------------- MODULE ChatProofs -----------------------------
(***************************************************************************)
(* Theorems about Chat, for every set of messages and every number of      *)
(* dropped sockets and failed requests.                                    *)
(*                                                                         *)
(* A text is on the page more than once only if it was stored more than    *)
(* once, and the server stores it at most once for every attempt: the      *)
(* invariant counts what is stored and what still may be.                  *)
(***************************************************************************)
EXTENDS Chat, TLAPS

\* The attempts at t that are stored or may be yet.
Underway(t) == IF post[t] = "asked" THEN late[t] + 1 ELSE late[t]

OwnText(t) ==
    /\ stored[t] + Underway(t) <= lost[t] + 1
    /\ late[t] <= lost[t] /\ lost[t] <= failures
    /\ post[t] = "stored" => stored[t] > 0
    /\ bubble[t] = "sending" => post[t] # "none"
    /\ bubble[t] = "failed" => post[t] = "none" /\ stored[t] + late[t] <= lost[t]
    /\ bubble[t] # "none" => copies[t] = 0
    /\ copies[t] <= lost[t] + 1

\* A push is sent once, and what it brings the list may have already.
TheirText(m) ==
    /\ stored[m] <= 1
    /\ m \in toEmit => m \notin wire
    /\ m \in toEmit \union wire => stored[m] = 1 /\ copies[m] <= 1
    /\ copies[m] <= 2

\* Nothing is shown or on its way to be shown that is not stored.
Backed(m) ==
    /\ early[m] <= stored[m] /\ fetch.snap[m] <= stored[m]
    /\ stored[m] = 0 => copies[m] = 0

ChatInv ==
    /\ TypeOK
    /\ \A t \in Texts : OwnText(t)
    /\ \A m \in Incoming : TheirText(m)
    /\ \A m \in Messages : Backed(m)

-----------------------------------------------------------------------------
\* The numbers that the invariant speaks of.
LEMMA Numbers ==
    ASSUME TypeOK
    PROVE  /\ failures \in Nat /\ MaxFailures \in Nat /\ failures <= MaxFailures
           /\ \A m \in Messages : /\ stored[m] \in Nat /\ copies[m] \in Nat
                                  /\ early[m] \in Nat
           /\ \A t \in Texts : /\ t \in Messages
                               /\ late[t] \in Nat /\ lost[t] \in Nat
                               /\ bubble[t] \in {"none", "sending", "failed"}
                               /\ post[t] \in {"none", "asked", "stored"}
           /\ \A m \in Incoming : m \in Messages /\ m \notin Texts
           /\ fetch.snap \in [Messages -> Counts]
BY ChatAssumption DEF TypeOK, Counts, Messages

LEMMA NothingIsCounted == Nothing \in [Messages -> Counts]
BY ChatAssumption DEF Nothing, Counts

\* What is stored now may be among the oldest messages, and is counted once.
LEMMA FiledIsStored ==
    ASSUME ChatInv, NEW m \in Messages, Filed(m), stored[m] + 1 \in Counts
    PROVE  /\ stored' = [stored EXCEPT ![m] = stored[m] + 1]
           /\ early' = [early EXCEPT ![m] = early'[m]]
           /\ early'[m] \in Counts /\ room' \in 0 .. PageLimit
           /\ early[m] <= early'[m] /\ early'[m] <= stored[m] + 1
<1>1. /\ TypeOK /\ early[m] \in Nat /\ stored[m] \in Nat
      /\ early[m] <= stored[m] /\ MaxFailures \in Nat
  BY Numbers DEF ChatInv, Backed
<1>2. CASE room > 0
  BY <1>1, <1>2, ChatAssumption DEF Filed, TypeOK, Counts
<1>3. CASE ~ (room > 0)
  BY <1>1, <1>3 DEF Filed, TypeOK
<1>4. QED BY <1>2, <1>3

LEMMA Initially == Init => ChatInv
<1> SUFFICES ASSUME Init PROVE ChatInv
  OBVIOUS
<1>1. TypeOK
  <2>1. 0 \in 0 .. MaxDrops /\ 0 \in 0 .. MaxFailures
    BY ChatAssumption
  <2>2. [t \in Texts |-> 0] \in [Texts -> 0 .. MaxFailures]
    BY <2>1
  <2>3. fetch \in [at : {"idle", "asked", "answered"}, snap : [Messages -> Counts]]
    BY NothingIsCounted DEF Init, Asked
  <2>4. QED BY <2>1, <2>2, <2>3, NothingIsCounted DEF Init, TypeOK
<1>2. \A m \in Messages : /\ stored[m] = 0 /\ copies[m] = 0 /\ early[m] = 0
                          /\ fetch.snap[m] = 0
  BY DEF Init, Nothing, Asked
<1>3. \A t \in Texts : OwnText(t)
  BY <1>2 DEF Init, OwnText, Underway, Messages
<1>4. \A m \in Incoming : TheirText(m)
  BY <1>2 DEF Init, TheirText, Messages
<1>5. QED BY <1>1, <1>2, <1>3, <1>4 DEF ChatInv, Backed

\* A step that leaves the messages alone, on the server and on the page.
LEMMA Elsewhere ==
    ASSUME ChatInv, UNCHANGED <<thread, toEmit, list, sends>>,
           link' \in {"down", "verifying", "expired", "joined", "refused"},
           token' \in {"fresh", "expired"}, drops' \in 0 .. MaxDrops,
           failures' \in {failures, failures + 1}, failures' <= MaxFailures,
           wire' \subseteq wire, unsynced' \in BOOLEAN,
           fetch' \in [at : {"idle", "asked", "answered"},
                      snap : {fetch.snap, Nothing, early}]
    PROVE  ChatInv'
<1>1. TypeOK
  BY DEF ChatInv
<1>2. fetch' \in [at : {"idle", "asked", "answered"}, snap : [Messages -> Counts]]
  BY <1>1, NothingIsCounted, Numbers DEF TypeOK
<1>3. TypeOK'
  BY <1>1, <1>2, Numbers DEF TypeOK, thread, list, sends
<1>4. \A t \in Texts : OwnText(t)'
  BY <1>1, Numbers DEF ChatInv, OwnText, Underway, thread, list, sends
<1>5. \A m \in Incoming : TheirText(m)'
  BY DEF ChatInv, TheirText, thread, list
<1>6. \A m \in Messages : Backed(m)'
  BY <1>1, Numbers DEF ChatInv, Backed, Nothing, thread, list
<1>7. QED BY <1>3, <1>4, <1>5, <1>6 DEF ChatInv

LEMMA SocketStep ==
    ASSUME ChatInv, Drop \/ Connect \/ Verify \/ Expire
    PROVE  ChatInv'
<1>1. TypeOK
  BY DEF ChatInv
<1>2. fetch' \in [at : {"idle", "asked", "answered"},
                 snap : {fetch.snap, Nothing, early}]
  BY <1>1 DEF Drop, Connect, Verify, Expire, Invalidated, Asked, TypeOK
<1>3. /\ link' \in {"down", "verifying", "expired", "joined", "refused"}
      /\ token' \in {"fresh", "expired"} /\ drops' \in 0 .. MaxDrops
      /\ failures' = failures /\ wire' \subseteq wire /\ unsynced' = unsynced
      /\ UNCHANGED <<thread, toEmit, list, sends>>
  BY <1>1, ChatAssumption DEF Drop, Connect, Verify, Expire, TypeOK, server
<1>4. failures <= MaxFailures /\ unsynced \in BOOLEAN
  BY <1>1 DEF TypeOK
<1>5. QED BY <1>2, <1>3, <1>4, Elsewhere

LEMMA FetchStep ==
    ASSUME ChatInv, Snapshot \/ FetchFails
    PROVE  ChatInv'
<1>1. TypeOK
  BY DEF ChatInv
<1>2. fetch' \in [at : {"idle", "asked", "answered"},
                 snap : {fetch.snap, Nothing, early}]
  <2>1. CASE Snapshot
    BY <2>1 DEF Snapshot, Answered
  <2>2. CASE FetchFails
    <3>1. fetch' = [fetch EXCEPT !.at = "idle", !.snap = Nothing]
      BY <2>2 DEF FetchFails
    <3>2. fetch' = [at |-> "idle", snap |-> Nothing]
      BY <1>1, <3>1 DEF TypeOK
    <3>3. QED BY <3>2
  <2>3. QED BY <2>1, <2>2
<1>3. /\ link' = link /\ token' \in {token, "fresh"} /\ drops' = drops
      /\ failures' \in {failures, failures + 1} /\ failures' <= MaxFailures
      /\ wire' = wire /\ unsynced' \in {unsynced, TRUE}
      /\ UNCHANGED <<thread, toEmit, list, sends>>
  <2>1. failures \in Nat /\ failures <= MaxFailures /\ MaxFailures \in Nat
    BY <1>1, Numbers
  <2>2. CASE Snapshot
    BY <2>1, <2>2 DEF Snapshot, server, list, sends
  <2>3. CASE FetchFails
    BY <2>1, <2>3 DEF FetchFails, Fails, server, socket, list, sends
  <2>4. QED BY <2>2, <2>3
<1>4. QED BY <1>1, <1>2, <1>3, Elsewhere DEF TypeOK

\* The answer is the whole list: a bubble gives way to what is stored.
LEMMA FetchDoneStep ==
    ASSUME ChatInv, FetchDone
    PROVE  ChatInv'
<1>1. /\ TypeOK /\ UNCHANGED <<socket, failures, server, sends, unsynced>>
      /\ copies' = fetch.snap /\ bubble' = [t \in Texts |-> "none"]
      /\ cached' = TRUE /\ fetch'.snap = Nothing
      /\ fetch' \in [at : {"idle"}, snap : {Nothing}]
  BY DEF ChatInv, FetchDone, Listed, TypeOK
<1>2. TypeOK'
  BY <1>1, NothingIsCounted DEF TypeOK, socket, server, thread, sends
<1>3. \A m \in Messages : copies'[m] <= stored[m] /\ copies'[m] \in Nat
  BY <1>1, ChatAssumption DEF ChatInv, Backed, TypeOK, Counts
<1>4. ASSUME NEW t \in Texts  PROVE OwnText(t)'
  BY <1>1, <1>3, Numbers DEF ChatInv, OwnText, Underway, sends, server, thread
<1>5. ASSUME NEW m \in Incoming  PROVE TheirText(m)'
  BY <1>1, <1>3, Numbers DEF ChatInv, TheirText, server, thread
<1>6. ASSUME NEW m \in Messages  PROVE Backed(m)'
  BY <1>1, <1>3, Numbers DEF ChatInv, Backed, server, thread, Nothing
<1>7. QED BY <1>2, <1>4, <1>5, <1>6 DEF ChatInv

-----------------------------------------------------------------------------
(* What the other one sends.                                               *)

LEMMA IncomingStep ==
    ASSUME ChatInv, NEW m \in Incoming, Arrives(m) \/ Emit(m) \/ Receive(m)
    PROVE  ChatInv'
<1>1. /\ TypeOK /\ m \in Messages /\ TheirText(m) /\ Backed(m)
      /\ stored[m] \in Nat /\ copies[m] \in Nat
  BY Numbers DEF ChatInv
<1>2. UNCHANGED <<socket, failures, fetch, cached, bubble, sends, unsynced>>
  BY DEF Arrives, Emit, Receive, list
<1>10. /\ early' \in [Messages -> Counts] /\ room' \in 0 .. PageLimit
       /\ early[m] <= early'[m] /\ early'[m] <= stored'[m]
       /\ \A k \in Messages \ {m} : early'[k] = early[k]
  <2>1. CASE Arrives(m)
    <3>1. stored[m] + 1 \in Counts
      BY <2>1, <1>1, ChatAssumption DEF Arrives, Counts
    <3>2. QED BY <2>1, <3>1, <1>1, FiledIsStored DEF Arrives, TypeOK
  <2>2. CASE Emit(m) \/ Receive(m)
    BY <2>2, <1>1, Numbers DEF Emit, Receive, thread, Backed, TypeOK
  <2>3. QED BY <2>1, <2>2
<1>3. /\ \A k \in Messages \ {m} : stored'[k] = stored[k] /\ copies'[k] = copies[k]
      /\ \A k \in Incoming \ {m} : /\ k \in toEmit' <=> k \in toEmit
                                   /\ k \in wire' => k \in wire
      /\ toEmit' \subseteq Incoming /\ wire' \subseteq Incoming
  BY <1>1 DEF Arrives, Filed, Emit, Receive, thread, list, TypeOK
<1>4. /\ stored'[m] \in {0, 1} /\ stored[m] <= stored'[m]
      /\ copies'[m] \in 0 .. 2 /\ TheirText(m)' /\ Backed(m)'
  <2>1. CASE Arrives(m)
    <3>1. /\ stored[m] = 0 /\ stored'[m] = 1 /\ copies' = copies /\ fetch' = fetch
          /\ toEmit' = toEmit \union {m} /\ wire' = wire
      BY <1>1, <2>1 DEF Arrives, Filed, list, TypeOK
    <3>2. m \notin wire /\ copies[m] = 0
      BY <1>1, <3>1 DEF TheirText, Backed
    <3>3. fetch.snap[m] \in Nat /\ fetch.snap[m] <= 0
      BY <1>1, <3>1, ChatAssumption DEF Backed, TypeOK, Counts
    <3>4. QED BY <1>10, <3>1, <3>2, <3>3 DEF TheirText, Backed
  <2>2. CASE Emit(m)
    <3>1. /\ stored' = stored /\ copies' = copies /\ fetch' = fetch
          /\ m \in toEmit /\ m \notin toEmit' /\ m \notin wire
      BY <1>1, <2>2 DEF Emit, TheirText, thread, list
    <3>2. QED BY <1>1, <1>10, <3>1 DEF TheirText, Backed
  <2>3. CASE Receive(m)
    BY <1>1, <1>10, <2>3 DEF Receive, thread, TheirText, Backed, TypeOK
  <2>4. QED BY <2>1, <2>2, <2>3
<1>5. TypeOK'
  <2>1. {0, 1, 2} \subseteq Counts
    BY ChatAssumption DEF Counts
  <2>2. stored' \in [Messages -> Counts]
    BY <1>1, <1>4, <2>1 DEF Arrives, Filed, Emit, Receive, thread, TypeOK
  <2>3. copies' \in [Messages -> Counts]
    BY <1>1, <1>4, <2>1 DEF Arrives, Emit, Receive, TypeOK, list
  <2>4. QED BY <1>1, <1>2, <1>3, <1>10, <2>2, <2>3 DEF TypeOK, socket, sends
<1>6. ASSUME NEW t \in Texts  PROVE OwnText(t)'
  <2>1. t \in Messages \ {m}
    BY Numbers, <1>1
  <2>2. QED BY <1>2, <1>3, <2>1 DEF ChatInv, OwnText, Underway, sends
<1>7. ASSUME NEW k \in Incoming \ {m}  PROVE TheirText(k)'
  BY <1>1, <1>3, Numbers DEF ChatInv, TheirText
<1>8. ASSUME NEW k \in Messages \ {m}  PROVE Backed(k)'
  BY <1>2, <1>3, <1>10 DEF ChatInv, Backed
<1>9. QED BY <1>4, <1>5, <1>6, <1>7, <1>8 DEF ChatInv

-----------------------------------------------------------------------------
(* The user's own texts.                                                   *)

\* A step that concerns one text only.
Only(t) ==
    /\ UNCHANGED <<link, drops, toEmit, wire, fetch, unsynced>>
    /\ token' \in {token, "fresh"} /\ cached' \in {cached, TRUE}
    /\ stored' = [stored EXCEPT ![t] = stored'[t]]
    /\ early' = [early EXCEPT ![t] = early'[t]] /\ room' \in 0 .. PageLimit
    /\ copies' = [copies EXCEPT ![t] = copies'[t]]
    /\ bubble' = [bubble EXCEPT ![t] = bubble'[t]]
    /\ post' = [post EXCEPT ![t] = post'[t]]
    /\ late' = [late EXCEPT ![t] = late'[t]]
    /\ lost' = [lost EXCEPT ![t] = lost'[t]]

\* Where it leaves that text and the count of failures.
Within(t) ==
    /\ failures' \in {failures, failures + 1} /\ failures' <= MaxFailures
    /\ bubble'[t] \in {"none", "sending", "failed"}
    /\ post'[t] \in {"none", "asked", "stored"}
    /\ late'[t] \in Nat /\ lost'[t] \in Nat
    /\ stored'[t] \in Nat /\ copies'[t] \in Nat
    /\ early'[t] \in Nat
    /\ stored'[t] >= stored[t] /\ early'[t] <= stored'[t]
    /\ stored'[t] = 0 => copies'[t] = 0

LEMMA OneTextMoves ==
    ASSUME ChatInv, NEW t \in Texts, Only(t), Within(t), OwnText(t)'
    PROVE  ChatInv'
<1> USE DEF Only, Within
<1>1. /\ TypeOK /\ t \in Messages /\ stored[t] \in Nat
      /\ failures \in Nat /\ MaxFailures \in Nat
  BY Numbers DEF ChatInv
<1>3. /\ lost'[t] <= MaxFailures /\ late'[t] <= MaxFailures
      /\ stored'[t] <= MaxFailures + 2 /\ copies'[t] <= MaxFailures + 2
  BY <1>1 DEF OwnText, Underway
<1>4. TypeOK'
  <2>1. /\ stored'[t] \in Counts /\ copies'[t] \in Counts /\ early'[t] \in Counts
        /\ late'[t] \in 0 .. MaxFailures /\ lost'[t] \in 0 .. MaxFailures
    BY <1>1, <1>3 DEF Counts
  <2>2. failures' \in 0 .. MaxFailures /\ token' \in {"fresh", "expired"}
    BY <1>1 DEF TypeOK
  <2>3. QED BY <1>1, <2>1, <2>2 DEF TypeOK
<1>5. ASSUME NEW u \in Texts \ {t}  PROVE OwnText(u)'
  <2>1. /\ u \in Messages /\ OwnText(u) /\ lost[u] \in Nat /\ u # t
    BY <1>1, Numbers DEF ChatInv
  <2>2. /\ stored'[u] = stored[u] /\ copies'[u] = copies[u]
        /\ bubble'[u] = bubble[u] /\ post'[u] = post[u]
        /\ late'[u] = late[u] /\ lost'[u] = lost[u]
    BY <1>1, <2>1 DEF TypeOK
  <2>3. QED BY <1>1, <2>1, <2>2 DEF OwnText, Underway
<1>6. ASSUME NEW m \in Incoming  PROVE TheirText(m)'
  <2>1. m \in Messages \ {t}
    BY <1>1, Numbers
  <2>2. stored'[m] = stored[m] /\ copies'[m] = copies[m]
    BY <1>1, <2>1 DEF TypeOK
  <2>3. QED BY <2>2 DEF ChatInv, TheirText
<1>7. ASSUME NEW m \in Messages  PROVE Backed(m)'
  <2>1. Backed(m) /\ fetch.snap[m] \in Nat
    BY <1>1, ChatAssumption DEF ChatInv, TypeOK, Counts
  <2>2. CASE m = t
    BY <1>1, <2>1, <2>2 DEF Backed
  <2>3. CASE m # t
    BY <1>1, <2>1, <2>3 DEF Backed, TypeOK
  <2>4. QED BY <2>2, <2>3
<1>8. QED BY <1>4, <1>5, <1>6, <1>7 DEF ChatInv

\* The text on the page, and the room for it to have been stored.
LEMMA OfOneText ==
    ASSUME ChatInv, NEW t \in Texts
    PROVE  /\ TypeOK /\ OwnText(t) /\ Backed(t) /\ t \in Messages
           /\ stored[t] \in Nat /\ copies[t] \in Nat /\ early[t] \in Nat
           /\ room \in 0 .. PageLimit
           /\ late[t] \in Nat /\ lost[t] \in Nat
           /\ bubble[t] \in {"none", "sending", "failed"}
           /\ post[t] \in {"none", "asked", "stored"}
           /\ failures \in Nat /\ failures <= MaxFailures /\ MaxFailures \in Nat
           /\ stored = [stored EXCEPT ![t] = stored[t]]
           /\ early = [early EXCEPT ![t] = early[t]]
           /\ copies = [copies EXCEPT ![t] = copies[t]]
           /\ bubble = [bubble EXCEPT ![t] = bubble[t]]
           /\ post = [post EXCEPT ![t] = post[t]]
           /\ late = [late EXCEPT ![t] = late[t]]
           /\ lost = [lost EXCEPT ![t] = lost[t]]
<1>1. TypeOK
  BY DEF ChatInv
<1>2. t \in Messages /\ OwnText(t) /\ Backed(t)
  BY Numbers DEF ChatInv
<1>3. QED BY <1>1, <1>2, Numbers DEF TypeOK

LEMMA SendStep ==
    ASSUME ChatInv, NEW t \in Texts, Send(t)
    PROVE  ChatInv'
<1> USE OfOneText
<1>1. /\ UNCHANGED <<socket, failures, server, fetch, copies, late, lost, unsynced>>
      /\ cached' = TRUE
      /\ bubble' = [bubble EXCEPT ![t] = "sending"]
      /\ post' = [post EXCEPT ![t] = "asked"]
  BY DEF Send
<1>2. copies[t] = 0 /\ stored[t] + late[t] <= lost[t]
  BY DEF Send, OwnText, Underway, Backed
<1>3. bubble'[t] = "sending" /\ post'[t] = "asked"
  BY <1>1 DEF TypeOK
<1>4. OwnText(t)'
  BY <1>1, <1>2, <1>3 DEF OwnText, Underway, server, thread
<1>5. UNCHANGED <<link, token, drops, stored, early, room, toEmit, wire>>
  BY <1>1 DEF socket, server, thread
<1>6. Only(t)
  BY <1>1, <1>3, <1>5 DEF Only
<1>7. Within(t)
  BY <1>1, <1>3, <1>5 DEF Within, Backed
<1>8. QED BY <1>4, <1>6, <1>7, OneTextMoves

LEMMA StoreStep ==
    ASSUME ChatInv, NEW t \in Texts, Store(t) \/ StoreLate(t)
    PROVE  ChatInv'
<1> USE OfOneText
<1>1. /\ UNCHANGED <<link, drops, failures, toEmit, wire, fetch, list, lost, unsynced>>
      /\ token' = "fresh"
      /\ stored' = [stored EXCEPT ![t] = stored[t] + 1]
      /\ early' = [early EXCEPT ![t] = early'[t]] /\ room' \in 0 .. PageLimit
      /\ early'[t] \in Nat /\ early'[t] <= stored[t] + 1
  <2>1. stored[t] + 1 \in Counts
    BY ChatAssumption DEF Store, StoreLate, OwnText, Underway, Counts
  <2>2. QED BY <2>1, FiledIsStored, ChatAssumption
            DEF Store, StoreLate, Stored, Counts
<1>2. UNCHANGED <<cached, copies, bubble>>
  BY <1>1 DEF list
<1>3. stored'[t] = stored[t] + 1
  BY <1>1 DEF TypeOK
<1>4. CASE Store(t)
  <2>1. /\ post[t] = "asked" /\ post' = [post EXCEPT ![t] = "stored"]
        /\ late' = late /\ post'[t] = "stored"
    BY <1>4 DEF Store, TypeOK
  <2>2. OwnText(t)'
    BY <1>1, <1>2, <1>3, <2>1 DEF OwnText, Underway
  <2>3. Only(t)
    BY <1>1, <1>2, <1>3, <2>1 DEF Only
  <2>4. Within(t)
    BY <1>1, <1>2, <1>3, <2>1 DEF Within
  <2>5. QED BY <2>2, <2>3, <2>4, OneTextMoves
<1>5. CASE StoreLate(t)
  <2>1. /\ late[t] > 0 /\ late' = [late EXCEPT ![t] = late[t] - 1]
        /\ post' = post /\ late'[t] = late[t] - 1
    BY <1>5 DEF StoreLate, TypeOK
  <2>2. OwnText(t)'
    BY <1>1, <1>2, <1>3, <2>1 DEF OwnText, Underway
  <2>3. Only(t)
    BY <1>1, <1>2, <1>3, <2>1 DEF Only
  <2>4. Within(t)
    BY <1>1, <1>2, <1>3, <2>1 DEF Within
  <2>5. QED BY <2>2, <2>3, <2>4, OneTextMoves
<1>6. QED BY <1>4, <1>5

\* The answer turns a bubble that is still there into the message.
LEMMA SendDoneStep ==
    ASSUME ChatInv, NEW t \in Texts, SendDone(t)
    PROVE  ChatInv'
<1> USE OfOneText
<1> DEFINE c == IF bubble[t] = "sending" THEN copies[t] + 1 ELSE copies[t]
<1>1. /\ UNCHANGED <<failures, fetch, cached, late, lost, unsynced>>
      /\ UNCHANGED <<link, token, drops, stored, early, room, toEmit, wire>>
      /\ post[t] = "stored" /\ post' = [post EXCEPT ![t] = "none"]
      /\ bubble' = [bubble EXCEPT ![t] = "none"]
  BY DEF SendDone, Confirmed, socket, server, thread
<1>2. copies' = [copies EXCEPT ![t] = c]
  BY DEF SendDone, Confirmed
<1>3. stored[t] > 0
  BY <1>1 DEF OwnText
<1>4. post'[t] = "none" /\ bubble'[t] = "none" /\ copies'[t] = c /\ c \in Nat
  BY <1>1, <1>2 DEF TypeOK
<1>5. c <= lost[t] + 1
  BY DEF OwnText
<1>6. OwnText(t)'
  BY <1>1, <1>4, <1>5 DEF OwnText, Underway
<1> HIDE DEF c
<1>7. Only(t)
  BY <1>1, <1>2, <1>4 DEF Only
<1>8. Within(t)
  BY <1>1, <1>2, <1>3, <1>4 DEF Within, Backed
<1>9. QED BY <1>6, <1>7, <1>8, OneTextMoves

\* An attempt that failed may be stored yet: late, or already.
LEMMA SendFailsStep ==
    ASSUME ChatInv, NEW t \in Texts, SendFails(t)
    PROVE  ChatInv'
<1> USE OfOneText
<1> DEFINE b == IF bubble[t] = "sending" THEN "failed" ELSE bubble[t]
<1>1. /\ UNCHANGED <<fetch, cached, copies, unsynced>>
      /\ UNCHANGED <<link, token, drops, stored, early, room, toEmit, wire>>
      /\ post[t] # "none" /\ post' = [post EXCEPT ![t] = "none"]
      /\ failures' = failures + 1 /\ failures' <= MaxFailures
      /\ lost' = [lost EXCEPT ![t] = lost[t] + 1]
      /\ bubble' = [bubble EXCEPT ![t] = b]
  BY DEF SendFails, Fails, Flagged, socket, server, thread
<1>2. PICK l \in Nat : /\ late' = [late EXCEPT ![t] = l]
                       /\ \/ l = late[t]
                          \/ post[t] = "asked" /\ l = late[t] + 1
  BY DEF SendFails
<1>3. /\ post'[t] = "none" /\ lost'[t] = lost[t] + 1 /\ bubble'[t] = b
      /\ late'[t] = l /\ b \in {"none", "sending", "failed"} /\ b # "sending"
      /\ b # "none" => bubble[t] # "none"
  BY <1>1, <1>2 DEF TypeOK
<1> HIDE DEF b
<1>4. OwnText(t)'
  BY <1>1, <1>2, <1>3 DEF OwnText, Underway
<1>5. Only(t)
  BY <1>1, <1>2, <1>3 DEF Only
<1>6. Within(t)
  BY <1>1, <1>2, <1>3 DEF Within, Backed
<1>7. QED BY <1>4, <1>5, <1>6, OneTextMoves

-----------------------------------------------------------------------------
LEMMA Inductive == ChatInv /\ [Next]_vars => ChatInv'
<1> SUFFICES ASSUME ChatInv, [Next]_vars PROVE ChatInv'
  OBVIOUS
<1>1. CASE Drop \/ Connect \/ Verify \/ Expire
  BY <1>1, SocketStep
<1>2. CASE Snapshot \/ FetchFails
  BY <1>2, FetchStep
<1>3. CASE FetchDone
  BY <1>3, FetchDoneStep
<1>4. ASSUME NEW m \in Incoming, Arrives(m) \/ Emit(m) \/ Receive(m)
      PROVE  ChatInv'
  BY <1>4, IncomingStep
<1>5. ASSUME NEW t \in Texts,
             Send(t) \/ Store(t) \/ StoreLate(t) \/ SendDone(t) \/ SendFails(t)
      PROVE  ChatInv'
  BY <1>5, SendStep, StoreStep, SendDoneStep, SendFailsStep
<1>6. CASE UNCHANGED vars
  BY <1>6 DEF vars, socket, server, thread, list, sends, ChatInv, TypeOK, OwnText,
              Underway, TheirText, Backed
<1>7. QED BY <1>1, <1>2, <1>3, <1>4, <1>5, <1>6 DEF Next

LEMMA Invariance == Spec => []ChatInv
<1>1. Init => ChatInv
  BY Initially
<1>2. ChatInv /\ [Next]_vars => ChatInv'
  BY Inductive
<1>3. QED BY <1>1, <1>2, PTL DEF Spec

\* However often the socket breaks and requests fail, no counter of the
\* conversation leaves its range: a message is stored, and listed, at most
\* once more than requests have failed.
THEOREM ChatTypeCorrect == Spec => []TypeOK
<1>1. ChatInv => TypeOK
  BY DEF ChatInv
<1>2. QED BY <1>1, Invariance, PTL

\* A text is on the page once, as a bubble or as a message, and once more at
\* most for every attempt that the page was told had failed (onMutate,
\* onSuccess and onError of the send, and the list that a fetch replaces).
THEOREM OwnTextIsOnce == Spec => []OwnTextOnce
<1>1. ASSUME ChatInv PROVE OwnTextOnce
  <2>1. SUFFICES ASSUME NEW t \in Texts
                 PROVE  copies[t] + (IF bubble[t] = "none" THEN 0 ELSE 1) <= 1 + lost[t]
    BY DEF OwnTextOnce
  <2>2. QED BY <1>1, OfOneText DEF OwnText
<1>2. QED BY <1>1, Invariance, PTL

-----------------------------------------------------------------------------
(* What DropIsHealed rests on, in every state from the drop on.            *)

\* Message m is among the oldest of the thread, and wherever the page's next
\* list comes from has it.
Coming(m) ==
    /\ cached /\ early[m] > 0
    /\ \/ link = "down"
       \/ fetch.at = "asked"
       \/ unsynced
       \/ fetch.at = "answered" /\ fetch.snap[m] > 0
       \/ fetch.at = "idle" /\ copies[m] > 0

LEMMA ComingStays ==
    ASSUME ChatInv, [Next]_vars, NEW m \in Messages, Coming(m)
    PROVE  Coming(m)'
<1>1. TypeOK /\ early[m] \in Nat /\ copies[m] \in Nat /\ cached /\ early[m] > 0
  BY Numbers DEF ChatInv, Coming
<1>0. early' = early \/ (\E k : Filed(k)) => early'[m] \in {early[m], early[m] + 1}
  <2>1. ASSUME NEW k, early' = [early EXCEPT ![k] = @ + 1]
        PROVE  early'[m] \in {early[m], early[m] + 1}
    BY <1>1, <2>1 DEF TypeOK
  <2>2. QED BY <2>1 DEF Filed
<1> USE <1>1 DEF Coming
<1>2. CASE Drop \/ Verify \/ Expire
  BY <1>2 DEF Drop, Verify, Expire, server, thread, list
<1>3. CASE Connect
  BY <1>3 DEF Connect, Invalidated, Asked, server, thread, list
<1>4. CASE Snapshot
  BY <1>4 DEF Snapshot, Answered, server, thread, list
<1>5. CASE FetchDone
  <2>1. /\ fetch.at = "answered" /\ fetch'.at = "idle" /\ cached' = TRUE
        /\ copies' = fetch.snap /\ early' = early /\ link' = link
        /\ unsynced' = unsynced
    BY <1>5 DEF FetchDone, Listed, TypeOK, server, thread, socket
  <2>2. QED BY <2>1
<1>6. CASE FetchFails
  BY <1>6 DEF FetchFails, server, thread, list
<1>7. ASSUME NEW n \in Incoming, Arrives(n) \/ Emit(n) \/ Receive(n)
      PROVE  Coming(m)'
  <2>1. UNCHANGED <<link, fetch, cached, unsynced>>
    BY <1>7 DEF Arrives, Emit, Receive, socket, list
  <2>2. early'[m] \in {early[m], early[m] + 1}
    BY <1>0, <1>7 DEF Arrives, Emit, Receive, thread
  <2>3. copies'[m] \in {copies[m], copies[m] + 1}
    BY <1>7 DEF Arrives, Emit, Receive, list, TypeOK
  <2>4. QED BY <2>1, <2>2, <2>3
<1>8. ASSUME NEW t \in Texts,
             Send(t) \/ Store(t) \/ StoreLate(t) \/ SendDone(t) \/ SendFails(t)
      PROVE  Coming(m)'
  <2>1. UNCHANGED <<link, fetch, unsynced>> /\ cached'
    BY <1>8 DEF Send, Store, StoreLate, Stored, SendDone, SendFails, socket, list
  <2>2. early'[m] \in {early[m], early[m] + 1}
    BY <1>0, <1>8 DEF Send, Store, StoreLate, Stored, SendDone, SendFails,
                      server, thread
  <2>3. copies'[m] \in {copies[m], copies[m] + 1}
    <3>1. copies' = copies \/ copies' = [copies EXCEPT ![t] = @ + 1]
      BY <1>8 DEF Send, Store, StoreLate, Stored, SendDone, Confirmed, SendFails, list
    <3>2. copies \in [Messages -> Counts]
      BY DEF TypeOK
    <3>3. QED BY <3>1, <3>2
  <2>4. QED BY <2>1, <2>2, <2>3
<1>9. CASE UNCHANGED vars
  BY <1>9 DEF vars, socket, server, thread, list
<1>10. QED BY <1>2, <1>3, <1>4, <1>5, <1>6, <1>7, <1>8, <1>9 DEF Next

(* What was stored when the socket was down, among the oldest PageLimit    *)
(* messages of the thread (listMessages), is never missing from the page   *)
(* for good: from then on, in every state, a page whose socket is up and   *)
(* which is not fetching shows it, unless a fetch has failed.  No answer   *)
(* to an older fetch, no push and no send takes it away again.             *)
DropIsCovered ==
    \A m \in Messages :
        [](link = "down" /\ cached /\ early[m] > 0
             => [](\/ copies[m] > 0 \/ unsynced
                   \/ link = "down" \/ fetch.at # "idle"))

THEOREM DropNeverLoses == Spec => DropIsCovered
<1>1. SUFFICES ASSUME NEW m \in Messages
               PROVE  Spec => [](link = "down" /\ cached /\ early[m] > 0
                                 => [](\/ copies[m] > 0 \/ unsynced
                                       \/ link = "down" \/ fetch.at # "idle"))
  BY DEF DropIsCovered
<1>2. link = "down" /\ cached /\ early[m] > 0 => Coming(m)
  BY DEF Coming
<1>3. ChatInv /\ [Next]_vars /\ Coming(m) => Coming(m)'
  BY ComingStays
<1>4. Coming(m) => \/ copies[m] > 0 \/ unsynced
                   \/ link = "down" \/ fetch.at # "idle"
  BY DEF Coming
<1>5. QED BY <1>2, <1>3, <1>4, Invariance, PTL DEF Spec

(* No bubble is left behind: a text that is shown as being sent has a      *)
(* request under way, whose answer confirms it and whose failure flags it. *)
(* SendingEnds rests on this.                                              *)
SendingIsAwaited == \A t \in Texts : bubble[t] = "sending" => post[t] # "none"

THEOREM SendingHasItsRequest == Spec => []SendingIsAwaited
<1>1. ChatInv => SendingIsAwaited
  BY DEF ChatInv, OwnText, SendingIsAwaited
<1>2. QED BY <1>1, Invariance, PTL
=============================================================================
