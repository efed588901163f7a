------------------------- MODULE CallSessionProofs --------------------------
(***************************************************************************)
(* Proofs about CallSession: the types, three invariants of every page and *)
(* the line of CallLine, for any number of calls.  All of them speak of    *)
(* one page at a time, so the inductive invariant is a predicate of a      *)
(* page, and the work is to show that each helper of the code keeps it.    *)
(***************************************************************************)
EXTENDS CallSession, TLAPS

Timed(pg) ==
    /\ pg.status = "incoming" => pg.ring
    /\ pg.status = "calling" =>
         pg.ring \/ \E c \in Ids : <<"startCall", c>> \in pg.waits

Watched(pg) ==
    pg.status = "active" =>
        \/ pg.fail
        \/ \E c \in {pg.pc} \union pg.lost : c.ice \in {"checking", "connected"}

OfCall(pg) == Linked(pg.pc) => pg.id # None /\ pg.pc.of = pg.id

\* Between two calls there is no call id, so no signal is taken for one's own,
\* and the timer of the end screen never cuts into the next call.
Clean(pg) ==
    /\ pg.status \in {"idle", "ended"} => pg.id = None
    /\ pg.status = "incoming" => pg.id # None
    /\ pg.linger => pg.id = None /\ pg.status # "idle"

Good(pg) == Timed(pg) /\ Watched(pg) /\ OfCall(pg) /\ Clean(pg)

IInv == TypeOK /\ \A p \in Peers : Good(peer[p])

-----------------------------------------------------------------------------
(* The helpers.                                                            *)

LEMMA FinishedOK ==
  ASSUME NEW pg \in Page
  PROVE  Finished(pg) \in Page /\ Good(Finished(pg))
<1>1. Finished(pg) \in Page
  BY DEF Finished, Page, CallStatus, Conn, NoConn
<1>2. /\ Finished(pg).status = "ended" /\ Finished(pg).id = None
      /\ Finished(pg).pc = NoConn
  BY DEF Finished, Page
<1>3. QED BY <1>1, <1>2 DEF Good, Timed, Watched, OfCall, Clean, Linked, NoConn

LEMMA SignalOK ==
  ASSUME TypeOK, NEW p \in Peers, NEW event \in Events
  PROVE  Signal(p, event) \subseteq Signals
<1>1. peer[p].id \in Ids \union {None} /\ Other(p) \in Peers
  BY DEF TypeOK, Page, Other, Peers
<1>2. QED BY <1>1 DEF Signal, Signals

LEMMA WithPeerOK ==
  ASSUME NEW pg \in Page, NEW ice \in {"new", "offered"},
         Watched(pg), Clean(pg)
  PROVE  /\ WithPeer(pg, ice) \in Page
         /\ Watched(WithPeer(pg, ice))
         /\ OfCall(WithPeer(pg, ice))
         /\ Clean(WithPeer(pg, ice))
         /\ Timed(pg) => Timed(WithPeer(pg, ice))
<1> DEFINE q == WithPeer(pg, ice)
<1>1. q \in Page
  BY DEF WithPeer, Page, Conn
<1>2. /\ q.status = pg.status /\ q.id = pg.id /\ q.ring = pg.ring
      /\ q.fail = pg.fail /\ q.linger = pg.linger /\ q.waits = pg.waits
  BY DEF WithPeer, Page
<1>3. q.pc = [ice |-> ice, of |-> None]
  BY DEF WithPeer, Page
<1>4. q.lost = IF Linked(pg.pc) THEN pg.lost \union {pg.pc} ELSE pg.lost
  BY DEF WithPeer, Page
<1>5. Watched(q)
  BY <1>2, <1>4 DEF Watched, Linked
<1>6. OfCall(q)
  BY <1>3 DEF OfCall, Linked
<1>7. QED BY <1>1, <1>2, <1>5, <1>6 DEF Clean, Timed

LEMMA ResumedOK ==
  ASSUME NEW pg \in Page, NEW kind \in Kinds,
         Watched(pg), OfCall(pg), Clean(pg), kind # "startCall" => Timed(pg)
  PROVE  Resumed(pg, kind) \in Page /\ Good(Resumed(pg, kind))
<1>1. CASE kind = "startCall"
  <2> DEFINE q == [pg EXCEPT !.ring = TRUE]
  <2>1. Resumed(pg, kind) = q
    BY <1>1 DEF Resumed
  <2>2. q \in Page
    BY DEF Page
  <2>3. /\ q.ring /\ q.status = pg.status /\ q.id = pg.id
        /\ q.fail = pg.fail /\ q.linger = pg.linger
        /\ q.pc = pg.pc /\ q.lost = pg.lost
    BY DEF Page
  <2>4. Good(q)
    BY <2>3 DEF Good, Timed, Watched, OfCall, Clean
  <2>5. QED BY <2>1, <2>2, <2>4
<1>2. CASE kind = "accept"
  BY <1>2, WithPeerOK DEF Resumed, Good
<1>3. CASE kind = "onAccept"
  BY <1>3, WithPeerOK DEF Resumed, Good
<1>4. QED BY <1>1, <1>2, <1>3 DEF Kinds

\* A page that begins to wait for the browser.
LEMMA AwaitOK ==
  ASSUME NEW pg \in Page, NEW kind \in Kinds, NEW c \in Ids,
         Watched(pg), OfCall(pg), Clean(pg),
         IF kind = "startCall" THEN pg.status = "calling" ELSE Timed(pg)
  PROVE  LET q == [pg EXCEPT !.waits = @ \union {<<kind, c>>}]
         IN  q \in Page /\ Good(q)
<1> DEFINE q == [pg EXCEPT !.waits = @ \union {<<kind, c>>}]
<1>1. q \in Page
  BY DEF Page
<1>2. /\ q.status = pg.status /\ q.id = pg.id /\ q.ring = pg.ring
      /\ q.fail = pg.fail /\ q.linger = pg.linger /\ q.pc = pg.pc
      /\ q.lost = pg.lost /\ q.waits = pg.waits \union {<<kind, c>>}
  BY DEF Page
<1>3. Timed(q)
  BY <1>2 DEF Timed
<1>4. QED BY <1>1, <1>2, <1>3 DEF Good, Watched, OfCall, Clean

\* A connection that moves to another linked state changes nothing else.
LEMMA MovedOK ==
  ASSUME NEW pg \in Page, NEW c \in Conn, Linked(c),
         NEW ice \in {"connected", "broken"}, NEW q \in Moved(pg, c, ice)
  PROVE  /\ q \in Page
         /\ q.status = pg.status /\ q.id = pg.id /\ q.ring = pg.ring
         /\ q.fail = pg.fail /\ q.linger = pg.linger /\ q.waits = pg.waits
         /\ OfCall(pg) => OfCall(q)
         /\ \E d \in {q.pc} \union q.lost : d.ice = ice
<1> DEFINE d == [ice |-> ice, of |-> c.of]
<1>0. d \in Conn /\ d.ice = ice /\ d.of = c.of
  BY DEF Conn
<1>1. CASE pg.pc = c /\ q = [pg EXCEPT !.pc = d]
  <2>1. q \in Page
    BY <1>0, <1>1 DEF Page
  <2>2. /\ q.status = pg.status /\ q.id = pg.id /\ q.ring = pg.ring
        /\ q.fail = pg.fail /\ q.linger = pg.linger /\ q.waits = pg.waits
        /\ q.pc = d
    BY <1>1 DEF Page
  <2>3. OfCall(pg) => OfCall(q)
    BY <1>0, <1>1, <2>2 DEF OfCall
  <2>4. QED BY <1>0, <2>1, <2>2, <2>3
<1>2. CASE c \in pg.lost /\ q = [pg EXCEPT !.lost = (@ \ {c}) \union {d}]
  <2>1. q \in Page
    BY <1>0, <1>2 DEF Page
  <2>2. /\ q.status = pg.status /\ q.id = pg.id /\ q.ring = pg.ring
        /\ q.fail = pg.fail /\ q.linger = pg.linger /\ q.waits = pg.waits
        /\ q.pc = pg.pc /\ d \in q.lost
    BY <1>2 DEF Page
  <2>3. QED BY <1>0, <2>1, <2>2 DEF OfCall
<1>3. QED BY <1>1, <1>2 DEF Moved

-----------------------------------------------------------------------------
(* A step gives one page a new value.                                      *)

LEMMA PageStep ==
  ASSUME IInv, NEW p \in Peers, NEW pg \in Page, Good(pg),
         peer' = [peer EXCEPT ![p] = pg], signals' \subseteq Signals,
         unused' \subseteq Ids
  PROVE  IInv'
<1>1. peer' \in [Peers -> Page] /\ \A q \in Peers : Good(peer'[q])
  BY DEF IInv, TypeOK
<1>2. QED BY <1>1 DEF IInv, TypeOK

LEMMA PutStep ==
  ASSUME IInv, NEW p \in Peers, NEW pg \in Page, Good(pg),
         NEW sent \in SUBSET Signals, Put(p, pg, sent), unused' \subseteq Ids
  PROVE  IInv'
BY PageStep DEF Put, IInv, TypeOK

LEMMA ReceiveStep ==
  ASSUME IInv, NEW m \in signals, NEW pg \in Page, Good(pg),
         NEW sent \in SUBSET Signals, Receive(m, pg, sent)
  PROVE  IInv'
<1>1. m.to \in Peers
  BY DEF IInv, TypeOK, Signals
<1>2. QED BY <1>1, PageStep DEF Receive, IInv, TypeOK

LEMMA FreshOK == Fresh \in Page /\ Good(Fresh)
<1>1. Fresh \in Page
  BY DEF Fresh, Page, CallStatus, Conn, NoConn
<1>2. Good(Fresh)
  BY DEF Fresh, Good, Timed, Watched, OfCall, Clean, Linked, NoConn
<1>3. QED BY <1>1, <1>2

LEMMA InitIInv == Init => IInv
BY FreshOK DEF Init, IInv, TypeOK

-----------------------------------------------------------------------------
(* The buttons.                                                            *)

LEMMA StartCallStep ==
  ASSUME IInv, NEW p \in Peers, NEW c \in Ids, StartCall(p, c)
  PROVE  IInv'
<1> DEFINE pg == [peer[p] EXCEPT !.status = "calling", !.id = c, !.caller = TRUE]
           wt == [pg EXCEPT !.waits = @ \union {<<"startCall", c>>}]
           inv == {[to |-> Other(p), event |-> "invite", id |-> c]}
<1>0. peer[p] \in Page /\ Good(peer[p]) /\ unused \subseteq Ids
  BY DEF IInv, TypeOK
<1>1. pg \in Page
  BY <1>0 DEF Page, CallStatus
<1>2. /\ pg.status = "calling" /\ pg.id = c
      /\ pg.linger = peer[p].linger /\ pg.pc = peer[p].pc
  BY <1>0 DEF Page
<1>3. ~pg.linger /\ ~Linked(pg.pc)
  BY <1>0, <1>2 DEF StartCall, Good, Clean, OfCall
<1>4. Watched(pg) /\ OfCall(pg) /\ Clean(pg) /\ c # None
  BY <1>2, <1>3, CallAssumption DEF Watched, OfCall, Clean
<1>5. Resumed(pg, "startCall") \in Page /\ Good(Resumed(pg, "startCall"))
  BY <1>1, <1>4, ResumedOK DEF Kinds
<1>6. wt \in Page /\ Good(wt)
  BY <1>1, <1>2, <1>4, AwaitOK DEF Kinds
<1>7. inv \in SUBSET Signals /\ {} \in SUBSET Signals
  BY DEF Signals, Events, Other, Peers
<1>8. unused' \subseteq Ids
  BY <1>0 DEF StartCall
<1>9. Put(p, Resumed(pg, "startCall"), inv) \/ Put(p, wt, {})
  BY DEF StartCall
<1> HIDE DEF pg, wt, inv
<1>10. QED BY <1>5, <1>6, <1>7, <1>8, <1>9, PutStep

LEMMA AcceptStep ==
  ASSUME IInv, NEW p \in Peers, Accept(p)
  PROVE  IInv'
<1> DEFINE pg == [peer[p] EXCEPT !.status = "connecting", !.caller = FALSE,
                                 !.ring = FALSE]
           wt == [pg EXCEPT !.waits = @ \union {<<"accept", pg.id>>}]
<1>0. TypeOK /\ peer[p] \in Page /\ Good(peer[p]) /\ unused' \subseteq Ids
  BY DEF IInv, TypeOK, Accept
<1>1. pg \in Page
  BY <1>0 DEF Page, CallStatus
<1>2. /\ pg.status = "connecting" /\ pg.id = peer[p].id
      /\ pg.linger = peer[p].linger /\ pg.pc = peer[p].pc
  BY <1>0 DEF Page
<1>3. Good(pg)
  BY <1>0, <1>2 DEF Good, Timed, Watched, OfCall, Clean
<1>4. pg.id \in Ids
  BY <1>0, <1>2 DEF Accept, Good, Clean, Page
<1>5. Resumed(pg, "accept") \in Page /\ Good(Resumed(pg, "accept"))
  BY <1>1, <1>3, ResumedOK DEF Kinds, Good
<1>6. wt \in Page /\ Good(wt)
  BY <1>1, <1>3, <1>4, AwaitOK DEF Kinds, Good
<1>7. Signal(p, "accept") \in SUBSET Signals /\ {} \in SUBSET Signals
  BY <1>0, SignalOK DEF Events
<1>8. Put(p, Resumed(pg, "accept"), Signal(p, "accept")) \/ Put(p, wt, {})
  BY DEF Accept
<1> HIDE DEF pg, wt
<1>9. QED BY <1>0, <1>5, <1>6, <1>7, <1>8, PutStep

\* Decline, HangUp and RingTimeout end the call and may tell the other side;
\* FailTimeout tells nobody.
LEMMA FinishStep ==
  ASSUME IInv, NEW p \in Peers,
         Decline(p) \/ HangUp(p) \/ RingTimeout(p) \/ FailTimeout(p)
  PROVE  IInv'
<1>0. TypeOK /\ peer[p] \in Page /\ unused' \subseteq Ids
  BY DEF IInv, TypeOK, Decline, HangUp, RingTimeout, FailTimeout
<1>1. Finished(peer[p]) \in Page /\ Good(Finished(peer[p]))
  BY <1>0, FinishedOK
<1>2. /\ Signal(p, "decline") \in SUBSET Signals
      /\ Signal(p, "end") \in SUBSET Signals /\ {} \in SUBSET Signals
  BY <1>0, SignalOK DEF Events
<1>3. \E sent \in {Signal(p, "decline"), Signal(p, "end"), {}} :
         Put(p, Finished(peer[p]), sent)
  BY DEF Decline, HangUp, RingTimeout, FailTimeout
<1>4. QED BY <1>0, <1>1, <1>2, <1>3, PutStep

-----------------------------------------------------------------------------
(* The bodies that waited.                                                 *)

LEMMA ResumeStep ==
  ASSUME IInv, NEW p \in Peers, NEW w \in Kinds \X Ids, Resume(p, w)
  PROVE  IInv'
<1> DEFINE pg == [peer[p] EXCEPT !.waits = @ \ {w}, !.mic = TRUE]
<1>0. TypeOK /\ peer[p] \in Page /\ Good(peer[p]) /\ unused' \subseteq Ids
  BY DEF IInv, TypeOK, Resume
<1>1. pg \in Page
  BY <1>0 DEF Page
<1>2. /\ pg.status = peer[p].status /\ pg.id = peer[p].id
      /\ pg.ring = peer[p].ring /\ pg.fail = peer[p].fail
      /\ pg.linger = peer[p].linger /\ pg.pc = peer[p].pc
      /\ pg.lost = peer[p].lost /\ pg.waits = peer[p].waits \ {w}
  BY <1>0 DEF Page
<1>3. Watched(pg) /\ OfCall(pg) /\ Clean(pg)
  BY <1>0, <1>2 DEF Good, Watched, OfCall, Clean
<1>4. w[1] # "startCall" => Timed(pg)
  BY <1>0, <1>2 DEF Good, Timed
<1>5. w[1] \in Kinds
  OBVIOUS
<1>6. Resumed(pg, w[1]) \in Page /\ Good(Resumed(pg, w[1]))
  BY <1>1, <1>3, <1>4, <1>5, ResumedOK
<1>7. Sends[w[1]] \in Events
  BY <1>5 DEF Kinds, Sends, Events
<1>8. Signal(p, Sends[w[1]]) \in SUBSET Signals
  BY <1>0, <1>7, SignalOK
<1>9. Put(p, Resumed(pg, w[1]), Signal(p, Sends[w[1]]))
  BY DEF Resume
<1> HIDE DEF pg
<1>10. QED BY <1>0, <1>6, <1>8, <1>9, PutStep

LEMMA ResumeFailsStep ==
  ASSUME IInv, NEW p \in Peers, NEW w \in Kinds \X Ids, ResumeFails(p, w)
  PROVE  IInv'
<1> DEFINE pg == [peer[p] EXCEPT !.waits = @ \ {w}]
<1>0. TypeOK /\ peer[p] \in Page /\ Good(peer[p]) /\ unused' \subseteq Ids
  BY DEF IInv, TypeOK, ResumeFails
<1>1. pg \in Page
  BY <1>0 DEF Page
<1>2. Finished(pg) \in Page /\ Good(Finished(pg))
  BY <1>1, FinishedOK
<1>3. Signal(p, "decline") \in SUBSET Signals /\ {} \in SUBSET Signals
  BY <1>0, SignalOK DEF Events
<1>4. /\ pg.status = peer[p].status /\ pg.id = peer[p].id
      /\ pg.ring = peer[p].ring /\ pg.fail = peer[p].fail
      /\ pg.linger = peer[p].linger /\ pg.pc = peer[p].pc
      /\ pg.lost = peer[p].lost /\ pg.waits = peer[p].waits \ {w}
  BY <1>0 DEF Page
<1>5. w[1] = "onAccept" => Good(pg)
  BY <1>0, <1>4 DEF Good, Timed, Watched, OfCall, Clean
<1>6. \/ Put(p, Finished(pg), {}) \/ Put(p, Finished(pg), Signal(p, "decline"))
      \/ w[1] = "onAccept" /\ Put(p, pg, {})
  BY DEF ResumeFails
<1> HIDE DEF pg
<1>7. QED BY <1>0, <1>1, <1>2, <1>3, <1>5, <1>6, PutStep

-----------------------------------------------------------------------------
(* The browser.                                                            *)

LEMMA ConnectedStep ==
  ASSUME IInv, NEW p \in Peers, NEW c \in Paths(p), Connected(p, c)
  PROVE  IInv'
<1>0. TypeOK /\ peer[p] \in Page /\ Good(peer[p]) /\ unused' \subseteq Ids
  BY DEF IInv, TypeOK, Connected
<1>1. c \in Conn /\ Linked(c)
  BY <1>0 DEF Paths, Page, Connected, Linked
<1>2. PICK pg \in Moved(peer[p], c, "connected") :
        Put(p, [pg EXCEPT !.status = "active", !.ring = FALSE, !.fail = FALSE], {})
  BY DEF Connected
<1> DEFINE q == [pg EXCEPT !.status = "active", !.ring = FALSE, !.fail = FALSE]
<1>3. /\ pg \in Page /\ pg.id = peer[p].id /\ pg.linger = peer[p].linger
      /\ OfCall(peer[p]) => OfCall(pg)
      /\ \E d \in {pg.pc} \union pg.lost : d.ice = "connected"
  BY <1>0, <1>1, MovedOK
<1>4. q \in Page
  BY <1>3 DEF Page, CallStatus
<1>5. /\ q.status = "active" /\ q.id = pg.id /\ q.linger = pg.linger
      /\ q.pc = pg.pc /\ q.lost = pg.lost
  BY <1>3 DEF Page
<1>6. Good(q)
  BY <1>0, <1>3, <1>5 DEF Good, Timed, Watched, OfCall, Clean
<1>7. {} \in SUBSET Signals /\ Put(p, q, {})
  BY <1>2
<1> HIDE DEF q
<1>8. QED BY <1>0, <1>4, <1>6, <1>7, PutStep

LEMMA BrokenStep ==
  ASSUME IInv, NEW p \in Peers, NEW c \in Paths(p), Broken(p, c)
  PROVE  IInv'
<1>0. TypeOK /\ peer[p] \in Page /\ Good(peer[p]) /\ unused' \subseteq Ids
  BY DEF IInv, TypeOK, Broken
<1>1. c \in Conn /\ Linked(c)
  BY <1>0 DEF Paths, Page, Broken, Linked
<1>2. PICK pg \in Moved(peer[p], c, "broken") :
        \E sent \in {{}, Signal(p, "offer")} : Put(p, [pg EXCEPT !.fail = TRUE], sent)
  BY DEF Broken
<1> DEFINE q == [pg EXCEPT !.fail = TRUE]
<1>3. /\ pg \in Page /\ pg.status = peer[p].status /\ pg.id = peer[p].id
      /\ pg.ring = peer[p].ring /\ pg.linger = peer[p].linger
      /\ pg.waits = peer[p].waits
      /\ OfCall(peer[p]) => OfCall(pg)
  BY <1>0, <1>1, MovedOK
<1>4. q \in Page
  BY <1>3 DEF Page
<1>5. /\ q.fail /\ q.status = pg.status /\ q.id = pg.id /\ q.ring = pg.ring
      /\ q.linger = pg.linger /\ q.waits = pg.waits /\ q.pc = pg.pc
  BY <1>3 DEF Page
<1>6. Good(q)
  BY <1>0, <1>3, <1>5 DEF Good, Timed, Watched, OfCall, Clean
<1>7. {} \in SUBSET Signals /\ Signal(p, "offer") \in SUBSET Signals
  BY <1>0, SignalOK DEF Events
<1>8. \E sent \in {{}, Signal(p, "offer")} : Put(p, q, sent)
  BY <1>2
<1> HIDE DEF q
<1>9. QED BY <1>0, <1>4, <1>6, <1>7, <1>8, PutStep

LEMMA LingerStep ==
  ASSUME IInv, NEW p \in Peers, Linger(p)
  PROVE  IInv'
<1> DEFINE q == [peer[p] EXCEPT !.linger = FALSE, !.status = "idle"]
<1>0. peer[p] \in Page /\ Good(peer[p]) /\ unused' \subseteq Ids
  BY DEF IInv, TypeOK, Linger
<1>1. q \in Page
  BY <1>0 DEF Page, CallStatus
<1>2. /\ q.status = "idle" /\ ~q.linger /\ q.id = peer[p].id /\ q.pc = peer[p].pc
  BY <1>0 DEF Page
<1>3. Good(q)
  BY <1>0, <1>2 DEF Linger, Good, Timed, Watched, OfCall, Clean
<1>4. {} \in SUBSET Signals /\ Put(p, q, {})
  BY DEF Linger
<1> HIDE DEF q
<1>5. QED BY <1>0, <1>1, <1>3, <1>4, PutStep

LEMMA VanishStep ==
  ASSUME IInv, NEW p \in Peers, Vanish(p)
  PROVE  IInv'
<1>1. unused' \subseteq Ids /\ Put(p, Fresh, {}) /\ {} \in SUBSET Signals
  BY DEF IInv, TypeOK, Vanish
<1>2. QED BY <1>1, FreshOK, PutStep

-----------------------------------------------------------------------------
(* The signals.                                                            *)

LEMMA DropStep ==
  ASSUME IInv, NEW m \in signals, Lose(m)
  PROVE  IInv'
<1>1. peer[m.to] \in Page /\ Good(peer[m.to])
  BY DEF IInv, TypeOK, Signals
<1>2. Receive(m, peer[m.to], {}) /\ {} \in SUBSET Signals
  BY DEF Lose, Drop
<1>3. QED BY <1>1, <1>2, ReceiveStep

LEMMA InviteStep ==
  ASSUME IInv, NEW m \in signals, OnInvite(m)
  PROVE  IInv'
<1> DEFINE q == [peer[m.to] EXCEPT !.status = "incoming", !.id = m.id,
                                   !.caller = FALSE, !.ring = TRUE]
           busy == {[to |-> Other(m.to), event |-> "end", id |-> m.id]}
<1>0. /\ peer[m.to] \in Page /\ Good(peer[m.to])
      /\ m.to \in Peers /\ m.id \in Ids
  BY DEF IInv, TypeOK, Signals
<1>1. CASE peer[m.to].status # "idle"
  <2>1. busy \in SUBSET Signals
    BY <1>0 DEF Signals, Events, Other, Peers
  <2>2. Receive(m, peer[m.to], busy)
    BY <1>1 DEF OnInvite
  <2> HIDE DEF busy
  <2>3. QED BY <1>0, <2>1, <2>2, ReceiveStep
<1>2. CASE peer[m.to].status = "idle"
  <2>1. q \in Page
    BY <1>0 DEF Page, CallStatus
  <2>2. /\ q.status = "incoming" /\ q.id = m.id /\ q.ring
        /\ q.linger = peer[m.to].linger /\ q.pc = peer[m.to].pc
    BY <1>0 DEF Page
  <2>3. m.id # None /\ ~q.linger /\ ~Linked(q.pc)
    BY <1>0, <1>2, <2>2, CallAssumption DEF Good, Clean, OfCall
  <2>4. Good(q)
    BY <2>2, <2>3 DEF Good, Timed, Watched, OfCall, Clean
  <2>5. Receive(m, q, {}) /\ {} \in SUBSET Signals
    BY <1>2 DEF OnInvite
  <2> HIDE DEF q
  <2>6. QED BY <2>1, <2>4, <2>5, ReceiveStep
<1>3. QED BY <1>1, <1>2

LEMMA OnAcceptStep ==
  ASSUME IInv, NEW m \in signals, OnAccept(m)
  PROVE  IInv'
<1> DEFINE pg == [peer[m.to] EXCEPT !.status = "connecting", !.ring = FALSE]
           wt == [pg EXCEPT !.waits = @ \union {<<"onAccept", m.id>>}]
<1>0. /\ TypeOK /\ peer[m.to] \in Page /\ Good(peer[m.to])
      /\ m.to \in Peers /\ m.id \in Ids
  BY DEF IInv, TypeOK, Signals
<1>1. pg \in Page
  BY <1>0 DEF Page, CallStatus
<1>2. /\ pg.status = "connecting" /\ pg.id = peer[m.to].id
      /\ pg.linger = peer[m.to].linger /\ pg.pc = peer[m.to].pc
  BY <1>0 DEF Page
<1>3. Good(pg)
  BY <1>0, <1>2 DEF Good, Timed, Watched, OfCall, Clean
<1>4. Resumed(pg, "onAccept") \in Page /\ Good(Resumed(pg, "onAccept"))
  BY <1>1, <1>3, ResumedOK DEF Kinds, Good
<1>5. wt \in Page /\ Good(wt)
  BY <1>0, <1>1, <1>3, AwaitOK DEF Kinds, Good
<1>6. Signal(m.to, "offer") \in SUBSET Signals /\ {} \in SUBSET Signals
  BY <1>0, SignalOK DEF Events
<1>7. \/ Receive(m, Resumed(pg, "onAccept"), Signal(m.to, "offer"))
      \/ Receive(m, wt, {})
  BY DEF OnAccept
<1> HIDE DEF pg, wt
<1>8. QED BY <1>4, <1>5, <1>6, <1>7, ReceiveStep

\* An offer or an answer gives the connection the remote side of this call.
LEMMA RemoteStep ==
  ASSUME IInv, NEW m \in signals, OnOffer(m) \/ OnAnswer(m)
  PROVE  IInv'
<1> DEFINE q == [peer[m.to] EXCEPT !.pc = [ice |-> "checking", of |-> m.id]]
<1>0. /\ TypeOK /\ peer[m.to] \in Page /\ Good(peer[m.to])
      /\ m.to \in Peers /\ m.id \in Ids /\ m.id # None
  BY CallAssumption DEF IInv, TypeOK, Signals
<1>1. q \in Page
  BY <1>0 DEF Page, Conn
<1>2. /\ q.status = peer[m.to].status /\ q.id = peer[m.to].id
      /\ q.ring = peer[m.to].ring /\ q.linger = peer[m.to].linger
      /\ q.waits = peer[m.to].waits
      /\ q.pc = [ice |-> "checking", of |-> m.id]
  BY <1>0 DEF Page
<1>3. peer[m.to].id = m.id
  BY DEF OnOffer, OnAnswer, Mine
<1>4. Good(q)
  BY <1>0, <1>2, <1>3 DEF Good, Timed, Watched, OfCall, Clean
<1>5. {} \in SUBSET Signals /\ Signal(m.to, "answer") \in SUBSET Signals
  BY <1>0, SignalOK DEF Events
<1>6. Receive(m, q, Signal(m.to, "answer")) \/ Receive(m, q, {})
  BY DEF OnOffer, OnAnswer
<1> HIDE DEF q
<1>7. QED BY <1>1, <1>4, <1>5, <1>6, ReceiveStep

LEMMA EndStep ==
  ASSUME IInv, NEW m \in signals, OnEnd(m)
  PROVE  IInv'
<1>1. Finished(peer[m.to]) \in Page /\ Good(Finished(peer[m.to]))
  BY FinishedOK DEF IInv, TypeOK, Signals
<1>2. Receive(m, Finished(peer[m.to]), {}) /\ {} \in SUBSET Signals
  BY DEF OnEnd
<1>3. QED BY <1>1, <1>2, ReceiveStep

-----------------------------------------------------------------------------
(* The theorems.                                                           *)

LEMMA StepIInv == IInv /\ [Next]_vars => IInv'
<1> SUFFICES ASSUME IInv, [Next]_vars PROVE IInv'
  OBVIOUS
<1>1. ASSUME NEW p \in Peers, NEW c \in Ids, StartCall(p, c) PROVE IInv'
  BY <1>1, StartCallStep
<1>2. ASSUME NEW p \in Peers, Accept(p) PROVE IInv'
  BY <1>2, AcceptStep
<1>3. ASSUME NEW p \in Peers,
             Decline(p) \/ HangUp(p) \/ RingTimeout(p) \/ FailTimeout(p)
      PROVE  IInv'
  BY <1>3, FinishStep
<1>4. ASSUME NEW p \in Peers, NEW w \in Kinds \X Ids,
             Resume(p, w) \/ ResumeFails(p, w)
      PROVE  IInv'
  BY <1>4, ResumeStep, ResumeFailsStep
<1>5. ASSUME NEW p \in Peers, NEW c \in Paths(p), Connected(p, c) \/ Broken(p, c)
      PROVE  IInv'
  BY <1>5, ConnectedStep, BrokenStep
<1>6. ASSUME NEW p \in Peers, Linger(p) \/ Vanish(p) PROVE IInv'
  BY <1>6, LingerStep, VanishStep
<1>7. ASSUME NEW m \in signals,
             \/ OnInvite(m) \/ OnAccept(m) \/ OnOffer(m) \/ OnAnswer(m)
             \/ OnEnd(m) \/ Lose(m)
      PROVE  IInv'
  BY <1>7, InviteStep, OnAcceptStep, RemoteStep, EndStep, DropStep
<1>8. CASE UNCHANGED vars
  BY <1>8 DEF vars, IInv, TypeOK
<1>9. QED BY <1>1, <1>2, <1>3, <1>4, <1>5, <1>6, <1>7, <1>8 DEF Next

\* Every reachable state of the two pages satisfies the inductive invariant.
THEOREM Invariance == Spec => []IInv
BY InitIInv, StepIInv, PTL DEF Spec

\* Type correctness, for any set of call ids and whoever may dial.
THEOREM Types == Spec => []TypeOK
<1>1. IInv => TypeOK
  BY DEF IInv
<1>2. QED BY <1>1, Invariance, PTL

\* A page never rings without the timer that ends the ringing, or the body of
\* startCall that is about to arm it: for any number of earlier calls whose
\* callbacks, timers and signals are still about.
THEOREM Ringing == Spec => []RingingIsTimed
<1>1. IInv => RingingIsTimed
  BY DEF IInv, Good, Timed, RingingIsTimed
<1>2. QED BY <1>1, Invariance, PTL

\* A page never talks over nothing without the countdown that ends the call.
THEOREM Talking == Spec => []TalkIsWatched
<1>1. IInv => TalkIsWatched
  BY DEF IInv, Good, Watched, TalkIsWatched, Paths
<1>2. QED BY <1>1, Invariance, PTL

\* The connection of a page is never tied to another call than the page's own,
\* whatever order the signals of any number of calls arrive in.
THEOREM PathOwnership == Spec => []PathIsOfCall
<1>1. IInv => PathIsOfCall
  BY DEF IInv, Good, OfCall, PathIsOfCall
<1>2. QED BY <1>1, Invariance, PTL

-----------------------------------------------------------------------------
(* The page's line (CallLine).  Two of the steps take a call, and all the  *)
(* others go on with the one there is or leave it.                         *)

Lines == [p \in Peers |-> LineOf(peer[p])]

\* Every id on a page or on its way is one that was dialled.
Dialled ==
    /\ \A p \in Peers : peer[p].id \notin unused
    /\ \A m \in signals : m.id \notin unused

\* Page q goes on with the call of pg, or has none.
Follows(pg, q) ==
    \/ q.id = None
    \/ q.id = pg.id /\ q.status = pg.status
    \/ q.id = pg.id /\ q.status \in {"connecting", "active"}

\* A step of p that takes no call and speaks of no other.
GoesOn(p) ==
    /\ \E q : peer' = [peer EXCEPT ![p] = q] /\ Follows(peer[p], q)
    /\ unused' = unused
    /\ \A m \in signals' :
         \/ m.id = peer[p].id
         \/ \E n \in signals : m.id = n.id

LEMMA OneLine ==
    ASSUME TypeOK, NEW p \in Peers, NEW q, peer' = [peer EXCEPT ![p] = q]
    PROVE  Lines' = [Lines EXCEPT ![p] = LineOf(q)]
BY DEF Lines, TypeOK

LEMMA GoesOnKeeps ==
    ASSUME IInv, Dialled, NEW p \in Peers, GoesOn(p)
    PROVE  /\ Dialled'
           /\ Line!Next \/ UNCHANGED <<Lines, Ids \ unused>>
<1>1. TypeOK /\ peer[p] \in Page /\ unused' = unused
  BY DEF IInv, TypeOK, GoesOn
<1>2. PICK q : peer' = [peer EXCEPT ![p] = q] /\ Follows(peer[p], q)
  BY DEF GoesOn
<1>3. \A r \in Peers : peer'[r] = IF r = p THEN q ELSE peer[r]
  BY <1>1, <1>2 DEF TypeOK
<1>4. Dialled'
  <2>1. None \notin unused
    BY <1>1, CallAssumption DEF TypeOK
  <2>2. q.id \in {None, peer[p].id}
    BY <1>2 DEF Follows
  <2>3. \A r \in Peers : peer'[r].id \notin unused'
    BY <1>1, <1>3, <2>1, <2>2 DEF Dialled
  <2>4. \A m \in signals' : m.id \notin unused'
    BY <1>1 DEF GoesOn, Dialled
  <2>5. QED BY <2>3, <2>4 DEF Dialled
<1>5. Lines' = [Lines EXCEPT ![p] = LineOf(q)] /\ Lines[p] = LineOf(peer[p])
  BY <1>1, <1>2, OneLine DEF Lines
<1>6. CASE q.id = None
  <2>1. LineOf(q) = Line!Free
    BY <1>6 DEF LineOf, Line!Free
  <2>2. Line!Leave(p)
    BY <1>1, <1>5, <2>1 DEF Line!Leave, Lines
  <2>3. QED BY <1>4, <2>2 DEF Line!Next
<1>7. CASE q.id # None /\ LineOf(q) = LineOf(peer[p])
  <2>1. Lines' = Lines
    BY <1>5, <1>7 DEF Lines
  <2>2. QED BY <1>1, <1>4, <2>1
<1>8. CASE q.id # None /\ LineOf(q) # LineOf(peer[p])
  <2>1. /\ q.id = peer[p].id /\ q.status \in {"connecting", "active"}
        /\ peer[p].status \in {"calling", "incoming"}
    BY <1>2, <1>8 DEF Follows, LineOf
  <2>2. /\ LineOf(peer[p]).phase = "ringing" /\ LineOf(peer[p]).call = q.id
        /\ LineOf(q) = [call |-> q.id, phase |-> "talking"]
    BY <1>8, <2>1 DEF LineOf
  <2>3. Line!Engage(p)
    BY <1>1, <1>5, <2>2 DEF Line!Engage, Lines
  <2>4. QED BY <1>4, <2>3 DEF Line!Next
<1>9. QED BY <1>6, <1>7, <1>8

\* A page without a call takes call c.
LEMMA RingsKeeps ==
    ASSUME IInv, Dialled, NEW p \in Peers, NEW c \in Ids, NEW q,
           peer' = [peer EXCEPT ![p] = q], peer[p].id = None,
           q.id = c, q.status \in {"calling", "incoming"}
    PROVE  Line!Rings(p, c)
<1>1. Lines' = [Lines EXCEPT ![p] = LineOf(q)] /\ Lines[p] = LineOf(peer[p])
  BY OneLine DEF IInv, Lines
<1>2. LineOf(q) = [call |-> c, phase |-> "ringing"]
  BY CallAssumption DEF LineOf
<1>3. LineOf(peer[p]) = Line!Free
  BY DEF LineOf, Line!Free
<1>4. QED BY <1>1, <1>2, <1>3 DEF Line!Rings, Lines

-----------------------------------------------------------------------------
(* The steps.                                                              *)

\* The helpers leave the call alone, or end it.
LEMMA HelperCalls ==
    ASSUME NEW pg \in Page, NEW kind \in Kinds
    PROVE  /\ Finished(pg).id = None
           /\ Resumed(pg, kind).id = pg.id
           /\ Resumed(pg, kind).status = pg.status
BY DEF Finished, Resumed, WithPeer, Page, Kinds

LEMMA PutGoesOn ==
    ASSUME NEW p \in Peers, NEW q, Follows(peer[p], q), unused' = unused,
           NEW sent, \A m \in sent : m.id = peer[p].id, Put(p, q, sent)
    PROVE  GoesOn(p)
<1>1. peer' = [peer EXCEPT ![p] = q] /\ signals' = signals \union sent
  BY DEF Put
<1>2. QED BY <1>1 DEF GoesOn

LEMMA ReceiveGoesOn ==
    ASSUME NEW m \in signals, NEW q, Follows(peer[m.to], q),
           NEW sent, \A n \in sent : n.id \in {m.id, peer[m.to].id},
           Receive(m, q, sent)
    PROVE  GoesOn(m.to)
<1>1. /\ peer' = [peer EXCEPT ![m.to] = q]
      /\ signals' = (signals \ {m}) \union sent /\ unused' = unused
  BY DEF Receive
<1>2. QED BY <1>1 DEF GoesOn

LEMMA SignalIds ==
    ASSUME NEW p, NEW event PROVE \A m \in Signal(p, event) : m.id = peer[p].id
BY DEF Signal

LEMMA StartCallLine ==
    ASSUME IInv, Dialled, NEW p \in Peers, NEW c \in Ids, StartCall(p, c)
    PROVE  Dialled' /\ Line!Next
<1> DEFINE pg == [peer[p] EXCEPT !.status = "calling", !.id = c, !.caller = TRUE]
<1>1. /\ TypeOK /\ peer[p] \in Page /\ c \in unused /\ unused' = unused \ {c}
      /\ peer[p].id = None
  BY DEF IInv, TypeOK, StartCall, Good, Clean
<1>2. \E q : /\ peer' = [peer EXCEPT ![p] = q] /\ q.id = c /\ q.status = "calling"
             /\ \A m \in signals' : m \in signals \/ m.id = c
  <2>1. pg.id = c /\ pg.status = "calling" /\ pg \in Page
    BY <1>1 DEF Page, CallStatus
  <2>2. CASE pg.mic
    <3>1. Put(p, Resumed(pg, "startCall"),
              {[to |-> Other(p), event |-> "invite", id |-> c]})
      BY <2>2 DEF StartCall
    <3>2. Resumed(pg, "startCall").id = c /\ Resumed(pg, "startCall").status = "calling"
      BY <2>1 DEF Resumed, Page
    <3>3. /\ peer' = [peer EXCEPT ![p] = Resumed(pg, "startCall")]
          /\ \A m \in signals' : m \in signals \/ m.id = c
      BY <3>1 DEF Put
    <3> HIDE DEF pg
    <3>4. QED BY <3>2, <3>3
  <2>3. CASE ~pg.mic
    <3> DEFINE wt == [pg EXCEPT !.waits = @ \union {<<"startCall", c>>}]
    <3>1. Put(p, wt, {})
      BY <2>3 DEF StartCall
    <3>2. wt.id = c /\ wt.status = "calling"
      BY <2>1 DEF Page
    <3>3. peer' = [peer EXCEPT ![p] = wt] /\ signals' = signals
      BY <3>1 DEF Put
    <3> HIDE DEF wt
    <3>4. QED BY <3>2, <3>3
  <2>4. QED BY <2>2, <2>3
<1>3. PICK q : /\ peer' = [peer EXCEPT ![p] = q] /\ q.id = c /\ q.status = "calling"
               /\ \A m \in signals' : m \in signals \/ m.id = c
  BY <1>2
<1>4. Dialled'
  BY <1>1, <1>3 DEF Dialled, TypeOK
<1>5. Line!Rings(p, c)
  BY <1>1, <1>3, RingsKeeps
<1>6. c \notin Ids \ unused /\ (Ids \ unused)' = (Ids \ unused) \union {c}
  BY <1>1
<1>7. Line!Dial(p, c)
  BY <1>5, <1>6 DEF Line!Dial
<1>8. QED BY <1>4, <1>7 DEF Line!Next

LEMMA InviteLine ==
    ASSUME IInv, Dialled, NEW m \in signals, OnInvite(m)
    PROVE  /\ Dialled'
           /\ Line!Next \/ UNCHANGED <<Lines, Ids \ unused>>
<1>1. /\ TypeOK /\ m.to \in Peers /\ m.id \in Ids /\ m.id \notin unused
      /\ peer[m.to] \in Page
  BY DEF IInv, TypeOK, Signals, Dialled
<1>2. CASE peer[m.to].status # "idle"
  <2>1. Receive(m, peer[m.to], {[to |-> Other(m.to), event |-> "end", id |-> m.id]})
    BY <1>2 DEF OnInvite
  <2>2. GoesOn(m.to)
    BY <2>1, ReceiveGoesOn DEF Follows
  <2>3. QED BY <1>1, <2>2, GoesOnKeeps
<1>3. CASE peer[m.to].status = "idle"
  <2> DEFINE q == [peer[m.to] EXCEPT !.status = "incoming", !.id = m.id,
                                     !.caller = FALSE, !.ring = TRUE]
  <2>1. Receive(m, q, {})
    BY <1>3 DEF OnInvite
  <2>2. q.id = m.id /\ q.status = "incoming" /\ peer[m.to].id = None
    BY <1>1, <1>3 DEF Page, IInv, Good, Clean
  <2> HIDE DEF q
  <2>3. /\ peer' = [peer EXCEPT ![m.to] = q] /\ unused' = unused
        /\ signals' \subseteq signals
    BY <2>1 DEF Receive
  <2>4. Dialled'
    BY <1>1, <2>2, <2>3 DEF Dialled, TypeOK
  <2>5. Line!Invited(m.to, m.id)
    BY <1>1, <2>2, <2>3, RingsKeeps DEF Line!Invited
  <2>6. QED BY <1>1, <2>4, <2>5 DEF Line!Next
<1>4. QED BY <1>2, <1>3

LEMMA ButtonGoesOn ==
    ASSUME IInv, NEW p \in Peers,
           \/ Accept(p) \/ Decline(p) \/ HangUp(p)
           \/ RingTimeout(p) \/ FailTimeout(p) \/ Linger(p) \/ Vanish(p)
    PROVE  GoesOn(p)
<1>1. /\ peer[p] \in Page /\ Clean(peer[p])
      /\ unused' = unused
  BY DEF IInv, TypeOK, Good, Accept, Decline, HangUp, RingTimeout, FailTimeout,
         Linger, Vanish
<1>2. CASE Accept(p)
  <2> DEFINE pg == [peer[p] EXCEPT !.status = "connecting", !.caller = FALSE,
                                   !.ring = FALSE]
             wt == [pg EXCEPT !.waits = @ \union {<<"accept", pg.id>>}]
  <2>1. /\ pg \in Page /\ pg.id = peer[p].id /\ pg.status = "connecting"
        /\ wt.id = peer[p].id /\ wt.status = "connecting"
    BY <1>1 DEF Page, CallStatus
  <2>2. \/ Put(p, Resumed(pg, "accept"), Signal(p, "accept")) \/ Put(p, wt, {})
    BY <1>2 DEF Accept
  <2> HIDE DEF pg, wt
  <2>3. Follows(peer[p], wt) /\ Follows(peer[p], Resumed(pg, "accept"))
    BY <2>1, HelperCalls DEF Follows, Kinds
  <2>4. QED BY <1>1, <2>2, <2>3, PutGoesOn, SignalIds
<1>3. CASE Decline(p) \/ HangUp(p) \/ RingTimeout(p) \/ FailTimeout(p)
  <2>1. \E sent \in {Signal(p, "decline"), Signal(p, "end"), {}} :
          Put(p, Finished(peer[p]), sent)
    BY <1>3 DEF Decline, HangUp, RingTimeout, FailTimeout
  <2>2. Follows(peer[p], Finished(peer[p]))
    BY <1>1, HelperCalls DEF Follows, Kinds
  <2>3. QED BY <1>1, <2>1, <2>2, PutGoesOn, SignalIds
<1>4. CASE Linger(p)
  <2> DEFINE q == [peer[p] EXCEPT !.linger = FALSE, !.status = "idle"]
  <2>1. Put(p, q, {}) /\ q.id = None
    BY <1>1, <1>4 DEF Linger, Clean, Page
  <2> HIDE DEF q
  <2>2. Follows(peer[p], q)
    BY <2>1 DEF Follows
  <2>3. QED BY <1>1, <2>1, <2>2, PutGoesOn
<1>5. CASE Vanish(p)
  <2>1. Put(p, Fresh, {}) /\ Fresh.id = None
    BY <1>5 DEF Vanish, Fresh
  <2>2. QED BY <1>1, <2>1, PutGoesOn DEF Follows
<1>6. QED BY <1>2, <1>3, <1>4, <1>5

LEMMA BodyGoesOn ==
    ASSUME IInv, NEW p \in Peers, NEW w \in Kinds \X Ids,
           Resume(p, w) \/ ResumeFails(p, w)
    PROVE  GoesOn(p)
<1> DEFINE pg == [peer[p] EXCEPT !.waits = @ \ {w}, !.mic = TRUE]
           qt == [peer[p] EXCEPT !.waits = @ \ {w}]
<1>1. /\ peer[p] \in Page /\ w[1] \in Kinds /\ unused' = unused
      /\ pg \in Page /\ pg.id = peer[p].id /\ pg.status = peer[p].status
      /\ qt \in Page /\ qt.id = peer[p].id /\ qt.status = peer[p].status
  <2>1. peer[p] \in Page /\ w[1] \in Kinds
    BY DEF IInv, TypeOK
  <2>2. unused' = unused
    BY DEF Resume, ResumeFails
  <2>3. peer[p].waits \ {w} \in SUBSET (Kinds \X Ids)
    BY <2>1 DEF Page
  <2>4. /\ pg \in Page /\ pg.id = peer[p].id /\ pg.status = peer[p].status
    BY <2>1, <2>3 DEF Page
  <2>5. /\ qt \in Page /\ qt.id = peer[p].id /\ qt.status = peer[p].status
    BY <2>1, <2>3 DEF Page
  <2>6. QED BY <2>1, <2>2, <2>4, <2>5
<1>2. \/ Put(p, Resumed(pg, w[1]), Signal(p, Sends[w[1]]))
      \/ \E sent \in {{}, Signal(p, "decline")} : Put(p, Finished(qt), sent)
      \/ Put(p, qt, {})
  BY DEF Resume, ResumeFails
<1> HIDE DEF pg, qt
<1>3. /\ Follows(peer[p], Resumed(pg, w[1])) /\ Follows(peer[p], Finished(qt))
      /\ Follows(peer[p], qt)
  BY <1>1, HelperCalls DEF Follows
<1>4. QED BY <1>1, <1>2, <1>3, PutGoesOn, SignalIds

LEMMA PathGoesOn ==
    ASSUME IInv, NEW p \in Peers, NEW c \in Paths(p),
           Connected(p, c) \/ Broken(p, c)
    PROVE  GoesOn(p)
<1>1. /\ peer[p] \in Page /\ c \in Conn /\ Linked(c) /\ unused' = unused
  BY DEF IInv, TypeOK, Paths, Page, Connected, Broken, Linked
<1>2. CASE Connected(p, c)
  <2>1. PICK pg \in Moved(peer[p], c, "connected") :
          Put(p, [pg EXCEPT !.status = "active", !.ring = FALSE, !.fail = FALSE], {})
    BY <1>2 DEF Connected
  <2> DEFINE q == [pg EXCEPT !.status = "active", !.ring = FALSE, !.fail = FALSE]
  <2>2. pg \in Page /\ pg.id = peer[p].id
    BY <1>1, MovedOK
  <2>3. q.id = peer[p].id /\ q.status = "active" /\ Put(p, q, {})
    BY <2>1, <2>2 DEF Page
  <2> HIDE DEF q
  <2>4. QED BY <1>1, <2>3, PutGoesOn DEF Follows
<1>3. CASE Broken(p, c)
  <2>1. PICK pg \in Moved(peer[p], c, "broken") :
          \E sent \in {{}, Signal(p, "offer")} : Put(p, [pg EXCEPT !.fail = TRUE], sent)
    BY <1>3 DEF Broken
  <2> DEFINE q == [pg EXCEPT !.fail = TRUE]
  <2>2. pg \in Page /\ pg.id = peer[p].id /\ pg.status = peer[p].status
    BY <1>1, MovedOK
  <2>3. /\ q.id = peer[p].id /\ q.status = peer[p].status
        /\ \E sent \in {{}, Signal(p, "offer")} : Put(p, q, sent)
    BY <2>1, <2>2 DEF Page
  <2> HIDE DEF q
  <2>4. QED BY <1>1, <2>3, PutGoesOn, SignalIds DEF Follows
<1>4. QED BY <1>2, <1>3

LEMMA SignalGoesOn ==
    ASSUME IInv, NEW m \in signals,
           OnAccept(m) \/ OnOffer(m) \/ OnAnswer(m) \/ OnEnd(m) \/ Lose(m)
    PROVE  GoesOn(m.to)
<1>1. peer[m.to] \in Page /\ m.to \in Peers
  BY DEF IInv, TypeOK, Signals
<1>2. CASE OnAccept(m)
  <2> DEFINE pg == [peer[m.to] EXCEPT !.status = "connecting", !.ring = FALSE]
             wt == [pg EXCEPT !.waits = @ \union {<<"onAccept", m.id>>}]
  <2>1. /\ pg \in Page /\ pg.id = peer[m.to].id /\ pg.status = "connecting"
        /\ wt.id = peer[m.to].id /\ wt.status = "connecting"
    BY <1>1 DEF Page, CallStatus
  <2>2. \/ Receive(m, Resumed(pg, "onAccept"), Signal(m.to, "offer"))
        \/ Receive(m, wt, {})
    BY <1>2 DEF OnAccept
  <2> HIDE DEF pg, wt
  <2>3. Follows(peer[m.to], wt) /\ Follows(peer[m.to], Resumed(pg, "onAccept"))
    BY <2>1, HelperCalls DEF Follows, Kinds
  <2>4. QED BY <2>2, <2>3, ReceiveGoesOn, SignalIds
<1>3. CASE OnOffer(m) \/ OnAnswer(m)
  <2> DEFINE q == [peer[m.to] EXCEPT !.pc = [ice |-> "checking", of |-> m.id]]
  <2>1. q.id = peer[m.to].id /\ q.status = peer[m.to].status
    BY <1>1 DEF Page
  <2>2. Receive(m, q, Signal(m.to, "answer")) \/ Receive(m, q, {})
    BY <1>3 DEF OnOffer, OnAnswer
  <2> HIDE DEF q
  <2>3. Follows(peer[m.to], q)
    BY <2>1 DEF Follows
  <2>4. QED BY <2>2, <2>3, ReceiveGoesOn, SignalIds
<1>4. CASE OnEnd(m)
  <2>1. Receive(m, Finished(peer[m.to]), {})
    BY <1>4 DEF OnEnd
  <2>2. Follows(peer[m.to], Finished(peer[m.to]))
    BY <1>1, HelperCalls DEF Follows, Kinds
  <2>3. QED BY <2>1, <2>2, ReceiveGoesOn
<1>5. CASE Lose(m)
  <2>1. Receive(m, peer[m.to], {})
    BY <1>5 DEF Lose, Drop
  <2>2. QED BY <2>1, ReceiveGoesOn DEF Follows
<1>6. QED BY <1>2, <1>3, <1>4, <1>5

LEMMA LineStep ==
    ASSUME IInv, Dialled, [Next]_vars
    PROVE  /\ Dialled'
           /\ Line!Next \/ UNCHANGED <<Lines, Ids \ unused>>
<1>1. ASSUME NEW m \in signals PROVE m.to \in Peers
  BY DEF IInv, TypeOK, Signals
<1>2. CASE \E p \in Peers : GoesOn(p)
  BY <1>2, GoesOnKeeps
<1>3. CASE \E p \in Peers, c \in Ids : StartCall(p, c)
  BY <1>3, StartCallLine
<1>4. CASE \E m \in signals : OnInvite(m)
  BY <1>4, InviteLine
<1>5. CASE UNCHANGED vars
  BY <1>5 DEF vars, Dialled, Lines
<1>6. CASE Next /\ ~ \E p \in Peers : GoesOn(p)
  BY <1>1, <1>3, <1>4, <1>6, ButtonGoesOn, BodyGoesOn, PathGoesOn, SignalGoesOn
     DEF Next
<1>7. QED BY <1>2, <1>5, <1>6

(* The pages implement the line of CallLine, whatever becomes of signals,  *)
(* callbacks and timers of any number of calls: no page goes from one call *)
(* to another without leaving it, or from talking back to ringing, and no  *)
(* call comes from nowhere.                                                *)
THEOREM ImplementsLine == Spec => LineSpec
<1>1. Init => Line!Init /\ Dialled
  <2> SUFFICES ASSUME Init PROVE Line!Init /\ Dialled
    OBVIOUS
  <2>1. LineOf(Fresh) = Line!Free /\ Fresh.id = None
    BY DEF LineOf, Fresh, Line!Free
  <2>2. QED BY <2>1, CallAssumption DEF Init, Line!Init, Dialled
<1>2. IInv /\ Dialled /\ [Next]_vars => Dialled'
  BY LineStep
<1>3. IInv /\ Dialled /\ [Next]_vars => [Line!Next]_<<Lines, Ids \ unused>>
  BY LineStep
<1>4. QED BY <1>1, <1>2, <1>3, Invariance, PTL DEF Spec, LineSpec, Line!Spec, Lines
=============================================================================
