# A TLA+ model of the service marketplace

This directory models the marketplace whose backend is `src/backend` (NestJS,
TypeORM on PostgreSQL, Redis, Socket.IO) and whose client is `src/frontend`
(Next.js). TLC checks the modules on small instances; TLAPS proves the main
safety results for every value of the constants.

Section 1 is the inventory, section 2 says in which order the modules were
written and what is left, section 3 how each corresponds to the code, section 4
what the runs check, section 5 what is proved, section 6 what is left out.

## 1. The system

A **seeker** broadcasts a *request*; **providers** nearby see it live and raise
their hand (an *offer*); the seeker accepts one of them, which opens an
*engagement* that locks both until the seeker completes it. During an engagement
the two chat, share locations and call each other; afterwards the seeker may
leave a review. Providers apply, submit documents and are approved by an admin.

| Component | State | Operations | Hard behaviour |
|---|---|---|---|
| requests (`requests.service.ts`) | `service_requests`, `service_request_responses`, Redis `req-rejected:*`, a 30 s timer | create, cancel, respond, withdraw, reject, markFulfilled, sweepExpired | every handler is a chain of awaited statements with no transaction; three of them close the same row; the sweep works on a list it read earlier |
| engagements (`engagements.service.ts`) | `engagements` with three unique indexes, `messages` | accept, complete, markRead, send | check-then-insert by rival accepts; `save()` of a row read earlier |
| calls (`call-provider.tsx`, `calls.gateway.ts`) | per peer: status, call id, timers, peer connection; the server keeps nothing | startCall, accept, decline, hangUp, seven socket events, two timers | lost signals, both calling at once, a callback that resumes after the call ended |
| realtime (`events.gateway.ts`) | `online` map of sockets, rooms | connect, disconnect, emit | a disconnect during the awaited token check |
| live location (`engagements.gateway.ts`) | room membership | join, ping | membership outlives the engagement |
| provider applications (`providers.service.ts`, `admin-providers.controller.ts`) | `provider_profiles`, documents, Redis OTP | draft, update, verify, submit, approve, reject, location, availability | all of them load, change and save the same row |
| reviews (`reviews.service.ts`) | `reviews`, the profile's count and sum | create, pending | a read-modify-write of a shared aggregate, two writes without a transaction |
| users and roles (`users.service.ts`) | `users.roles`, `deletedAt` | assignSeekerRole, promoteToProvider, deleteAccount, purge | roles that exclude each other, written by two checks and a save |
| auth (`auth.service.ts`, `lib/axios.ts`) | Redis sessions, cookies, an access token in the client | issue, rotate, revoke, revokeAll, shared refresh | rotation racing revocation; a lost answer to a rotation |
| client caches (`chat/[id]/page.tsx`, `dashboard/page.tsx`, hooks) | query caches with optimistic entries | send, retry, pushed events, refetch | a push and a refetch in either order |
| pagination (`common/pagination.ts`) | none | encode and decode a cursor | a cursor coarser than the column it points into |
| discovery, skills, mail, storage, health, metrics, config, migrations | read-only, external or static | | nothing to interleave |

Components meet in the database and in Redis (shared state), through
`EventsGateway.emitToUser(s)` (messages that are lost when the user is offline)
and by direct calls: `accept` calls `markFulfilled`, `submit` calls
`promoteToProvider`, `create` of a review writes the provider's profile.

What makes each correct: a seeker has one open broadcast; nobody is in two
active jobs; a job's provider is fixed; a broadcast always ends, for a reason
that holds; an application's decision is made once and not undone; the rating
aggregate equals the reviews; a user is never seeker and provider; a revoked
session stays revoked; both ends of a call come back to idle; a list shows what
the server holds once events and refetches have settled.

Some of these hold of the code only while no request overtakes another: a save of
a row read earlier can undo a decision, lose a review from the rating or leave a
user both roles, and a rotation can write a session that was just revoked. There
the modules state what does hold: the property as long as no save was stale
(`SoundUnlessStale`, `LifecycleUnlessStale`, `RolesUnlessOvertaken`), what no overlap
can break (`RatingNeverInflated`, `AdminStaysAdmin`), and where an overlap or a crash
can break something, that nothing else does (`LockedIsPromoted`: a submit that died
between its saves, or another save of the user's row; `DeletedLeavesNoSession`: a
rotation or sign-in that overlaps the deletion, or a deletion that died halfway). A
history variable names each such case, so that a reader sees what a property excuses:

| Property | does not speak of | variable |
|---|---|---|
| `SoundUnlessStale`, `LifecycleUnlessStale` | a row saved over what another call wrote after it was read | `stale` |
| `SoundUnlessStale`, its rating | reviews whose call has still to save the profile, or died before | `counted`, `dropped` |
| `SoundUnlessStale`, its number | a code entered after the number was changed: the code belongs to the user | `swapped` |
| `LockedIsPromoted` | a submit that died or found no user, a role overwritten by another save | `orphaned`, `overwritten` |
| `RolesUnlessOvertaken` | a user's row saved over what another call wrote | `overtaken` |
| `DeletedLeavesNoSession` | sessions written after the deletion, deletions that died | `revived`, `halfway` |
| `FalseAlarmNeedsLoss` | browsers that lost an answer or refreshed from two tabs | `lossy`, `rivals` |
| `DropIsHealed` | messages behind the oldest `PageLimit`, failed fetches | `early`, `unsynced` |
| `BarIsCurrent`, `BarSettles` | events before the join, a write during a fetch or out of date, failed fetches | `missed`, `raced`, `unlucky` |
| `ClosedLeavesPage`, `ShownIsTimed` | any failed fetch, a timer that fired early | `unlucky` |

## 2. The plan

1. `Marketplace` with `JobLock` (done): the matching core, because every other
   part hangs on its rows; proofs in `MarketplaceProofs`, `MarketplaceLockProofs`.
2. `CallSession` with `CallLine` (done): two pages over a relay that delays, reorders and loses
   signals, with their timers and late callbacks; proofs in `CallSessionProofs`.
3. `ProviderProfile` (done): the profile row written by application, admin,
   location and review handlers; proofs in `ProviderProfileProofs`.
4. `Accounts` and `Sessions` (done): the user's row, and refresh rotation,
   revocation and the client's shared refresh on top of it; proofs in
   `SessionsProofs`.
5. `Chat` and `HomePage` (done): the client's caches against the server's rows,
   over a socket that breaks; proofs in `ChatProofs`, `HomePageProofs`.
6. `Pagination` (done): cursors against a changing table; proofs in
   `PaginationProofs`.
7. Left: the live location relay; the unread flag; `Accounts` composed with
   `Marketplace`, for the deletion of a user with a job.

Modules that are composed: `Sessions` extends `Accounts` (a sign-in and a deletion
work on the user's row first and on the sessions then), `Marketplace` implements
`JobLock` and `CallSession` implements `CallLine`. The others share no state that their properties tell apart:
`HomePage` takes the server's handlers as atomic, because `Marketplace` has
their interleavings and `HomePage` those of the page.

## 3. What is modelled now

### Marketplace: the matching core

*State.* One variable per table or key: `status` and `past` (service_requests and
their deadline), `offers` (service_request_responses), `rejected` (the Redis
sets), `job` and `helper` (engagements), and `call`, which holds for every
handler in flight the statement it will run next and the values it has read.

*Steps.* TypeORM statements are atomic, handlers are not: each awaited statement
that reads or writes what another handler may change is an action, and actions of
different handlers interleave. Statements that only read immutable data (skills,
users) or only address notifications are folded into their neighbours.
A `save()` of a row that was loaded before writes back every column in which the
loaded copy and the row differ: so `MarkReadSave` writes the status that
`MarkRead` saw, and `MarkRemoved` and `Fulfil` write theirs over whatever the row
holds by then. The partial unique indexes are guards (`OpenIndexFree`,
`SeekerIndexFree`, `ProviderIndexFree`, `RequestKeyFree`): a statement that would
break one throws, and the handler ends.

*Failures.* `Fail` ends a handler before any of its statements: a query that
throws, a process that dies. What it wrote stays. The constant `MayFail` names
the handlers that may do this.

*Data left out.* Skills, positions, radius, names and notifications: they decide
who is told, not what is stored. The `rejected` set's expiry (7200 s) lies beyond
the life of the request (30 min), so the set only grows. Account deletion
cascades to these tables only at the purge, 15 days later; it is left out.

### JobLock: what the engagements promise

The abstract lock holds a set of pairs of seeker and provider; a step takes a
pair whose two ends are free, or releases one. `Marketplace` implements it under
the mapping `held <- {<<SeekerOf[r], helper[r]>> : job[r] = "active"}`, checked by
TLC (run `rivals`) and proved (`ImplementsLock`). In that reading markRead's
resurrection of a completed job is a legal *Acquire* (it takes a pair that is
free), which is why the lock holds although a completed job can come back; the
run `undone` shows the latter.

### CallSession: the two ends of a call

*State.* `peer` is a record for each of the two pages: its `status`, the refs
`id` (callIdRef), `caller`, `pc` (pcRef) and `mic` (localRef), one flag for each
of the three timers (`ring`, `fail`, `linger`), `waits` for the async bodies that
wait for the browser, and `lost` for connections that `createPeer` overwrote
without closing: their callbacks still change the page. `signals` are the
messages in flight, `unused` the call ids that `crypto.randomUUID` may still
return.

*Steps.* One action for each button, each socket event, each timer and each
report of the browser. `startCall`, `accept` and the `call:accept` handler await
the ICE servers and the microphone; what follows the await is `Resume` (or
`ResumeFails`, the rejection), which by then acts on whatever call is current,
as the code does. When the stream and the servers are at hand the body runs on
at once: its promises are resolved already, and no event comes between. The short
awaits inside WebRTC (createOffer, setLocalDescription and the like) are part of
the step that begins them; a call that ends during one closes the connection, so
the description is not sent, which is here a signal that is lost. A connection's descriptions are applied in the order of their
arrival and its candidates are the browser's: `Connected` may happen when the
other page has a linked connection of the same call (`Matched`), `Broken`
whenever the browser says so.

*The relay.* `CallsGateway.relay` awaits a query for each signal, so `signals` is
a set from which any may arrive next. `Lose` covers a socket that is closed at
either end and an engagement that is no longer active. Equal signals in flight
count as one; Socket.IO delivers at most once.

*Abstractions.* React's `status`, which some handlers read from the last render,
is assumed rendered before the next event. The user has one page. `Vanish` is a
reload or a closed page: its state is gone, nobody is told.

### CallLine: what a page's call promises

A page has one line: free, ringing with a call, or talking on it. A call rings only
on a free line and only if somebody dialled it, a page in a call does not go back from
talking to ringing, and no step touches both lines. A call that a page has left may
ring there again, and the code does that: a seeker who calls, hangs up and calls again
while both microphone prompts are open has two bodies of `startCall` waiting, both send
the invitation of the call in `callIdRef`, and the second may arrive when the other page
has answered that call and left it. `CallSession` implements it page by page
under `LineOf`: the call is `callIdRef`, and the phase follows from it and the status.
The mapping goes by the id, because the status alone keeps no such promise: a
forgotten connection that comes back sets the status of a page without a call to
active. What the promise rests on is that `cleanup` clears the id, so that nothing
that comes late is taken for the page's own, and that `call:invite` looks at the
status first. Checked by TLC (run `talk`) and proved (`ImplementsLine`).

### ProviderProfile: one provider's application

*State.* `row` is the `provider_profiles` row (`NoRow` before it exists), `docs`
its documents, `otp` the number to which the code in Redis was sent; `promoted` says
whether the user's row has the provider role, `mailed` whether the mail is queued;
`reviews` are the stored reviews and `row.count` the rating (count and sum are always
written together, so one number stands for both). `calls` holds each request in
progress: its operation, the statement it is at, the copy of the row it works on.
The others are history: `proved` (numbers whose code was entered), `swapped` (a code
was entered for another number than the row's by then), `dropped` (stored reviews whose
call died before the profile save), `orphaned` and `overwritten` (how a role was
missed or lost), `stale` (a call has saved after another one had written what it
had read). `counted` are the stored reviews that are neither dropped nor in hand.

*Steps.* A handler loads the row (`Open`, `Load`), changes its copy (`Changed`),
and saves it in two steps, as TypeORM does: `Compare` reads the row again and
collects the columns in which the copy differs, `Write` writes them. A column
that the handler never touched is among them if somebody else changed it
meanwhile: so `setLocation` can write an old status back. `submit` then grants the
role: `Promote` loads the user's row, and ends the submit if the user has been deleted;
`CompareUser` and `WriteUser` save it. `SignIn` is any other request that loads that row
to save it (a sign-in, `addRole`); it may take the role away again. `approve` queues the
mail (`Mail`). `confirmDocument` finds, removes
and adds documents one by one; a save whose copy does not list a document tries
to take its owner away and fails. A review is stored first and counted then.
`Fail` ends any request between two of its steps.

*Starting states.* Every row that a sequence of requests can leave (`Sound`).

### Accounts and Sessions: one user

*State.* `Accounts` has the user's row (its roles and `deletedAt`) and the requests
at work on it, with the same load, compare and write as above. `Sessions` extends
it: `store` maps a session id to the second in which its current token was signed
(tokens of one session differ in nothing else, and the stored hash is that of the
token), `jar` is the cookie of each browser, `web` the requests of the browsers.
`revived`, `halfway`, `lossy`, `rivals` and `alarms` are history.

*Steps.* `rotate` is `Get` (read and compare), `FindUser` and `SetSession`: a
revocation between the first and the last is undone by the last. `revokeAll` is
`RevokePage`: SCAN returns every key that is there throughout and perhaps some
others. `deleteAccount` marks the row first (`SoftDelete`) and ends the sessions then.
A tab has one refresh at a time (`MayRefresh`, the shared promise of
`lib/axios.ts`), two tabs of a browser have two. `Abandon` is a page that is left
while the server goes on, `Die` a process that dies with a request, `Expire` the
end of a session in Redis. `Purge` removes the row after the grace period; a sign-in
that loaded it before finds no row when it saves and inserts a new one.

*Data left out.* Hashes, keys and claims; the OAuth exchange; CSRF. The access
token matters in one place: logout everywhere and deletion ask for it and not for
a session, so that they only need some session to have existed (`used # {}`).

### Chat: an open conversation

*State.* `stored` counts what the server holds, `copies` what the page's list shows,
`bubble` is the optimistic entry of an own text, `post` and `late` its requests (the
latter those that the page has given up but the server may still serve), `fetch` the
request for the thread with the snapshot that its answer carries, `wire` the
pushes to a socket that has joined its room, `link` and `token` the socket.

`listMessages` answers with the *oldest* 200 messages (`PageLimit`): `early` counts those
of `stored` that it answers with, and `room` how many more fit. A run begins with any
room, so with threads that are full already. Messages have their times in the order in
which they are stored.

*Steps.* A fetch's answer replaces the list, a push appends to it, a confirmation
replaces the bubble if it is still there. `Connect` refetches the thread before the
server has verified the token and joined the room (`Verify`); with an expired token
the server disconnects, and a client so disconnected does not try again
(`refused`): that is why liveness is claimed for what was stored while the page was
down and not for what comes later. `SendFails` covers a request that never arrived, one
still under way and one whose answer is lost.

### HomePage: requests and the active job on a page

*State.* The server's rows (`status`, `past`, `offers`, `rejected`, `job`), the page's
two caches (`list`, `bar`) with their fetches, the expiry timer (`armed`), the socket
and the answer awaited (`replies`). `me` says whether it is the seeker's page or the
provider's. `missed`, `raced` and `unlucky` are history: an event fell between the
page's "connect" and the join, the bar was written while a fetch of it was under
way or out of date, a fetch failed or the timer fired early. The provider is approved,
available, near enough and has the skill, and at most 100 requests are in reach:
`Incoming` leaves these filters of `incoming` out.

*Steps.* Every handler is one action with the events it emits (`Hears`, `JobEvent`).
`Cancel` answers in the same way for a request that is closed already, and `Withdraw` and
`Reject` do not ask whether there is an offer or whether the request is open; the
withdrawals that find no offer count towards `MaxFailures`.
React Query is modelled by what the code relies on: `invalidateQueries` makes the
answer of an earlier fetch void, `setQueryData` does not. `Poll` is the provider's
`refetchInterval`, `TimerFires` the seeker's timeout, which fetches once.
The page is visible (react-query polls only then) and its first fetches have been
answered: what the library does with a "connect" during a query's first fetch is not
this code's.

### Pagination: cursors

*State.* `stored` is the table, `page` and `earlier` what the reader has seen since
`Start`, `cursor` the next page's, `cuts` the rows that cursors were made from.

*Steps.* `ReadPage` is the query with its order, its WHERE clause for the cursor and
its limit (`Clamp`: 1 to 50), plus the cursor made from its last row. `AsDate` is what
the conversion to a JavaScript Date does: it keeps whole milliseconds (`Grain`
ticks). `Appear` and `Vanish` change the table between two pages.

## 4. The runs

| Run | Instance | Shows |
|---|---|---|
| `repeat` | 1 seeker, 2 requests, 2 providers, 2 handlers, no failures | types; one open broadcast; one job per seeker; an accepted request that is still open is about to be marked |
| `rivals` | 2 seekers with a request each, 1 provider, 2 failing handlers | one job per provider; fulfilled requests have a job; an offer left on a closed request is never accepted; the lock is implemented |
| `fair` | 1 request, 2 providers, 2 handlers and a sweep that all may fail, fairness | nothing expires early; a job keeps its provider; every broadcast ends |
| `undone` | as `repeat`, smaller | violated: a completed engagement can become active again |
| `talk` | 2 call ids, either side may start either call | types; whoever rings has the timer; whoever talks has a path or the countdown; a connection belongs to the page's call; each page implements a line |
| `ring` | the seeker calls twice, fairness | calling and incoming always end |
| `unasked` | the seeker calls twice | violated: a ringing page can become active though its user did not accept |
| `profile` | 4 requests, 2 at a time, 2 numbers, documents and jobs | types; the rating is never inflated; a locked application has its role, was left without it by a submit that died or found no user, or lost it to another save of the user's row; while no save is stale the row is sound and its status follows the life cycle |
| `access` | 3 requests at a time, 2 tabs of a browser, 2 sessions, 2 seconds | types; reuse is suspected only after a lost answer or with two tabs; deletion ends the sessions but those that an overlapping request writes; admin is kept; roles are right while no save is stale |
| `pages` | 6 rows on 4 ticks, 2 ticks to the millisecond, pages of 1 to 3 | types; newest first and nothing twice; what is missing lies in the cut |
| `realtime` | 1 text each way, answers of 2 messages with room for 0 to 2, 2 broken sockets, 2 failed requests, fairness | types; an own text is shown once; sending ends; what was missed and fits the answer is fetched |
| `views` | 1 request, either page, 1 broken socket, 1 lost call, fairness | types; a connected bar that asks nobody is right, and what the seeker sees has a timer or a fetch; the provider's list, the seeker's request and the bar come to what the server has |

*The two violations.* `undone` and `unasked` are disagreements between the code and
what its texts say; PROJECT.json quotes both sides.

*Bounds.* Two handlers are what a race needs, and every property speaks of two
rows or of one row and one handler. Two requests of one seeker are needed for the
supersede loop, two seekers with one provider for rival accepts, two providers
for a second accept of one request and for a seeker who could be in two jobs (with
one provider that provider's own index would forbid it). The sweep is in the run
`fair`; in the others `cancel` closes requests by the same statements.

For calls, two ids are what a stale callback or signal needs: the call it was
made for and the call it meets. `Dials` names who may use which id; `talk` lets
either side use either, so both may call at once.

In `access`, `MaxCalls` is 3: a request that is stale, the one that overtakes it, and
one that meets the result; all three may overlap, because two tabs and a revocation do.
In `profile` it is 4, two at a time: a number takes two requests to be changed after its
code was sent, and a third to enter the code. Two numbers show a code for the one and a
row with the other; a clock of two seconds shows two tokens of a session that are
equal and two that are not. In `pages` rows share a tick, differ within a
millisecond and across two; the page sizes asked for lie below, within and above the
limits. In `realtime` one text suffices since texts do not affect one another, and
two failures are what a retry of a failed retry needs. `views` has one request: a
second would only replace it in the list.

Bounded ids, requests and failures are used up in the end: that is the models'
bound and not a deadlock of the system, hence `CHECK_DEADLOCK FALSE` in every cfg
but that of `pages`, whose reader can always begin again. `SYMMETRY` permutes
handlers, providers, call ids, tabs and the like, which are interchangeable; it
is not used where a liveness property is checked.

*Fairness* (`Fairness` of `Marketplace`, run `fair`). The clock passes every deadline (weak
fairness of `PassDeadline`), the interval timer starts a sweep when something has
expired (weak fairness of `SweepFind`), and a sweep's statements run. The save is
strongly fair: each sweep may fail before it, as long as the database is not down
for ever; the next timer tick retries because the row is still open. Users and
HTTP handlers are not assumed to do anything.

*Fairness* (`Fairness` of `CallSession`, run `ring`). The ring and
fail timers fire, the browser answers a request for the microphone one way or
the other (without this a caller who ignores the prompt stays calling: the code
arms no timer before it), and a path under check ends up connected or broken.
Users press nothing and signals may all be lost.

*Fairness* (`Fairness` of `Chat` and of `HomePage`, runs `realtime` and `views`). The
socket client keeps reconnecting and the server verifies whom it meets; requests
that are not lost are served and their answers arrive; in `HomePage` the poll and
the timer run, deadlines pass and the server sweeps. On the provider's page the deadline
of an open request need not pass (in a run without it, the feed has to settle on the open
request and its offer), and `FeedSettles` excuses runs in which users change the
server's rows for ever (`Restless`). Users do nothing, and pushes (`Emit`, `Receive`)
need not arrive: nothing that is claimed depends on them.

*Sizes.* The largest runs reach 2.9 million distinct states (`repeat`), 1.1 million
(`profile`) and 0.9 million (`rivals`); `views` 309 thousand, `fair` 279 thousand and
`realtime` 232 thousand.

## 5. What is proved

Each proof module shows an inductive invariant (its initial states, and one lemma
for each action) and draws the theorems from it.

`MarketplaceProofs` proves for any sets of users, requests, handlers and sweeps
that satisfy `MarketplaceAssumption` (every request has one seeker, `None` is
nobody, handlers and sweeps are disjoint) that `Spec` implies `[]IInv`, and from
it the invariants of the runs: `TypeCorrect`, `OneOpenBroadcast`, `OneJobEach`,
`ProviderHasOneJob`, `FulfilledMeansEngaged`, `ExpiredMeansLate`,
`EngagedRequestCloses`.

The invariants are not inductive alone. `IInv` adds what handlers in flight carry
with them (`CallsOK`): a handler past `AcceptInsert` stands on a request that has
a job; a sweep's remaining list holds only requests past their deadline; a
handler that completes or marks read stands on an existing engagement. And it adds
`JobOK`: a job has a provider exactly when it exists. The step lemma has one case
per action. The helper lemmas state once what an action that writes the job
table may do.

`MarketplaceLockProofs` proves `ImplementsLock` (initial states map to initial
states, every step to a lock step or a stutter), `HelperNeverChanges`, and from the
refinement `PairsAreExclusive`: the active pairs are a matching. Two more say what
stays as it is:

* `ClosedForGood` (`LeftoversAreInert`). A respond that has checked its request
  before a cancel or a sweep inserts its offer after it, and a crash between the
  two writes of `markRemoved` leaves offers behind. Such an offer makes no job: a
  request that is cancelled or expired, has no job, and that no accept is working on
  (`Abandoned`) stays so. `GoesOn` says why, for every statement of a handler: it is
  accepting only if it was before or has just found the request open. An accept that
  had checked the request before it was closed may still give it a job; that is
  the case the definition leaves out, and the code allows it.
* `DoneUnlessReadMark` is how far the sentence that `undone` refutes does hold: a
  finished job comes back to life only by a read mark that loaded it while it was
  active. When no such read mark is under way, none will be, and the job is finished
  for good.

`CallSessionProofs` proves for any set of call ids and any `Dials` (ids are not
`None`, the two participants differ) that every reachable state satisfies
`IInv`, and from it `Types`, `Ringing`, `Talking`, `PathOwnership` and
`ImplementsLine`. The
invariant is one predicate of a page, `Good`: the three properties, and `Clean`,
without which `PathIsOfCall` is not inductive: between calls the page has no call
id, so an old connection cannot meet a new one when the next call takes the page,
and the timer of the end screen is never armed during a call. The lemmas say that
each helper of the code (`Finished`, `WithPeer`, `Resumed`, a page that begins to
wait, a connection that moves) keeps `Good`; then there is one lemma for each action.
For the refinement, `Dialled` adds that every id on a page or on its way was dialled,
and each step but two `GoesOn`: the page keeps its call and status, goes on to
connecting or active, or has no call any more.

`ProviderProfileProofs` proves for any handlers, numbers, documents, jobs and any
bound on the requests (`ProfileAssumption`): `ProfileTypeCorrect`, `RatingIsBounded`,
`LockedHasRole`, `RowIsSound` and `StatusLifecycle`. For the first three, a stale copy
can overwrite the row at any time, so the invariant says of every copy, between load and
write, what the theorems say of the row (`Good`): a review's copy counts one review more
than are counted at most; any other copy none more; a copy of a locked application was
made when the role was granted, about to be, or missed or lost in one of the ways that
`LockedHasRole` names. `Apart` adds that no two requests are about to count the
same review, which rests on the unique index that `Store` meets. The last two hold
until a stale copy is saved. `AptInv` says for that time that a copy nobody has
overtaken is what its handler makes of the row *as it is now* (`Apt`), and that the
columns it will write are those that differ; `ChangedIsSound` then shows that the
guards of the handlers (`Allowed`) are enough for the row and its status. It also has
to remember across the step from `verify`'s load to its save that there is a number
(`Numbered`) and that a code for it, or before a change of it, was entered.

`SessionsProofs` proves for any handlers, browsers, tabs and session ids
(`AccountsAssumption`, `SessionsAssumption`: the bounds are natural numbers, and the
value that stands for "no tab" is not a tab): `SessionTypeCorrect`,
`DeletionEndsSessions`, `AdminIsKept`, `RolesAreKept` and `AlarmsNeedLoss`. For the first two
the invariant `SInv` says that every token in a cookie or a request is one
that was given out, and that each session of a deleted user is either written
after the deletion (`revived`, which the theorem excuses) or still on the list of the
deletion in progress (`WillEnd`); a deletion whose process died leaves its sessions, and
is excused by name (`halfway`). For
the third, `Settled`: the row and all copies that may be written agree on the admin
role, which no handler touches. For `RolesAreKept`, `RolesInv`: until a save overtakes
another, a copy that is fresh is what its handler makes of the present row.

`AlarmsNeedLoss` is the property of the browser's side: a browser that has heard
every answer and refreshes from one tab at a time is never taken for a thief. Its
invariant `FInv` follows the tokens. A session is one browser's, whether its token is
in the jar or in a request (`Owned`), and one just begun is nobody else's at all
(`Unshared`); a quiet browser has one refresh on its way at most (`OneRefresh`), what
that holds is what the store has (`HeldFresh`), and so is what the jar holds unless
the answer with the new token is still to come (`JarsFresh`). Without the last
exception the invariant fails between the rotation and its answer; with it, a
second refresh must be excluded meanwhile, which is what sharing one refresh in
`axios.ts` is for.

`ChatProofs` proves for any texts and any number of broken sockets and failed requests
(`ChatAssumption`): `ChatTypeCorrect`, `OwnTextIsOnce`, and what the two liveness
properties rest on, `DropNeverLoses` and `SendingHasItsRequest`. The list is replaced by
what the server has, so that a text can be shown twice only if it is stored twice:
`OwnText` bounds what is stored *and what requests given up may still store* by the
attempts that failed, and says that a text with a bubble is not in the list. `Backed`
says that neither the list nor an answer on its way shows what is not stored: without
it a text could have a bubble and be in the list already. `TheirText` bounds the
pushes: a message may be shown twice, by a push after an answer that had it.
`Coming` says of a message that was stored when the socket was down, among the oldest
`PageLimit`, that wherever the next list comes from has it: the server if the socket is still down or the fetch not
answered, else the answer, else the list. It is kept by every step because
reconnecting voids an older fetch; the page can miss the message only if it is
offline, fetching, or a fetch has failed. `DropIsHealed` adds that fetching ends.

`HomePageProofs` proves for any set of requests (`HomePageAssumption`): `HomeTypeCorrect`,
and the two facts that `BarSettles` and `ClosedLeavesPage` rest on, `BarShowsTheJob` and
`ListIsTimed` (no failed fetch and no early timer provided). `BarKnown` says what an answered fetch is worth: outside the three gaps
it is the active job even while it is on its way. `Timed` says of a seeker's list
without a timer that it shows a request past its deadline which the fetch under way
will take away, so that an answer equal to the list, which arms no timer, cannot come.

`PaginationProofs` proves for any table, grain, page sizes and limits
(`PaginationAssumption`): `TypeCorrect`, `PagesInOrder`, `OnlyTheCutLoses` and
`ExactIsComplete` (with `Grain = 1`, as for completed jobs, nothing is lost). The
invariant ties the cursor to the last row of the page it came from (`CursorOfPage`)
and says that a row not shown yet is still ahead of it or lost in a cut
(`NothingElseMissing`).

Left to TLC: the liveness properties (`OpenRequestCloses`, `RingingEnds`,
`SendingEnds`, `DropIsHealed`, `FeedSettles`, `ClosedLeavesPage`, `BarSettles`), which
rest on fairness and which the prover cannot reason about for want of `ENABLED`,
and the two violations. Every invariant and every safety property of a step that a passing run
checks is a theorem.

## 6. Not modelled

* The live location relay (`engagements.gateway.ts`): a ping overwrites the last one
  and no state outlives the page. Membership of the room outlives the job (a
  hazard without a property).
* The unread flag, uploads of images and documents, the review prompt: they
  read or show what the modelled handlers store.
* In the calls, muting and the forwarding of ICE candidates (a path comes and goes
  as it likes), and the relay's check of the sender (both pages are participants).
* The deletion of a user who has a job: the count that `deleteAccount` makes first
  and a job that starts after it would need `Marketplace` and `Accounts` in one model.
* Discovery, skills, mail, storage, TURN credentials, health, metrics and configuration,
  migrations and seed data: queries, external I/O, pure functions or start-up checks,
  with no state that their own steps could corrupt.
* The `online` map of `events.gateway.ts`: nothing reads it.
* Pages, maps and the UI kit, most of the repository's lines: rendering, whose
  state lives in the hooks and caches that `Chat`, `HomePage`, `CallSession` and
  `Sessions` model. This is why the map covers a modest share of the lines.

Liveness is claimed where the code has a timer, a poll or a retry: nothing in
it makes a seeker complete a job, ends a call that is connecting, or brings a
socket back whose token the server has refused.
