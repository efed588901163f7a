------------------------------ MODULE Sessions ------------------------------
(***************************************************************************)
(* The sessions of one user (AuthService, AuthController), and the         *)
(* browsers that keep them alive (lib/axios.ts): sign-in, rotation of the  *)
(* refresh token, logout here and everywhere, deletion of the account.     *)
(*                                                                         *)
(* The module composes with Accounts: a sign-in and a deletion first work  *)
(* on the user's row and then on the sessions.                             *)
(*                                                                         *)
(* A refresh token is told from an earlier one of its session only by the  *)
(* second in which it was signed.                                          *)
(***************************************************************************)
EXTENDS Accounts

CONSTANTS
    Browsers,   \* each with one cookie jar
    Tabs,       \* the tabs of a browser
    NoTab,      \* the page that asked is gone, or never hears the answer
    Sids,       \* session ids
    MaxTime     \* bound: seconds in a run

ASSUME SessionsAssumption == MaxTime \in Nat /\ NoTab \notin Tabs

VARIABLES
    store,      \* session id -> the second its token was signed in, or None
    used,       \* session ids that were given out
    clock,      \* the server's clock, in seconds
    jar,        \* browser -> its refresh cookie, or NoToken
    web,        \* the requests of the browsers, next to `calls'
    revived,    \* live sessions written when their user was deleted
    halfway,    \* a deletion has died before it ended the sessions
    lossy,      \* browsers that never heard the answer to a refresh
    rivals,     \* browsers two tabs of which refreshed at a time
    alarms      \* browsers whose refresh was taken for reuse

sessions == <<store, used, clock, revived, halfway>>
browsers == <<jar, lossy, rivals, alarms>>
vars == <<account, begun, sessions, browsers, web>>

None == -1
Token == [sid : Sids, t : 0 .. MaxTime]
NoToken == [sid |-> "none", t |-> None]

Request ==
    [kind : {"login", "refresh", "logout", "all", "delete"},
     at : {"user", "store", "get", "find", "kill", "set", "del", "scan",
           "refused", "signed in", "signed out"},
     from : Browsers, tab : Tabs \union {NoTab},
     token : Token \union {NoToken}, todo : SUBSET Sids]
NoRequest == [at |-> "idle"]

TypeOK ==
    /\ AccountTypeOK
    /\ store \in [Sids -> 0 .. MaxTime \union {None}]
    /\ {s \in Sids : store[s] # None} \subseteq used /\ used \subseteq Sids
    /\ revived \subseteq used
    /\ clock \in 0 .. MaxTime
    /\ jar \in [Browsers -> Token \union {NoToken}]
    /\ web \in [Handlers -> Request \union {NoRequest}]
    /\ halfway \in BOOLEAN
    /\ {lossy, rivals, alarms} \subseteq SUBSET Browsers

Init ==
    /\ AccountInit
    /\ store = [s \in Sids |-> None] /\ used = {} /\ revived = {}
    /\ clock = 0 /\ halfway = FALSE
    /\ jar = [b \in Browsers |-> NoToken]
    /\ web = [h \in Handlers |-> NoRequest]
    /\ lossy = {} /\ rivals = {} /\ alarms = {}

-----------------------------------------------------------------------------
(* Requests.                                                               *)

In(h, p) == web[h].at = p
Put(h, r) == web' = [web EXCEPT ![h] = r]
To(h, p) == Put(h, [web[h] EXCEPT !.at = p])

Asked(kind, p, b, tab) ==
    [kind |-> kind, at |-> p, from |-> b, tab |-> tab, token |-> jar[b],
     todo |-> {}]

\* A request that leaves the user's row alone takes a free handler.
Ask(h, r) ==
    /\ Begin(h) /\ In(h, "idle") /\ Put(h, r)
    /\ UNCHANGED <<account, sessions>>

InFlight(b, tab) ==
    {h \in Handlers : ~ In(h, "idle") /\ web[h].kind = "refresh"
                        /\ web[h].from = b /\ web[h].tab = tab}

Undeduped(b, tab) == TRUE       \* mutant: every 401 starts a refresh
\* refreshPromise: a tab has one refresh at a time.  The page that Google sends
\* the browser to (auth/callback) refreshes without it, but as the only request
\* of a page that has just been loaded.
MayRefresh(b, tab) == InFlight(b, tab) = {}

StartRefresh(h, b, tab) ==
    /\ jar[b] # NoToken
    /\ MayRefresh(b, tab)
    /\ Ask(h, Asked("refresh", "get", b, tab))
    /\ rivals' = IF \E other \in Tabs \ {tab} : InFlight(b, other) # {}
                 THEN rivals \union {b} ELSE rivals
    /\ UNCHANGED <<jar, lossy, alarms>>

StartLogin(h, b, tab) ==
    /\ Login(h) /\ In(h, "idle")
    /\ Put(h, Asked("login", "user", b, tab))
    /\ UNCHANGED <<sessions, browsers>>

StartLogout(h, b, tab) ==
    /\ jar[b] # NoToken
    /\ Ask(h, Asked("logout", "del", b, tab))
    /\ UNCHANGED browsers

\* The access token that these two need outlives the session by minutes.
StartLogoutAll(h, b, tab) ==
    /\ used # {}
    /\ Ask(h, [Asked("all", "scan", b, tab) EXCEPT
                  !.todo = {s \in Sids : store[s] # None}])
    /\ UNCHANGED browsers

StartDelete(h, b, tab) ==
    /\ used # {}
    /\ Delete(h) /\ In(h, "idle")
    /\ Put(h, Asked("delete", "user", b, tab))
    /\ UNCHANGED <<sessions, browsers>>

Unheard(h) == IF web[h].kind = "refresh" THEN {web[h].from} ELSE {}

\* The page is left or the connection breaks: the server goes on, the answer
\* reaches nobody.
Abandon(h) ==
    /\ ~ In(h, "idle") /\ web[h].tab # NoTab
    /\ Put(h, [web[h] EXCEPT !.tab = NoTab])
    /\ lossy' = lossy \union Unheard(h)
    /\ UNCHANGED <<account, begun, sessions, jar, rivals, alarms>>

-----------------------------------------------------------------------------
(* The server's part.                                                      *)

Live == {s \in Sids : store[s] # None}

PersistExpiry(s) ==             \* mutant: not when it was signed, but its end
    /\ store' = [store EXCEPT ![s] = clock + 1]
    /\ revived' = IF Exists THEN revived \ {s} ELSE revived \union {s}
\* persistSession
Persist(s) ==
    /\ store' = [store EXCEPT ![s] = clock]
    /\ revived' = IF Exists THEN revived \ {s} ELSE revived \union {s}

Drop(S) ==
    /\ store' = [s \in Sids |-> IF s \in S THEN None ELSE store[s]]
    /\ revived' = revived \ S

Signed(h, s) ==
    Put(h, [web[h] EXCEPT !.at = "signed in",
                          !.token = [sid |-> s, t |-> clock]])

\* The account part of a sign-in or a deletion is done.
Issue(h) ==
    /\ In(h, "user") /\ web[h].kind = "login"
    /\ Answer(h)
    /\ To(h, "store")
    /\ UNCHANGED <<sessions, browsers>>

\* issueSession
IssueSession(h, s) ==
    /\ In(h, "store") /\ s \notin used
    /\ used' = used \union {s}
    /\ Persist(s) /\ Signed(h, s)
    /\ UNCHANGED <<account, begun, clock, halfway, browsers>>

EndSessions(h) ==
    /\ In(h, "user") /\ web[h].kind = "delete"
    /\ Answer(h)
    /\ Put(h, [web[h] EXCEPT !.at = "scan", !.todo = Live])
    /\ UNCHANGED <<sessions, browsers>>

\* An insert that failed answers with an error.
Refuse(h) ==
    /\ In(h, "user") /\ At(h, "idle")
    /\ To(h, "refused")
    /\ UNCHANGED <<account, begun, sessions, browsers>>

\* rotate reads the session and compares the token with the stored one, ...
Get(h) ==
    LET r == web[h] IN
    /\ In(h, "get")
    /\ \/ store[r.token.sid] = None /\ To(h, "refused") /\ UNCHANGED alarms
       \/ store[r.token.sid] = r.token.t /\ To(h, "find") /\ UNCHANGED alarms
       \/ /\ store[r.token.sid] \notin {None, r.token.t}
          /\ To(h, "kill")
          /\ alarms' = alarms \union {r.from}
    /\ UNCHANGED <<account, begun, sessions, jar, lossy, rivals>>

\* ... looks for the user, ...
FindUser(h) ==
    /\ In(h, "find")
    /\ IF Exists THEN To(h, "set") ELSE To(h, "kill")
    /\ UNCHANGED <<account, begun, sessions, browsers>>

\* ... and writes the session, whatever has become of it meanwhile.
SetSession(h) ==
    LET s == web[h].token.sid IN
    /\ In(h, "set")
    /\ Persist(s) /\ Signed(h, s)
    /\ UNCHANGED <<account, begun, used, clock, halfway, browsers>>

Kill(h) ==
    /\ In(h, "kill")
    /\ Drop({web[h].token.sid}) /\ To(h, "refused")
    /\ UNCHANGED <<account, begun, used, clock, halfway, browsers>>

\* revokeFromToken
RevokeFromToken(h) ==
    /\ In(h, "del")
    /\ Drop({web[h].token.sid}) /\ To(h, "signed out")
    /\ UNCHANGED <<account, begun, used, clock, halfway, browsers>>

RevokeOnePage(h) ==             \* mutant: the cursor is not followed
    /\ In(h, "scan") /\ web[h].todo # {}
    /\ \E s \in web[h].todo : Drop({s})
    /\ To(h, "signed out")
    /\ UNCHANGED <<account, begun, used, clock, halfway, browsers>>

\* revokeAll, page by page.  SCAN returns every key that is there from its
\* first page to its last, and perhaps some that came later.
RevokePage(h) ==
    /\ In(h, "scan") /\ web[h].todo # {}
    /\ \E S \in SUBSET Live :
         /\ S \intersect web[h].todo # {} \/ Live \intersect web[h].todo = {}
         /\ Drop(S)
         /\ Put(h, [web[h] EXCEPT !.todo = (@ \intersect Live) \ S])
    /\ UNCHANGED <<account, begun, used, clock, halfway, browsers>>

Revoked(h) ==
    /\ In(h, "scan") /\ web[h].todo = {}
    /\ To(h, "signed out")
    /\ UNCHANGED <<account, begun, sessions, browsers>>

\* A process dies with the request.
Die(h) ==
    /\ ~ In(h, "idle")
    /\ Return(h) /\ Put(h, NoRequest)
    /\ halfway' = (halfway \/ (web[h].kind = "delete" /\ ~ At(h, "delete")
                                 /\ web[h].at \in {"user", "scan"}))
    /\ lossy' = lossy \union Unheard(h)
    /\ UNCHANGED <<user, overtaken, begun, store, used, clock, revived, jar,
                   rivals, alarms>>

-----------------------------------------------------------------------------
(* The answers reach the browser.                                          *)

Arrive(h) ==
    LET r == web[h] IN
    /\ r.at \in {"refused", "signed in", "signed out"}
    /\ Put(h, NoRequest)
    /\ jar' = IF r.tab = NoTab \/ r.at = "refused" THEN jar
              ELSE [jar EXCEPT ![r.from] =
                       IF r.at = "signed in" THEN r.token ELSE NoToken]
    /\ UNCHANGED <<account, begun, sessions, lossy, rivals, alarms>>

Tick ==
    /\ clock < MaxTime /\ clock' = clock + 1
    /\ UNCHANGED <<account, begun, store, used, revived, halfway, browsers,
                   web>>

\* A session that is not refreshed for REFRESH_TOKEN_TTL.
Expire(s) ==
    /\ store[s] # None /\ Drop({s})
    /\ UNCHANGED <<account, begun, used, clock, halfway, browsers, web>>

\* The requests on the user's row alone, and the steps of the others on it.
AccountStep(h) ==
    /\ \/ In(h, "idle") /\ (AssignSeeker(h) \/ Promote(h) \/ Answer(h))
       \/ AddRole(h) \/ SoftDelete(h) \/ Compare(h) \/ Write(h) \/ Insert(h)
    /\ UNCHANGED <<sessions, browsers, web>>

Next ==
    \/ \E h \in Handlers :
         \/ \E b \in Browsers, tab \in Tabs :
              \/ StartRefresh(h, b, tab) \/ StartLogin(h, b, tab)
              \/ StartLogout(h, b, tab) \/ StartLogoutAll(h, b, tab)
              \/ StartDelete(h, b, tab)
         \/ AccountStep(h)
         \/ Abandon(h) \/ Arrive(h) \/ Die(h)
         \/ Issue(h) \/ \E s \in Sids : IssueSession(h, s)
         \/ EndSessions(h) \/ Refuse(h)
         \/ Get(h) \/ FindUser(h) \/ SetSession(h) \/ Kill(h)
         \/ RevokeFromToken(h) \/ RevokePage(h) \/ Revoked(h)
    \/ Purge /\ UNCHANGED <<sessions, browsers, web>>
    \/ Tick
    \/ \E s \in Sids : Expire(s)

Spec == Init /\ [][Next]_vars

-----------------------------------------------------------------------------
(* A refresh is taken for reuse ("reuse/theft", rotate) only if a browser  *)
(* has not heard the answer to an earlier one, or two of its tabs refresh  *)
(* at a time; a single page that hears its answers is never signed out so. *)
FalseAlarmNeedsLoss == alarms \subseteq lossy \union rivals

(* "Soft-deletes the user and signs them out everywhere" (deleteAccount):  *)
(* once the request is over, a deleted user has no session but those that  *)
(* a rotation or a sign-in wrote after the deletion, unless the process of *)
(* the deletion died before it ended the sessions.                         *)
Deleting(h) == ~ In(h, "idle") /\ web[h].kind = "delete"
                 /\ web[h].at \in {"user", "scan"}
DeletedLeavesNoSession ==
    ~ Exists /\ ~ halfway /\ (\A h \in Handlers : ~ Deleting(h)) =>
        Live \subseteq revived
=============================================================================
