----------------------------- MODULE AuthSession -----------------------------
(***************************************************************************)
(* The login session of one browser (services/auth_service.py, the limiter *)
(* of core/rate_limit.py, frontend/src/auth/AuthProvider.tsx).             *)
(*                                                                         *)
(* The tabs of a browser share a cookie with a refresh token and, in       *)
(* localStorage, an access token.  A refresh replaces the refresh token by *)
(* a new one: the row is read, checked, and revoked in a later             *)
(* transaction, without a lock.  Requests of several tabs overlap, answers *)
(* arrive in any order or never, commits and the read after them may       *)
(* raise, tokens expire and an operator may disable a user.                *)
(***************************************************************************)
EXTENDS Integers, Sequences, FiniteSets

CONSTANTS
    Tabs,  \* the tabs of the browser
    Users, \* the accounts the person in front of it may use
    Setups \* the settings and bounds explored

SetupType ==
    [strict : BOOLEAN, known : SUBSET Users, limit : Nat, window : Nat, grain : Nat \ {0},
     asks : Nat, losses : Nat, faults : Nat, expiries : Nat, ticks : Nat]

ASSUME AuthSessionAssumption ==
    /\ Setups \subseteq SetupType
    /\ Users # {} /\ "nobody" \notin Users

VARIABLES
    setup,    \* settings of the deployment and bounds of the exploration
    users,    \* the table users: the status of each account, "none" without a row
    tokens,   \* the table refresh_tokens, in commit order
    races,    \* per first token of a chain: commits that found their token revoked (ghost)
    ended,    \* per first token of a chain: logouts that revoked a token of it (ghost)
    requests, \* the requests under way, from the fetch to the answer
    cookie,   \* the refresh token of the browser, 0 for none
    access,   \* the access token in localStorage
    tab,      \* what AuthProvider shows in each tab
    missed,   \* the tokens that were replaced or revoked without the browser being told (ghost)
    clock,    \* time, in ticks, setup.grain of them to a second
    bucket,   \* the time stamps the limiter holds for POST /auth/login
    admitted, \* every time stamp it ever took (ghost)
    asks, losses, faults, expiries \* what has happened so far, against the bounds

table == <<tokens, races, ended>>
page == <<cookie, access, tab>>
browser == <<page, missed>>
limiter == <<bucket, admitted>>
bounds == <<losses, faults, expiries>>
vars == <<setup, users, table, requests, browser, clock, limiter, asks, bounds>>

None == 0
NoAccess == [user |-> "nobody", fresh |-> FALSE]
Closed == [status |-> "closed", user |-> "nobody"]

Init ==
    /\ setup \in Setups
    /\ users = [u \in Users |-> IF u \in setup.known THEN "active" ELSE "none"]
    /\ tokens = <<>> /\ races = <<>> /\ ended = <<>>
    /\ requests = {}
    /\ cookie = None /\ access = NoAccess /\ tab = [t \in Tabs |-> Closed] /\ missed = {}
    /\ clock = 0 /\ bucket = <<>> /\ admitted = <<>>
    /\ asks = 0 /\ losses = 0 /\ faults = 0 /\ expiries = 0

-----------------------------------------------------------------------------
(* Requests.                                                               *)
(* applies: the page still waits for the answer; heard: so does the browser. *)

Request(kind, t, user, applies) ==
    [id |-> asks, kind |-> kind, tab |-> t, user |-> user, cookie |-> cookie, applies |-> applies,
     heard |-> TRUE, stage |-> "sent", ok |-> FALSE, token |-> None]

Busy(t) == \E r \in requests : r.tab = t /\ r.applies

Send(kind, t, user) ==
    /\ asks < setup.asks
    /\ asks' = asks + 1
    /\ requests' = requests \cup {Request(kind, t, user, TRUE)}

Advance(r, s) == requests' = (requests \ {r}) \cup {s}
Checked(r) == [r EXCEPT !.stage = "checked"]
Accepted(r, user, token) == [r EXCEPT !.stage = "answered", !.ok = TRUE, !.user = user, !.token = token]
Refused(r) == [r EXCEPT !.stage = "answered"]

-----------------------------------------------------------------------------
(* The limiter; one process, one client. *)

(* The stamps in front that are as old as the window or older leave.         *)
StampsSince(stamps, cutoff) ==
    LET first == CHOOSE i \in 1..(Len(stamps) + 1) :
                    /\ \A j \in 1..(i - 1) : stamps[j] <= cutoff
                    /\ i <= Len(stamps) => stamps[i] > cutoff
    IN  SubSeq(stamps, first, Len(stamps))

(* Mutant: a stamp leaves one tick too early. *)
StampsInEarly(stamps, now) == StampsSince(stamps, now + 1 - setup.grain * setup.window)

StampsIn(stamps, now) == StampsSince(stamps, now - setup.grain * setup.window)

Limited == setup.limit > 0 /\ setup.window > 0

(* retryAfter is in whole seconds, rounded down but for the first.           *)
Hit(stamps, now) ==
    LET kept == StampsIn(stamps, now)
        rest == setup.grain * setup.window - (now - kept[1])
        seconds == rest \div setup.grain
    IN  IF Len(kept) >= setup.limit
        THEN [allowed |-> FALSE, stamps |-> kept, retryAfter |-> IF seconds < 1 THEN 1 ELSE seconds]
        ELSE [allowed |-> TRUE, stamps |-> Append(kept, now), retryAfter |-> 0]

-----------------------------------------------------------------------------
(* The service. *)

Row(user, root) ==
    [user |-> user, root |-> root, revoked |-> FALSE, expired |-> FALSE, replacedBy |-> None]

Revoke(rows, k, replacement) ==
    [rows EXCEPT ![k].revoked = TRUE, ![k].replacedBy = IF replacement = None THEN @ ELSE replacement]

Usable(k) == k # None /\ ~tokens[k].revoked /\ ~tokens[k].expired
Active(user) == users[user] = "active"

(* The answer after a commit.  The user's row is read back first, outside    *)
(* the try: when that raises, the page gets an error and the browser no new  *)
(* cookie, whatever was committed; it is not told of the tokens in revoked.  *)
Answer(r, s, revoked) ==
    \/ Advance(r, s) /\ UNCHANGED <<missed, faults>>
    \/ /\ faults < setup.faults
       /\ faults' = faults + 1
       /\ Advance(r, Refused(r))
       /\ missed' = missed \cup revoked

(* A new chain of tokens, beginning with a login or a registration. *)
StartChain(r, user) ==
    LET n == Len(tokens) + 1
    IN  /\ tokens' = Append(tokens, Row(user, n))
        /\ races' = Append(races, 0) /\ ended' = Append(ended, 0)
        /\ Answer(r, Accepted(r, user, n), {})

CheckRegister(r) ==
    /\ r.kind = "register" /\ r.stage = "sent"
    /\ Advance(r, IF users[r.user] = "none" THEN Checked(r) ELSE Refused(r))
    /\ UNCHANGED <<setup, users, table, browser, clock, limiter, asks, bounds>>

(* The unique constraint on users.email refuses the second of two.           *)
Register(r) ==
    /\ r.kind = "register" /\ r.stage = "checked"
    /\ IF users[r.user] = "none"
       THEN users' = [users EXCEPT ![r.user] = "active"] /\ StartChain(r, r.user)
       ELSE Advance(r, Refused(r)) /\ UNCHANGED <<users, table, missed, faults>>
    /\ UNCHANGED <<setup, page, clock, limiter, asks, losses, expiries>>

(* The limiter stands before the handler: a wrong password counts as well.   *)
CheckLogin(r) ==
    /\ r.kind = "login" /\ r.stage = "sent"
    /\ LET hit == Hit(bucket, clock)
       IN  /\ bucket' = IF Limited THEN hit.stamps ELSE bucket
           /\ admitted' = IF Limited /\ hit.allowed THEN Append(admitted, clock) ELSE admitted
           /\ \E passwordMatches \in BOOLEAN :
                Advance(r, IF (Limited => hit.allowed) /\ Active(r.user) /\ passwordMatches
                           THEN Checked(r) ELSE Refused(r))
    /\ UNCHANGED <<setup, users, table, browser, clock, asks, bounds>>

Login(r) ==
    /\ r.kind = "login" /\ r.stage = "checked"
    /\ StartChain(r, r.user)
    /\ UNCHANGED <<setup, users, page, clock, limiter, asks, losses, expiries>>

CheckRefresh(r) ==
    /\ r.kind = "refresh" /\ r.stage = "sent"
    /\ Advance(r, IF Usable(r.cookie) /\ Active(tokens[r.cookie].user) THEN Checked(r) ELSE Refused(r))
    /\ UNCHANGED <<setup, users, table, browser, clock, limiter, asks, bounds>>

(* Mutant: the token stays valid for a client that lost the answer. *)
RefreshKeeping(r) ==
    /\ r.kind = "refresh" /\ r.stage = "checked"
    /\ LET k == r.cookie
           n == Len(tokens) + 1
           root == tokens[k].root
       IN  /\ tokens' = Append(tokens, Row(tokens[k].user, root))
           /\ races' = Append([races EXCEPT ![root] = IF tokens[k].revoked THEN @ + 1 ELSE @], 0)
           /\ ended' = Append(ended, 0)
           /\ Answer(r, Accepted(r, tokens[k].user, n), {k})
    /\ UNCHANGED <<setup, users, page, clock, limiter, asks, losses, expiries>>

(* One transaction adds the replacement and revokes the token that was       *)
(* checked earlier, whatever became of it since.                             *)
Refresh(r) ==
    /\ r.kind = "refresh" /\ r.stage = "checked"
    /\ LET k == r.cookie
           n == Len(tokens) + 1
           root == tokens[k].root
       IN  /\ tokens' = Append(Revoke(tokens, k, n), Row(tokens[k].user, root))
           /\ races' = Append([races EXCEPT ![root] = IF tokens[k].revoked THEN @ + 1 ELSE @], 0)
           /\ ended' = Append(ended, 0)
           /\ Answer(r, Accepted(r, tokens[k].user, n), {k})
    /\ UNCHANGED <<setup, users, page, clock, limiter, asks, losses, expiries>>

(* Logging out is idempotent: a token that is unknown or revoked is fine.    *)
CheckLogout(r) ==
    /\ r.kind = "logout" /\ r.stage = "sent"
    /\ Advance(r, IF r.cookie # None /\ ~tokens[r.cookie].revoked
                  THEN Checked(r) ELSE Accepted(r, r.user, None))
    /\ UNCHANGED <<setup, users, table, browser, clock, limiter, asks, bounds>>

Logout(r) ==
    /\ r.kind = "logout" /\ r.stage = "checked"
    /\ LET k == r.cookie
           root == tokens[k].root
       IN  /\ tokens' = Revoke(tokens, k, None)
           /\ ended' = [ended EXCEPT ![root] = IF tokens[k].revoked THEN @ ELSE @ + 1]
    /\ Advance(r, Accepted(r, r.user, None))
    /\ UNCHANGED <<setup, users, races, browser, clock, limiter, asks, bounds>>

(* r.user is the user of the access token the tab sent, "nobody" if expired. *)
GetCurrentUser(r) ==
    /\ r.kind = "me" /\ r.stage = "sent"
    /\ Advance(r, IF r.user # "nobody" /\ Active(r.user) THEN Accepted(r, r.user, None) ELSE Refused(r))
    /\ UNCHANGED <<setup, users, table, browser, clock, limiter, asks, bounds>>

(* The commit raises and the session is rolled back. *)
CommitFails(r) ==
    /\ r.stage = "checked"
    /\ faults < setup.faults
    /\ faults' = faults + 1
    /\ Advance(r, Refused(r))
    /\ UNCHANGED <<setup, users, table, browser, clock, limiter, asks, losses, expiries>>

-----------------------------------------------------------------------------
(* The pages. *)

Shows(t, status, user) == tab' = [tab EXCEPT ![t] = [status |-> status, user |-> user]]

BearerUser == IF access.fresh THEN access.user ELSE "nobody"

(* React's strict mode mounts the provider twice: the first bootstrap is     *)
(* cancelled, its requests are not.                                          *)
Bootstrap(t) ==
    LET kind == IF access = NoAccess THEN "refresh" ELSE "me"
        first == Request(kind, t, BearerUser, FALSE)
        second == [Request(kind, t, BearerUser, TRUE) EXCEPT !.id = asks + 1]
    IN  /\ asks + 1 < setup.asks
        /\ asks' = asks + 2
        /\ requests' = {[r EXCEPT !.applies = @ /\ r.tab # t, !.heard = @ /\ r.tab # t] : r \in requests}
                          \cup {second} \cup (IF setup.strict THEN {first} ELSE {})
        /\ Shows(t, "bootstrapping", "nobody")

(* A page is opened, or loaded again, which aborts what it was waiting for.  *)
OpenPage(t) ==
    /\ Bootstrap(t)
    /\ UNCHANGED <<setup, users, table, cookie, access, missed, clock, limiter, bounds>>

SubmitForm(t) ==
    /\ tab[t].status = "anonymous" /\ ~Busy(t)
    /\ \E kind \in {"login", "register"}, user \in Users : Send(kind, t, user)
    /\ UNCHANGED <<setup, users, table, browser, clock, limiter, bounds>>

ClickLogout(t) ==
    /\ tab[t].status = "authenticated"
    /\ Send("logout", t, tab[t].user)
    /\ UNCHANGED <<setup, users, table, browser, clock, limiter, bounds>>

Revokes(r) == r.kind \in {"refresh", "logout"}

TakesToken(r) == r.ok /\ r.kind \in {"refresh", "login", "register"}

(* Mutant: the refresh route answers without setting the cookie. *)
CookieAfterLogin(r) ==
    IF r.ok /\ r.kind \in {"login", "register"} THEN r.token
    ELSE IF r.ok /\ r.kind = "logout" THEN None ELSE cookie

(* Set-Cookie of an answer; the routes set nothing when the service raises.  *)
CookieAfter(r) ==
    IF TakesToken(r) THEN r.token ELSE IF r.ok /\ r.kind = "logout" THEN None ELSE cookie

(* What the page makes of an answer, or of none (r.ok is FALSE then).        *)
Apply(r) ==
    CASE TakesToken(r) ->
            access' = [user |-> r.user, fresh |-> TRUE] /\ Shows(r.tab, "authenticated", r.user)
      [] r.kind = "me" /\ r.ok -> Shows(r.tab, "authenticated", r.user) /\ UNCHANGED access
      [] r.kind = "logout" \/ (r.kind = "refresh" /\ ~r.ok) ->
            access' = NoAccess /\ Shows(r.tab, "anonymous", "nobody")
      [] OTHER -> UNCHANGED <<access, tab>>

(* A refused /me is followed by a refresh, also in a cancelled bootstrap.    *)
NextOf(r) ==
    IF r.kind = "me" /\ ~r.ok THEN {[Request("refresh", r.tab, "nobody", r.applies) EXCEPT !.id = r.id]} ELSE {}

Receive(r) ==
    /\ r.stage = "answered" /\ r.heard
    /\ cookie' = CookieAfter(r)
    /\ requests' = (requests \ {r}) \cup NextOf(r)
    /\ IF r.applies THEN Apply(r) ELSE UNCHANGED <<access, tab>>
    /\ UNCHANGED <<setup, users, table, missed, clock, limiter, asks, bounds>>

Drop(r) ==
    /\ r.stage = "answered" /\ ~r.heard
    /\ requests' = requests \ {r}
    /\ missed' = missed \cup (IF r.ok /\ Revokes(r) THEN {r.cookie} ELSE {})
    /\ UNCHANGED <<setup, users, table, cookie, access, tab, clock, limiter, asks, bounds>>

(* The page sees a network error or a timeout; the request is lost, or the   *)
(* service goes on with it.                                                  *)
Lose(r) ==
    /\ r.heard
    /\ losses < setup.losses
    /\ losses' = losses + 1
    /\ LET failed == [r EXCEPT !.ok = FALSE]
           unheard == [r EXCEPT !.heard = FALSE, !.applies = FALSE]
       IN  /\ \E left \in {{unheard}} \cup (IF r.stage = "sent" THEN {{}} ELSE {}) :
                requests' = (requests \ {r}) \cup left
                              \cup {[q EXCEPT !.id = asks] : q \in NextOf(failed)}
           /\ asks' = IF NextOf(failed) = {} THEN asks ELSE asks + 1
           /\ IF r.applies THEN Apply(failed) ELSE UNCHANGED <<access, tab>>
    /\ UNCHANGED <<setup, users, table, cookie, missed, clock, limiter, faults, expiries>>

-----------------------------------------------------------------------------
(* Time, and the operator. *)

Tick ==
    /\ clock < setup.ticks
    /\ clock' = clock + 1
    /\ UNCHANGED <<setup, users, table, requests, browser, limiter, asks, bounds>>

ExpireAccess ==
    /\ access.fresh /\ expiries < setup.expiries
    /\ access' = [access EXCEPT !.fresh = FALSE]
    /\ expiries' = expiries + 1
    /\ UNCHANGED <<setup, users, table, requests, cookie, tab, missed, clock, limiter, asks, losses, faults>>

ExpireToken(k) ==
    /\ ~tokens[k].expired /\ expiries < setup.expiries
    /\ tokens' = [tokens EXCEPT ![k].expired = TRUE]
    /\ expiries' = expiries + 1
    /\ UNCHANGED <<setup, users, races, ended, requests, browser, clock, limiter, asks, losses, faults>>

DisableUser(user) ==
    /\ Active(user) /\ expiries < setup.expiries
    /\ users' = [users EXCEPT ![user] = "disabled"]
    /\ expiries' = expiries + 1
    /\ UNCHANGED <<setup, table, requests, browser, clock, limiter, asks, losses, faults>>

Serve(r) ==
    \/ CheckRegister(r) \/ Register(r) \/ CheckLogin(r) \/ Login(r) \/ CheckRefresh(r) \/ Refresh(r)
    \/ CheckLogout(r) \/ Logout(r) \/ GetCurrentUser(r) \/ CommitFails(r)

Next ==
    \/ \E t \in Tabs : OpenPage(t) \/ SubmitForm(t) \/ ClickLogout(t)
    \/ \E r \in requests : Serve(r) \/ Receive(r) \/ Drop(r) \/ Lose(r)
    \/ Tick \/ ExpireAccess
    \/ \E k \in DOMAIN tokens : ExpireToken(k)
    \/ \E user \in Users : DisableUser(user)

Spec == Init /\ [][Next]_vars

-----------------------------------------------------------------------------
(* Properties. *)

(* The tokens of the chain that begins with this one that a refresh accepts. *)
LiveTokens(root) == {k \in DOMAIN tokens : tokens[k].root = root /\ ~tokens[k].revoked}

(* A chain of tokens has one live end, and none after a logout; only two     *)
(* requests whose reads of the same token overlap can add another one, each  *)
(* at most one.  A token that was revoked never lives again, whatever is     *)
(* lost, aborted, repeated or rolled back (AuthService.refresh, logout).     *)
ChainForksOnlyInRaces ==
    \A root \in DOMAIN tokens :
        tokens[root].root = root => Cardinality(LiveTokens(root)) + ended[root] <= 1 + races[root]

(* The cookie of the browser is a dead end only if an answer to a request    *)
(* that carried this very cookie went astray: when its token was revoked,    *)
(* the answer that replaces the cookie is on its way, unless the browser     *)
(* missed it, or the service answered with an error although the rotation    *)
(* was committed (AuthService.refresh reads the user after the commit).  So  *)
(* tabs that refresh at once, or log in while another one logs out, do not   *)
(* lock each other out for good, and no earlier mishap does.                 *)
CookieIsLive ==
    cookie # None /\ tokens[cookie].revoked =>
        \/ cookie \in missed
        \/ \E r \in requests : r.ok /\ Revokes(r) /\ r.cookie = cookie /\ CookieAfter(r) # cookie

(* Never more logins than the rule allows within any window; and a client    *)
(* that waits one second longer than Retry-After says is let in.  Waiting as *)
(* told is not enough: the header rounds the seconds down, by almost one     *)
(* (InMemoryRateLimiter.hit).                                                *)
LimiterIsExact ==
    Limited =>
        /\ \A i \in DOMAIN admitted :
             Cardinality({j \in DOMAIN admitted :
                admitted[j] > admitted[i] - setup.grain * setup.window /\ admitted[j] <= admitted[i]}) <= setup.limit
        /\ LET hit == Hit(bucket, clock)
           IN  ~hit.allowed => Hit(hit.stamps, clock + setup.grain * (hit.retryAfter + 1)).allowed
=============================================================================
