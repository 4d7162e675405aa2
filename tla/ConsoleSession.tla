---------------------------- MODULE ConsoleSession ----------------------------
(***************************************************************************)
(* Signing in and out of the console (frontend/src/contexts/auth.tsx,      *)
(* lib/api.ts, App.tsx, pages/LoginPage.tsx).  The tabs of one browser     *)
(* share its cookies, the session's and the CSRF token's; what a tab shows *)
(* and the token it has cached are its own.  A tab has one request under   *)
(* way.  One that changes something is built with the token of its time,   *)
(* and sent, handled and answered in a later step: the browser adds the    *)
(* cookies when it goes out, and other tabs may have signed in since.  A   *)
(* request that only reads needs no token, is one step, and without a      *)
(* session is answered with 403, which leaves the page as it is.           *)
(***************************************************************************)
EXTENDS Integers, FiniteSets

CONSTANTS Tabs, Users,
          Admins, Editors, \* users by role; the others are viewers
          MaxTokens,       \* bound: CSRF tokens the server ever issues
          MaxFailures      \* bound: requests that fail

Nobody == "nobody"
NoToken == 0
Tokens == 1..MaxTokens
Routes == {"login", "tenants", "workers", "admin"}
Steps == {"boot_csrf", "boot_me", "idle", "login", "login_csrf", "login_me",
          "logout", "logout_csrf", "page"}
Wires == [token : Tokens \cup {NoToken}, late : BOOLEAN]
NoWire == [token |-> NoToken, late |-> FALSE]

VARIABLES
  session,    \* the user of the session the browser's cookie names
  cookie,     \* the csrftoken cookie
  issued,     \* CSRF tokens issued so far
  user,       \* what each tab shows: its user, its page and its spinner
  route,      \* the page the router is at
  step,       \* the request each tab waits for
  cached,     \* cachedCsrfToken of each tab
  wire,       \* the X-CSRFToken of the request a tab has built, and whether another
              \* tab has signed in since
  replied,    \* the user a login asks for, then that of its reply (loggedInUser)
  refused,    \* history: a request was refused for its token, and none signed in since
  failures

vars == <<session, cookie, issued, user, route, step, cached, wire, replied, refused, failures>>

TypeOK ==
  /\ session \in Users \cup {Nobody}
  /\ cookie \in Tokens \cup {NoToken}
  /\ issued \in 0..MaxTokens
  /\ user \in [Tabs -> Users \cup {Nobody}]
  /\ route \in [Tabs -> Routes]
  /\ step \in [Tabs -> Steps]
  /\ cached \in [Tabs -> Tokens \cup {NoToken}]
  /\ wire \in [Tabs -> Wires]
  /\ replied \in [Tabs -> Users \cup {Nobody}]
  /\ refused \in BOOLEAN
  /\ failures \in 0..MaxFailures

\* Every tab has just been opened; the login that made a session made a token too.
Init ==
  /\ session \in Users \cup {Nobody}
  /\ cookie \in {NoToken, 1} /\ issued = cookie
  /\ session # Nobody => cookie # NoToken
  /\ user = [tab \in Tabs |-> Nobody]
  /\ route = [tab \in Tabs |-> "tenants"]
  /\ step = [tab \in Tabs |-> "boot_csrf"]
  /\ cached = [tab \in Tabs |-> NoToken]
  /\ wire = [tab \in Tabs |-> NoWire]
  /\ replied = [tab \in Tabs |-> Nobody]
  /\ refused = FALSE
  /\ failures = 0

-----------------------------------------------------------------------------
Loading(tab) == step[tab] \in {"boot_csrf", "boot_me"}
Go(tab, next) == step' = [step EXCEPT ![tab] = next]

\* The page a route leads to: guards of ProtectedRoute, AdminRoute, InfrastructureRoute.
Routed(who, wanted) ==
  IF who = Nobody THEN "login"
  ELSE IF \/ wanted = "login"
          \/ wanted = "admin" /\ who \notin Admins
          \/ wanted = "workers" /\ who \notin Admins \cup Editors
       THEN "tenants"
       ELSE wanted

\* applySession, and what the routes make of it.
ApplySession(tab, who) ==
  /\ user' = [user EXCEPT ![tab] = who]
  /\ route' = [route EXCEPT ![tab] = Routed(who, @)]

CachedFirst(tab) == IF cached[tab] # NoToken THEN cached[tab] ELSE cookie

\* getCsrfToken: the cookie is the source of truth, the cache stands in when there is none.
GetCsrfToken(tab) == IF cookie # NoToken THEN cookie ELSE cached[tab]

\* request, up to fetch: the token is read.
Build(tab, next) ==
  /\ step[tab] = "idle"
  /\ wire' = [wire EXCEPT ![tab] = [token |-> GetCsrfToken(tab), late |-> FALSE]]
  /\ Go(tab, next)

(* The session's owner must have sent the token of the cookie             *)
(* (SessionAuthentication); without a session the token is not looked at.  *)
Accepted(tab) == session # Nobody => (wire[tab].token # NoToken /\ wire[tab].token = cookie)

\* The page reports the error and is as it was.
Refused(tab, at) ==
  /\ step[tab] = at /\ ~Accepted(tab)
  /\ refused' = (refused \/ ~wire[tab].late)
  /\ wire' = [wire EXCEPT ![tab] = NoWire]

\* bootstrapCsrf: the server sets the cookie if there is none; the tab caches it.
EnsureCookie(tab) ==
  /\ \/ cookie # NoToken /\ UNCHANGED <<cookie, issued>>
     \/ /\ cookie = NoToken /\ issued < MaxTokens
        /\ issued' = issued + 1 /\ cookie' = issued + 1
  /\ cached' = [cached EXCEPT ![tab] = cookie']

Fail(tab) == failures < MaxFailures /\ failures' = failures + 1

-----------------------------------------------------------------------------
BootCsrf(tab) ==
  /\ step[tab] = "boot_csrf"
  /\ EnsureCookie(tab)
  /\ Go(tab, "boot_me")
  /\ UNCHANGED <<session, wire, replied, user, route, refused, failures>>

\* refresh: GET /me answers with the session's user, or 403.
BootMe(tab) ==
  /\ step[tab] = "boot_me"
  /\ ApplySession(tab, session)
  /\ Go(tab, "idle")
  /\ UNCHANGED <<session, wire, replied, cookie, issued, cached, refused, failures>>

\* Either request of the bootstrap fails: the spinner ends, nobody is signed in.
BootFails(tab) ==
  /\ Loading(tab) /\ Fail(tab)
  /\ ApplySession(tab, Nobody)
  /\ Go(tab, "idle")
  /\ UNCHANGED <<session, wire, replied, cookie, issued, cached, refused>>

\* The browser's reload: what the tab keeps in memory is gone.
Reload(tab) ==
  /\ step[tab] = "idle"
  /\ user' = [user EXCEPT ![tab] = Nobody]
  /\ cached' = [cached EXCEPT ![tab] = NoToken]
  /\ Go(tab, "boot_csrf")
  /\ UNCHANGED <<session, wire, replied, cookie, issued, route, refused, failures>>

\* The login form is shown to nobody only, and only after the bootstrap.
Login(tab, who) ==
  /\ route[tab] = "login" /\ user[tab] = Nobody
  /\ Build(tab, "login")
  /\ replied' = [replied EXCEPT ![tab] = who]
  /\ UNCHANGED <<session, cookie, issued, user, route, cached, refused, failures>>

\* login rotates the token; the requests other tabs have built still carry the old one.
LoggedIn(tab) ==
  /\ step[tab] = "login" /\ Accepted(tab) /\ issued < MaxTokens
  /\ session' = replied[tab]
  /\ issued' = issued + 1 /\ cookie' = issued + 1
  /\ wire' = [t \in Tabs |-> IF t = tab \/ step[t] \notin {"login", "logout", "page"}
                             THEN NoWire ELSE [wire[t] EXCEPT !.late = TRUE]]
  /\ Go(tab, "login_csrf")
  /\ UNCHANGED <<user, route, cached, replied, refused, failures>>

\* The token is refused, or the password.
LoginRefused(tab) ==
  /\ \/ Refused(tab, "login")
     \/ /\ step[tab] = "login" /\ Accepted(tab)
        /\ wire' = [wire EXCEPT ![tab] = NoWire] /\ UNCHANGED refused
  /\ replied' = [replied EXCEPT ![tab] = Nobody]
  /\ Go(tab, "idle")
  /\ UNCHANGED <<session, cookie, issued, user, route, cached, failures>>

\* bootstrapCsrf, and setUser with the user of the login's reply.
LoginCsrf(tab) ==
  /\ step[tab] = "login_csrf"
  /\ EnsureCookie(tab)
  /\ ApplySession(tab, replied[tab])
  /\ replied' = [replied EXCEPT ![tab] = Nobody]
  /\ Go(tab, "login_me")
  /\ UNCHANGED <<session, wire, refused, failures>>

LoginMe(tab) ==
  /\ step[tab] = "login_me" /\ session # Nobody
  /\ ApplySession(tab, session)
  /\ Go(tab, "idle")
  /\ UNCHANGED <<session, wire, cookie, issued, cached, replied, refused, failures>>

\* The form reports the error; a user that was set stays.
LoginFails(tab) ==
  /\ step[tab] \in {"login_csrf", "login_me"}
  /\ IF step[tab] = "login_me" /\ session = Nobody THEN UNCHANGED failures ELSE Fail(tab)
  /\ replied' = [replied EXCEPT ![tab] = Nobody]
  /\ Go(tab, "idle")
  /\ UNCHANGED <<session, wire, cookie, issued, user, route, cached, refused>>

Logout(tab) ==
  /\ user[tab] # Nobody
  /\ Build(tab, "logout")
  /\ UNCHANGED <<session, cookie, issued, user, route, cached, replied, refused, failures>>

\* Whatever the server answers, the tab forgets its token and its user; the
\* session ends, but the token stays.
LoggedOut(tab) ==
  /\ \/ /\ step[tab] = "logout" /\ Accepted(tab)
        /\ \/ session' = Nobody /\ UNCHANGED failures
           \/ Fail(tab) /\ UNCHANGED session
        /\ wire' = [wire EXCEPT ![tab] = NoWire] /\ UNCHANGED refused
     \/ Refused(tab, "logout") /\ UNCHANGED <<session, failures>>
  /\ cached' = [cached EXCEPT ![tab] = NoToken]
  /\ ApplySession(tab, Nobody)
  /\ Go(tab, "logout_csrf")
  /\ UNCHANGED <<cookie, issued, replied>>

\* "Anonymous CSRF bootstrap is best-effort after logout."
LogoutCsrf(tab) ==
  /\ step[tab] = "logout_csrf"
  /\ \/ EnsureCookie(tab) /\ UNCHANGED failures
     \/ Fail(tab) /\ UNCHANGED <<cookie, issued, cached>>
  /\ Go(tab, "idle")
  /\ UNCHANGED <<session, wire, replied, user, route, refused>>

\* A link.
Navigate(tab, wanted) ==
  /\ user[tab] # Nobody /\ step[tab] = "idle"
  /\ route' = [route EXCEPT ![tab] = Routed(user[tab], wanted)]
  /\ UNCHANGED <<session, wire, replied, cookie, issued, user, step, cached, refused, failures>>

\* Any other request that changes something.
PageRequest(tab) ==
  /\ user[tab] # Nobody /\ route[tab] # "login"
  /\ Build(tab, "page")
  /\ UNCHANGED <<session, cookie, issued, user, route, cached, replied, refused, failures>>

\* The page is told what came of it; without a session that is 403, not the 401
\* that would open the login form.
PageAnswered(tab) ==
  /\ \/ /\ step[tab] = "page" /\ Accepted(tab)
        /\ wire' = [wire EXCEPT ![tab] = NoWire] /\ UNCHANGED refused
     \/ Refused(tab, "page")
  /\ Go(tab, "idle")
  /\ UNCHANGED <<session, cookie, issued, user, route, cached, replied, failures>>

\* Eight idle hours, or the administrator, end the session.
SessionEnds ==
  /\ session # Nobody
  /\ session' = Nobody
  /\ UNCHANGED <<cookie, issued, wire, replied, user, route, step, cached, refused, failures>>

Next ==
  \/ \E tab \in Tabs :
       \/ BootCsrf(tab) \/ BootMe(tab) \/ BootFails(tab) \/ Reload(tab)
       \/ \E who \in Users : Login(tab, who)
       \/ LoggedIn(tab) \/ LoginRefused(tab) \/ LoginCsrf(tab) \/ LoginMe(tab) \/ LoginFails(tab)
       \/ Logout(tab) \/ LoggedOut(tab) \/ LogoutCsrf(tab)
       \/ \E wanted \in Routes \ {"login"} : Navigate(tab, wanted)
       \/ PageRequest(tab) \/ PageAnswered(tab)
  \/ SessionEnds

Spec == Init /\ [][Next]_vars

-----------------------------------------------------------------------------
(* A request is refused for its token only if another tab has signed in     *)
(* between its building and its handling.                                   *)
RefusedIfOvertaken == ~refused
=============================================================================
