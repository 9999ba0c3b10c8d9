------------------------------ MODULE Sessions ------------------------------
(***************************************************************************)
(* Login, the session cookie and the tokens, for one person with one       *)
(* browser: nginx (cas.lua, authapp.lua, the session library), the CAS     *)
(* server, the view user_jwts, the page that keeps the token it was given  *)
(* when it was loaded, and the script that prints the token nginx uses.    *)
(* A tab has one request of this kind at a time, and the browser takes the *)
(* cookies of the answers in the order in which these arrive.              *)
(***************************************************************************)
EXTENDS Integers, FiniteSets

CONSTANTS
    Tabs,
    Roles,
    Hour,        \* jwt_lifetime, and the session library's cookie lifetime
    Slack,       \* what _jwt.js takes off the time
    MaxSkew,     \* how far the clock of the script's machine may be off
    MaxTime,     \* bound on the clock
    MaxSessions, \* bound on the sessions that are known at once
    MaxRestarts  \* bound on restarts of nginx

ASSUME SessionsAssumption ==
    /\ Hour \in Nat \ {0} /\ Slack \in Nat /\ MaxSkew \in Nat
    /\ MaxTime \in Nat /\ MaxSessions \in Nat /\ MaxRestarts \in Nat

VARIABLES
    now,
    role,       \* data.user: the person's role, "none" if she has no row
    lastHad,    \* history: when she last had a role
    sessions,   \* nginx's store: when a session expires, of those it holds
    restarts,   \* restarts of nginx so far
    printed,    \* the time of issue of the tokens the script has printed
    cookie,     \* the browser's cookie: a session, or 0
    request,    \* the request a tab waits for
    page        \* what a tab shows

vars == <<now, role, lastHad, sessions, restarts, printed, cookie, request, page>>

Ids == 1 .. MaxSessions

\* A request carries the cookie as it was sent.  The answer sets, clears (0) or
\* keeps the cookie (Keep).
None    == [path |-> "none"]
Keep    == MaxSessions + 1
Waiting == [is |-> "waiting"]
Request ==
    [path : {"me", "login", "logout"}, cookie : 0 .. MaxSessions, ticket : BOOLEAN,
     answer : {Waiting} \cup [is : {"user", "forbidden", "home", "cas", "again", "bye"},
                              set : 0 .. Keep, role : Roles \cup {"none"}, exp : Nat]]
\* The web client with its user and token; or not logged in; the CAS server's
\* form; a page of nginx.
Page ==
    [is : {"loading", "stranger", "cas", "error", "out"}]
    \cup [is : {"user"}, role : Roles, exp : Nat]

TypeOK ==
    /\ now \in 0 .. MaxTime
    /\ role \in Roles \cup {"none"}
    /\ lastHad \in [Roles -> -Hour - 1 .. MaxTime]
    /\ DOMAIN sessions \subseteq Ids
    /\ \A id \in DOMAIN sessions : sessions[id] \in now + 1 .. now + Hour
    /\ restarts \in 0 .. MaxRestarts
    /\ printed \subseteq Int
    /\ cookie \in 0 .. MaxSessions
    /\ request \in [Tabs -> Request \cup {None}]
    /\ page \in [Tabs -> Page]

Send(path, with, ticket) == [path |-> path, cookie |-> with, ticket |-> ticket, answer |-> Waiting]

Init ==
    /\ now = 0
    /\ role \in Roles \cup {"none"}
    /\ lastHad = [r \in Roles |-> IF r = role THEN 0 ELSE -Hour - 1]
    /\ sessions = [id \in {} |-> 0] /\ restarts = 0
    /\ printed = {}
    /\ cookie = 0
    /\ request = [t \in Tabs |-> None]
    /\ page = [t \in Tabs |-> [is |-> "out"]]
-----------------------------------------------------------------------------
(* The world around.                                                       *)

\* The store drops what has expired.
Tick ==
    /\ now < MaxTime /\ now' = now + 1
    /\ lastHad' = IF role \in Roles THEN [lastHad EXCEPT ![role] = now'] ELSE lastHad
    /\ sessions' = [id \in {i \in DOMAIN sessions : now' < sessions[i]} |-> sessions[id]]
    /\ UNCHANGED <<role, restarts, printed, cookie, request, page>>

\* Faculty register the person, change her role or remove her.
SetRole(r) ==
    /\ r # role /\ role' = r
    /\ lastHad' = IF r \in Roles THEN [lastHad EXCEPT ![r] = now] ELSE lastHad
    /\ UNCHANGED <<now, sessions, restarts, printed, cookie, request, page>>

\* The store is in nginx's memory, and so is the secret of the cookies.
Restart ==
    /\ restarts < MaxRestarts /\ restarts' = restarts + 1
    /\ sessions' = [id \in {} |-> 0]
    /\ UNCHANGED <<now, role, lastHad, printed, cookie, request, page>>

\* _jwt.js with one argument, on a machine whose clock is off by skew: a token
\* without an expiry.  With any other number of arguments it prints none.
PrintToken(skew) ==
    /\ Cardinality(printed) < 1
    /\ printed' = printed \cup {now + skew - Slack}
    /\ UNCHANGED <<now, role, lastHad, sessions, restarts, cookie, request, page>>

\* PostgREST refuses a token that was issued in the future.
Accepted(iat) == iat <= now
-----------------------------------------------------------------------------
(* The person and her browser.                                             *)

\* The client is loaded, and asks who the user is.
Open(t) ==
    /\ request[t] = None
    /\ request' = [request EXCEPT ![t] = Send("me", cookie, FALSE)]
    /\ page' = [page EXCEPT ![t] = [is |-> "loading"]]
    /\ UNCHANGED <<now, role, lastHad, sessions, restarts, printed, cookie>>

Login(t) ==
    /\ request[t] = None
    /\ request' = [request EXCEPT ![t] = Send("login", cookie, FALSE)]
    /\ UNCHANGED <<now, role, lastHad, sessions, restarts, printed, cookie, page>>

\* The CAS server sends her back with a ticket, which is good for one request.
CasReturns(t) ==
    /\ request[t] = None /\ page[t].is = "cas"
    /\ request' = [request EXCEPT ![t] = Send("login", cookie, TRUE)]
    /\ UNCHANGED <<now, role, lastHad, sessions, restarts, printed, cookie, page>>

Logout(t) ==
    /\ request[t] = None
    /\ request' = [request EXCEPT ![t] = Send("logout", cookie, FALSE)]
    /\ UNCHANGED <<now, role, lastHad, sessions, restarts, printed, cookie, page>>
-----------------------------------------------------------------------------
(* nginx.                                                                  *)

Live(id) == id \in DOMAIN sessions

Served(t, path) == request[t].path = path /\ request[t].answer = Waiting

Answer(t, is, set) ==
    request' = [request EXCEPT ![t].answer = [is |-> is, set |-> set, role |-> "none", exp |-> 0]]

\* destroy_invalid_session clears a cookie that was sent.
Destroyed(t) == IF request[t].cookie = 0 THEN Keep ELSE 0

\* user_jwts, asked by nginx with its token: her row, signed for an hour.
UserIsRegistered == role \in Roles /\ \E iat \in printed : Accepted(iat)

\* Mutant: the cookie is cleared whenever there is no user to return.
GetMe_Clears(t) ==
    /\ Served(t, "me")
    /\ \/ /\ Live(request[t].cookie) /\ UserIsRegistered
          /\ request' = [request EXCEPT ![t].answer =
                [is |-> "user", set |-> Keep, role |-> role, exp |-> now + Hour]]
       \/ Answer(t, "forbidden", Destroyed(t))
    /\ UNCHANGED <<now, role, lastHad, sessions, restarts, printed, cookie, page>>

\* Mutant: the token has no expiry, as those that _jwt.js prints.
GetMe_NoExpiry(t) ==
    /\ Served(t, "me")
    /\ IF Live(request[t].cookie)
       THEN \/ /\ UserIsRegistered
               /\ request' = [request EXCEPT ![t].answer =
                     [is |-> "user", set |-> Keep, role |-> role, exp |-> MaxTime + 1]]
            \/ Answer(t, "forbidden", Keep)
       ELSE Answer(t, "forbidden", Destroyed(t))
    /\ UNCHANGED <<now, role, lastHad, sessions, restarts, printed, cookie, page>>

\* /auth/me
GetMe(t) ==
    /\ Served(t, "me")
    /\ IF Live(request[t].cookie)
       THEN \/ /\ UserIsRegistered
               /\ request' = [request EXCEPT ![t].answer =
                     [is |-> "user", set |-> Keep, role |-> role, exp |-> now + Hour]]
            \/ Answer(t, "forbidden", Keep)   \* not registered, or PostgREST failed
       ELSE Answer(t, "forbidden", Destroyed(t))
    /\ UNCHANGED <<now, role, lastHad, sessions, restarts, printed, cookie, page>>

\* Mutant: who has no session is not sent to CAS.
ForceAuthentication_NoCas(t) ==
    /\ Served(t, "login")
    /\ Live(request[t].cookie) /\ Answer(t, "home", Keep)
    /\ UNCHANGED <<now, role, lastHad, sessions, restarts, printed, cookie, page>>

\* /auth/login with a session, and without: to the client, and to CAS.
ForceAuthentication(t) ==
    /\ Served(t, "login")
    /\ \/ Live(request[t].cookie) /\ Answer(t, "home", Keep)
       \/ ~Live(request[t].cookie) /\ ~request[t].ticket /\ Answer(t, "cas", Destroyed(t))
    /\ UNCHANGED <<now, role, lastHad, sessions, restarts, printed, cookie, page>>

\* Identifiers are random: one that nobody knows.
NewIds ==
    {id \in Ids \ (DOMAIN sessions \cup {cookie}) :
        \A t \in Tabs : request[t] # None =>
            id # request[t].cookie /\ (request[t].answer # Waiting => id # request[t].answer.set)}

\* The ticket is validated, the user is looked up and the session saved: the page
\* is asked for again without the ticket.
ValidateWithCAS(t) ==
    /\ Served(t, "login") /\ request[t].ticket /\ ~Live(request[t].cookie)
    /\ UserIsRegistered
    /\ NewIds # {}
    /\ LET new == CHOOSE id \in NewIds : TRUE
       IN  /\ sessions' = [id \in DOMAIN sessions \cup {new} |->
                              IF id = new THEN now + Hour ELSE sessions[id]]
           /\ Answer(t, "again", new)
    /\ UNCHANGED <<now, role, lastHad, restarts, printed, cookie, page>>

\* CAS or PostgREST says no or cannot be reached.
ValidationFails(t) ==
    /\ Served(t, "login") /\ request[t].ticket /\ ~Live(request[t].cookie)
    /\ Answer(t, "forbidden", Destroyed(t))
    /\ UNCHANGED <<now, role, lastHad, sessions, restarts, printed, cookie, page>>

\* The failure to save the session is not noticed; the ticket is spent.
SaveFails(t) ==
    /\ Served(t, "login") /\ request[t].ticket /\ ~Live(request[t].cookie)
    /\ UserIsRegistered
    /\ Answer(t, "again", Destroyed(t))
    /\ UNCHANGED <<now, role, lastHad, sessions, restarts, printed, cookie, page>>

\* /auth/logout
DestroySession(t) ==
    /\ Served(t, "logout")
    /\ sessions' = [id \in DOMAIN sessions \ {request[t].cookie} |-> sessions[id]]
    /\ Answer(t, "bye", 0)
    /\ UNCHANGED <<now, role, lastHad, restarts, printed, cookie, page>>
-----------------------------------------------------------------------------
(* The answers.                                                            *)

Arrives(t, is) == request[t] # None /\ request[t].answer.is = is

\* Set-Cookie
NewCookie(t) == IF request[t].answer.set = Keep THEN cookie ELSE request[t].answer.set

Receive(t) ==
    /\ \/ /\ Arrives(t, "user")
          /\ page' = [page EXCEPT ![t] = [is |-> "user", role |-> request[t].answer.role,
                                          exp |-> request[t].answer.exp]]
       \/ /\ Arrives(t, "forbidden")
          /\ page' = [page EXCEPT ![t] =
                        [is |-> IF request[t].path = "me" THEN "stranger" ELSE "error"]]
       \/ Arrives(t, "cas") /\ page' = [page EXCEPT ![t] = [is |-> "cas"]]
       \/ Arrives(t, "bye") /\ page' = [page EXCEPT ![t] = [is |-> "out"]]
    /\ cookie' = NewCookie(t)
    /\ request' = [request EXCEPT ![t] = None]
    /\ UNCHANGED <<now, role, lastHad, sessions, restarts, printed>>

\* The browser follows a redirection to the client or to /auth/login, with the
\* cookie it has then.
Follow(t) ==
    /\ \/ /\ Arrives(t, "home")
          /\ request' = [request EXCEPT ![t] = Send("me", NewCookie(t), FALSE)]
          /\ page' = [page EXCEPT ![t] = [is |-> "loading"]]
       \/ /\ Arrives(t, "again")
          /\ request' = [request EXCEPT ![t] = Send("login", NewCookie(t), FALSE)]
          /\ UNCHANGED page
    /\ cookie' = NewCookie(t)
    /\ UNCHANGED <<now, role, lastHad, sessions, restarts, printed>>

Person(t) == Open(t) \/ Login(t) \/ CasReturns(t) \/ Logout(t)

Nginx(t) ==
    GetMe(t) \/ ForceAuthentication(t) \/ ValidateWithCAS(t) \/ ValidationFails(t)
      \/ SaveFails(t) \/ DestroySession(t)

Next ==
    \/ Tick \/ Restart
    \/ \E r \in Roles \cup {"none"} : SetRole(r)
    \/ \E skew \in -MaxSkew .. MaxSkew : PrintToken(skew)
    \/ \E t \in Tabs : Person(t) \/ Nginx(t) \/ Receive(t) \/ Follow(t)

Spec == Init /\ [][Next]_vars

\* Requests are answered, the CAS server lets her in, and a session is saved one
\* day if it is tried again and again.
FairSpec ==
    /\ Spec
    /\ \A t \in Tabs :
          /\ WF_vars(Nginx(t)) /\ WF_vars(Receive(t)) /\ WF_vars(Follow(t))
          /\ SF_vars(CasReturns(t)) /\ SF_vars(ValidateWithCAS(t))
-----------------------------------------------------------------------------
(* Properties.                                                             *)

\* A token acts in a role its user has had within the hour, however often
\* faculty change it and wherever its answer was delayed.
RoleOfTheHour ==
    \A t \in Tabs : page[t].is = "user" /\ now < page[t].exp => now - lastHad[page[t].role] <= Hour

\* "Checks to see if there is a cookie and, if there is, destroys the session
\* associated with that cookie, setting a new empty cookie in the client": nginx
\* sets or clears the cookie only in the answer to a request whose own session,
\* by now, it does not hold.
OwnSessionKept ==
    \A t \in Tabs :
        LET r == request[t]
        IN  r # None /\ r.answer # Waiting /\ r.answer.set # Keep => ~Live(r.cookie)

\* The same, of the browser: unless she logs out, it does not lose the cookie of
\* a session that nginx holds.
LoginSticks ==
    [][\A id \in Ids : cookie = id /\ Live(id) /\ Live(id)' =>
          Live(cookie)' \/ \E t \in Tabs : request[t].path = "logout" /\ Receive(t)]_vars

\* Who follows the redirections arrives at the client, is told why not, or has
\* logged out meanwhile, once no other tab sends such requests.
LoginEnds ==
    \A t \in Tabs :
        <>[](\A u \in Tabs \ {t} : request[u] = None) =>
            (request[t].path = "login" ~>
                request[t] = None /\ page[t].is \in {"user", "stranger", "error", "out"})
=============================================================================
