---------------------------- MODULE ServerProofs ----------------------------
(***************************************************************************)
(* Proofs about Sessions for any number of tabs, roles, sessions and       *)
(* restarts, and any lifetime of the tokens; about Grading, for any finite *)
(* sets of students, quizzes and options and any bounds on points and      *)
(* edits: what groupby makes of the rows, and that a grade is what the     *)
(* answers are worth unless something of it has changed since its quiz was *)
(* read; and about these and the keep-alive side by side.                  *)
(***************************************************************************)
EXTENDS Server, SseKeepAliveProofs, FiniteSetTheorems, WellFoundedInduction

-----------------------------------------------------------------------------
(* Sessions.                                                               *)

\* What a token says was so within the hour before it ends.
Granted(grant) == grant.role \in Roles /\ grant.exp <= lastHad[grant.role] + Hour

Answered(t, is) == request[t] # None /\ request[t].answer.is = is

\* Beyond the types: what lastHad records, and that every token, in a page or
\* in an answer on its way, was issued for a role the person then had.
Inv ==
    /\ TypeOK
    /\ \A r \in Roles : lastHad[r] <= now
    /\ role \in Roles => lastHad[role] = now
    /\ \A t \in Tabs : page[t].is = "user" => Granted(page[t])
    /\ \A t \in Tabs : Answered(t, "user") => Granted(request[t].answer)

-----------------------------------------------------------------------------
(* Steps of the world around.                                              *)

\* The tokens stay granted while nobody's last time in a role is moved back.
LEMMA StillGranted ==
    ASSUME Inv, lastHad' \in [Roles -> Int], \A r \in Roles : lastHad[r] <= lastHad'[r],
           UNCHANGED <<page, request>>
    PROVE  /\ \A t \in Tabs : page'[t].is = "user" => Granted(page[t])'
           /\ \A t \in Tabs : Answered(t, "user")' => Granted(request[t].answer)'
  <1>1. /\ lastHad \in [Roles -> Int] /\ Hour \in Nat
        /\ page \in [Tabs -> Page] /\ request \in [Tabs -> Request \cup {None}]
    <2>1. -Hour - 1 .. MaxTime \subseteq Int
      OBVIOUS
    <2> QED
      BY <2>1, SessionsAssumption DEF Inv, TypeOK
  <1>2. ASSUME NEW grant, grant.exp \in Nat, Granted(grant)
        PROVE  grant.role \in Roles /\ grant.exp <= lastHad'[grant.role] + Hour
    BY <1>1, <1>2 DEF Granted
  <1>3. ASSUME NEW t \in Tabs, page'[t].is = "user" PROVE Granted(page[t])'
    <2>1. page[t].exp \in Nat /\ Granted(page[t])
      BY <1>1, <1>3 DEF Page, Inv
    <2> QED
      BY <1>2, <2>1 DEF Granted
  <1>4. ASSUME NEW t \in Tabs, Answered(t, "user")' PROVE Granted(request[t].answer)'
    <2>1. Answered(t, "user")
      BY <1>4 DEF Answered
    <2>2. request[t].answer.exp \in Nat
      BY <1>1, <2>1 DEF Answered, Request, Waiting
    <2>3. Granted(request[t].answer)
      BY <2>1 DEF Inv
    <2> QED
      BY <1>2, <2>2, <2>3 DEF Granted
  <1> QED
    BY <1>3, <1>4

\* The types in arithmetic.
LEMMA ArithmeticTypes ==
    ASSUME TypeOK
    PROVE  /\ now \in Nat /\ lastHad \in [Roles -> Int]
           /\ Hour \in Nat \ {0} /\ MaxTime \in Nat /\ MaxSessions \in Nat
           /\ \A id \in DOMAIN sessions : id \in Nat
    <1>1. -Hour - 1 .. MaxTime \subseteq Int /\ 0 .. MaxTime \subseteq Nat
      BY SessionsAssumption
    <1> QED
      BY <1>1, SessionsAssumption DEF TypeOK, Ids

LEMMA TickStep ==
    ASSUME Inv, Tick
    PROVE  Inv'
  <1>1. /\ TypeOK /\ now \in Nat /\ now' = now + 1 /\ now < MaxTime /\ lastHad \in [Roles -> Int]
        /\ Hour \in Nat \ {0} /\ MaxTime \in Nat
    BY ArithmeticTypes DEF Inv, Tick
  <1>2. /\ lastHad' = IF role \in Roles THEN [lastHad EXCEPT ![role] = now + 1] ELSE lastHad
        /\ UNCHANGED <<role, restarts, printed, cookie, request, page>>
    BY <1>1 DEF Tick
  <1>3. \A r \in Roles : lastHad[r] <= lastHad'[r] /\ lastHad'[r] <= now'
    BY <1>1, <1>2 DEF Inv
  <1>4. role' \in Roles => lastHad'[role'] = now'
    BY <1>1, <1>2
  <1>5. lastHad' \in [Roles -> -Hour - 1 .. MaxTime] /\ lastHad' \in [Roles -> Int]
    <2>1. now + 1 \in -Hour - 1 .. MaxTime
      BY <1>1
    <2> QED
      BY <1>1, <1>2, <2>1 DEF TypeOK
  <1>6. DOMAIN sessions' \subseteq Ids /\ \A id \in DOMAIN sessions' : sessions'[id] \in now' + 1 .. now' + Hour
    <2>1. sessions' = [id \in {i \in DOMAIN sessions : now' < sessions[i]} |-> sessions[id]]
      BY DEF Tick
    <2>2. ASSUME NEW id \in DOMAIN sessions, now' < sessions[id]
          PROVE  sessions[id] \in now' + 1 .. now' + Hour
      BY <1>1, <2>2 DEF TypeOK
    <2> QED
      BY <1>1, <2>1, <2>2 DEF TypeOK
  <1>7. TypeOK'
    BY <1>1, <1>2, <1>5, <1>6 DEF TypeOK
  <1> QED
    BY <1>2, <1>3, <1>4, <1>5, <1>7, StillGranted DEF Inv

LEMMA SetRoleStep ==
    ASSUME Inv, NEW r \in Roles \cup {"none"}, SetRole(r)
    PROVE  Inv'
  <1>1. TypeOK /\ now \in Nat /\ lastHad \in [Roles -> Int] /\ Hour \in Nat \ {0} /\ MaxTime \in Nat
    BY ArithmeticTypes DEF Inv
  <1>2. /\ lastHad' = IF r \in Roles THEN [lastHad EXCEPT ![r] = now] ELSE lastHad
        /\ role' = r /\ UNCHANGED <<now, sessions, restarts, printed, cookie, request, page>>
    BY DEF SetRole
  <1>3. \A s \in Roles : lastHad[s] <= lastHad'[s] /\ lastHad'[s] <= now'
    BY <1>1, <1>2 DEF Inv
  <1>4. role' \in Roles => lastHad'[role'] = now'
    BY <1>1, <1>2
  <1>5. lastHad' \in [Roles -> -Hour - 1 .. MaxTime] /\ lastHad' \in [Roles -> Int]
    <2>1. now \in -Hour - 1 .. MaxTime
      BY <1>1 DEF TypeOK
    <2> QED
      BY <1>1, <1>2, <2>1 DEF TypeOK
  <1>6. TypeOK'
    BY <1>1, <1>2, <1>5 DEF TypeOK
  <1> QED
    BY <1>2, <1>3, <1>4, <1>5, <1>6, StillGranted DEF Inv

\* A step that changes neither the clock nor any role, page or request.
LEMMA QuietStep ==
    ASSUME Inv, TypeOK', UNCHANGED <<now, role, lastHad, request, page>>
    PROVE  Inv'
  <1>1. lastHad \in [Roles -> Int] /\ \A r \in Roles : lastHad[r] <= lastHad[r]
    BY ArithmeticTypes DEF Inv
  <1> QED
    BY <1>1, StillGranted DEF Inv

LEMMA RestartStep ==
    ASSUME Inv, Restart
    PROVE  Inv'
  <1>1. TypeOK'
    BY SessionsAssumption DEF Inv, TypeOK, Restart
  <1> QED
    BY <1>1, QuietStep DEF Restart

LEMMA PrintTokenStep ==
    ASSUME Inv, NEW skew \in -MaxSkew .. MaxSkew, PrintToken(skew)
    PROVE  Inv'
  <1>1. now + skew - Slack \in Int
    BY SessionsAssumption, ArithmeticTypes DEF Inv
  <1>2. TypeOK'
    BY <1>1 DEF Inv, TypeOK, PrintToken
  <1> QED
    BY <1>2, QuietStep DEF PrintToken
-----------------------------------------------------------------------------
(* Steps of a tab.                                                         *)

\* A request or answer r of a tab, and a page p of one, that may be there.
Sendable(r) == r \in Request \cup {None} /\ (r # None /\ r.answer.is = "user" => Granted(r.answer))
Showable(p) == p \in Page /\ (p.is = "user" => Granted(p))

\* A step of one tab, that leaves it a request and a page that may be there.
LEMMA TabStep ==
    ASSUME Inv, NEW t \in Tabs, NEW r, NEW p, Sendable(r), Showable(p),
           request' = [request EXCEPT ![t] = r], page' = [page EXCEPT ![t] = p],
           cookie' \in 0 .. MaxSessions,
           DOMAIN sessions' \subseteq Ids,
           \A id \in DOMAIN sessions' : sessions'[id] \in now + 1 .. now + Hour,
           UNCHANGED <<now, role, lastHad, restarts, printed>>
    PROVE  Inv'
  <1>1. request \in [Tabs -> Request \cup {None}] /\ page \in [Tabs -> Page]
    BY DEF Inv, TypeOK
  <1>2. request' \in [Tabs -> Request \cup {None}] /\ page' \in [Tabs -> Page]
    BY <1>1 DEF Sendable, Showable
  <1>3. TypeOK'
    BY <1>2 DEF Inv, TypeOK
  <1>4. ASSUME NEW u \in Tabs PROVE Showable(page'[u]) /\ Sendable(request'[u])
    BY <1>1, <1>4 DEF Inv, Showable, Sendable, Answered
  <1>5. ASSUME NEW u \in Tabs, page'[u].is = "user" PROVE Granted(page[u])'
    BY <1>4, <1>5 DEF Showable, Granted
  <1>6. ASSUME NEW u \in Tabs, Answered(u, "user")' PROVE Granted(request[u].answer)'
    BY <1>4, <1>6 DEF Sendable, Granted, Answered
  <1> QED
    BY <1>3, <1>5, <1>6 DEF Inv

\* What is there may stay.
LEMMA Unchanged ==
    ASSUME Inv, NEW t \in Tabs
    PROVE  /\ Sendable(request[t]) /\ Showable(page[t])
           /\ cookie \in 0 .. MaxSessions /\ DOMAIN sessions \subseteq Ids
           /\ \A id \in DOMAIN sessions : sessions[id] \in now + 1 .. now + Hour
           /\ request = [request EXCEPT ![t] = request[t]]
           /\ page = [page EXCEPT ![t] = page[t]]
  BY DEF Inv, TypeOK, Sendable, Showable, Answered

\* A request may be sent.
LEMMA SendSendable ==
    ASSUME Inv, NEW path \in {"me", "login", "logout"}, NEW with \in 0 .. MaxSessions,
           NEW ticket \in BOOLEAN
    PROVE  Sendable(Send(path, with, ticket))
  BY DEF Sendable, Send, Request, Waiting

\* An answer without a user may be given.
LEMMA AnswerSendable ==
    ASSUME Inv, NEW t \in Tabs, request[t] # None,
           NEW is \in {"forbidden", "home", "cas", "again", "bye"}, NEW set \in 0 .. Keep,
           Answer(t, is, set)
    PROVE  \E r : Sendable(r) /\ request' = [request EXCEPT ![t] = r]
  <1> DEFINE answer == [is |-> is, set |-> set, role |-> "none", exp |-> 0]
             r == [request[t] EXCEPT !.answer = answer]
  <1>1. request[t] \in Request /\ request \in [Tabs -> Request \cup {None}]
    BY DEF Inv, TypeOK
  <1>2. answer \in [is : {"user", "forbidden", "home", "cas", "again", "bye"},
                    set : 0 .. Keep, role : Roles \cup {"none"}, exp : Nat]
    OBVIOUS
  <1>3. r \in Request /\ r.answer.is = is
    BY <1>1, <1>2 DEF Request
  <1>4. request' = [request EXCEPT ![t] = r]
    BY <1>1 DEF Answer
  <1> QED
    BY <1>3, <1>4 DEF Sendable

\* The cookie that an answer leaves.
LEMMA CookieType ==
    ASSUME Inv, NEW t \in Tabs, request[t] # None, request[t].answer # Waiting
    PROVE  NewCookie(t) \in 0 .. MaxSessions
  <1>1. MaxSessions \in Nat /\ cookie \in 0 .. MaxSessions /\ request[t] \in Request
    BY ArithmeticTypes DEF Inv, TypeOK
  <1>2. request[t].answer.set \in 0 .. Keep
    BY <1>1 DEF Request
  <1> QED
    BY <1>1, <1>2 DEF NewCookie, Keep

LEMMA PersonStep ==
    ASSUME Inv, NEW t \in Tabs, Person(t)
    PROVE  Inv'
  <1>1. cookie \in 0 .. MaxSessions /\ {TRUE, FALSE} \subseteq BOOLEAN
    BY DEF Inv, TypeOK
  <1>2. Showable([is |-> "loading"]) /\ [is |-> "loading"] \in Page /\ page[t] \in Page
    BY DEF Showable, Page, Inv, TypeOK
  <1>3. Showable(page[t]) /\ page = [page EXCEPT ![t] = page[t]]
    BY Unchanged
  <1>4. PICK path \in {"me", "login", "logout"}, ticket \in BOOLEAN :
            request' = [request EXCEPT ![t] = Send(path, cookie, ticket)]
    <2>1. TRUE \in BOOLEAN /\ FALSE \in BOOLEAN
      OBVIOUS
    <2> QED
      BY <2>1 DEF Person, Open, Login, CasReturns, Logout
  <1>5. PICK p \in Page : Showable(p) /\ page' = [page EXCEPT ![t] = p]
    <2>1. page' = [page EXCEPT ![t] = [is |-> "loading"]] \/ page' = page
      BY DEF Person, Open, Login, CasReturns, Logout
    <2> QED
      BY <1>2, <1>3, <2>1
  <1>6. Sendable(Send(path, cookie, ticket))
    BY <1>1, SendSendable
  <1>7. UNCHANGED <<now, role, lastHad, sessions, restarts, printed, cookie>>
    BY DEF Person, Open, Login, CasReturns, Logout
  <1> QED
    BY <1>4, <1>5, <1>6, <1>7, Unchanged, TabStep

\* What is cleared or kept.
LEMMA DestroyedType ==
    ASSUME Inv, NEW t \in Tabs
    PROVE  Destroyed(t) \in 0 .. Keep /\ Keep \in 0 .. Keep /\ 0 \in 0 .. Keep
  BY ArithmeticTypes DEF Inv, Destroyed, Keep

\* An answer without a user, that leaves sessions that may be there.
LEMMA NginxAnswers ==
    ASSUME Inv, NEW t \in Tabs, request[t] # None,
           NEW is \in {"forbidden", "home", "cas", "again", "bye"}, NEW set \in 0 .. Keep,
           Answer(t, is, set),
           DOMAIN sessions' \subseteq Ids,
           \A id \in DOMAIN sessions' : sessions'[id] \in now + 1 .. now + Hour,
           UNCHANGED <<now, role, lastHad, restarts, printed, cookie, page>>
    PROVE  Inv'
  <1>1. PICK r : Sendable(r) /\ request' = [request EXCEPT ![t] = r]
    BY AnswerSendable
  <1> QED
    BY <1>1, Unchanged, TabStep

LEMMA NginxStep ==
    ASSUME Inv, NEW t \in Tabs, Nginx(t)
    PROVE  Inv'
  <1>1. request[t] # None /\ request[t] \in Request /\ request \in [Tabs -> Request \cup {None}]
    BY DEF Inv, TypeOK, None, Nginx, GetMe, ForceAuthentication, ValidateWithCAS,
       ValidationFails, SaveFails, DestroySession, Served
  <1>2. /\ DOMAIN sessions \subseteq Ids
        /\ \A id \in DOMAIN sessions : sessions[id] \in now + 1 .. now + Hour
        /\ now \in Nat /\ Hour \in Nat \ {0} /\ lastHad \in [Roles -> Int]
    BY ArithmeticTypes DEF Inv, TypeOK
  <1>3. ASSUME NEW is \in {"forbidden", "home", "cas", "again", "bye"}, NEW set \in 0 .. Keep,
               Answer(t, is, set),
               UNCHANGED <<now, role, lastHad, sessions, restarts, printed, cookie, page>>
        PROVE  Inv'
    BY <1>1, <1>2, <1>3, NginxAnswers
  <1>4. CASE GetMe(t)
    <2>1. CASE UserIsRegistered /\ request' = [request EXCEPT ![t].answer =
                  [is |-> "user", set |-> Keep, role |-> role, exp |-> now + Hour]]
      <3> DEFINE answer == [is |-> "user", set |-> Keep, role |-> role, exp |-> now + Hour]
                 r == [request[t] EXCEPT !.answer = answer]
      <3>1. role \in Roles /\ lastHad[role] = now
        BY <2>1 DEF UserIsRegistered, Inv
      <3>2. answer \in [is : {"user", "forbidden", "home", "cas", "again", "bye"},
                        set : 0 .. Keep, role : Roles \cup {"none"}, exp : Nat]
        BY <1>2, <3>1, DestroyedType
      <3>3. r \in Request /\ r.answer = answer
        BY <1>1, <3>2 DEF Request
      <3>4. Granted(answer)
        BY <1>2, <3>1 DEF Granted
      <3>5. request' = [request EXCEPT ![t] = r] /\ Sendable(r)
        BY <1>1, <2>1, <3>3, <3>4 DEF Sendable
      <3>6. UNCHANGED <<now, role, lastHad, sessions, restarts, printed, cookie, page>>
        BY <1>4 DEF GetMe
      <3> QED
        BY <3>5, <3>6, Unchanged, TabStep
    <2>2. CASE Answer(t, "forbidden", Keep) \/ Answer(t, "forbidden", Destroyed(t))
      BY <1>3, <1>4, <2>2, DestroyedType DEF GetMe
    <2> QED
      BY <1>4, <2>1, <2>2 DEF GetMe
  <1>5. CASE ForceAuthentication(t)
    BY <1>3, <1>5, DestroyedType DEF ForceAuthentication
  <1>6. CASE ValidateWithCAS(t)
    <2>1. PICK new \in NewIds :
             /\ sessions' = [id \in DOMAIN sessions \cup {new} |->
                               IF id = new THEN now + Hour ELSE sessions[id]]
             /\ Answer(t, "again", new)
      BY <1>6 DEF ValidateWithCAS
    <2>2. new \in Ids /\ new \in 0 .. Keep
      BY <2>1, ArithmeticTypes DEF NewIds, Ids, Keep, Inv
    <2>3. now + Hour \in now + 1 .. now + Hour
      BY <1>2
    <2>4. UNCHANGED <<now, role, lastHad, restarts, printed, cookie, page>>
      BY <1>6 DEF ValidateWithCAS
    <2> QED
      BY <1>1, <1>2, <2>1, <2>2, <2>3, <2>4, NginxAnswers
  <1>7. CASE ValidationFails(t)
    BY <1>3, <1>7, DestroyedType DEF ValidationFails
  <1>8. CASE SaveFails(t)
    BY <1>3, <1>8, DestroyedType DEF SaveFails
  <1>9. CASE DestroySession(t)
    <2>1. /\ sessions' = [id \in DOMAIN sessions \ {request[t].cookie} |-> sessions[id]]
          /\ Answer(t, "bye", 0)
          /\ UNCHANGED <<now, role, lastHad, restarts, printed, cookie, page>>
      BY <1>9 DEF DestroySession
    <2> QED
      BY <1>1, <1>2, <2>1, DestroyedType, NginxAnswers
  <1> QED
    BY <1>4, <1>5, <1>6, <1>7, <1>8, <1>9 DEF Nginx

LEMMA ReceiveStep ==
    ASSUME Inv, NEW t \in Tabs, Receive(t)
    PROVE  Inv'
  <1>1. request[t] # None /\ request[t].answer # Waiting /\ request[t] \in Request
    BY DEF Inv, TypeOK, Receive, Arrives, Waiting
  <1>2. Sendable(None)
    BY DEF Sendable
  <1>3. PICK p \in Page : Showable(p) /\ page' = [page EXCEPT ![t] = p]
    <2>1. CASE /\ Arrives(t, "user")
               /\ page' = [page EXCEPT ![t] = [is |-> "user", role |-> request[t].answer.role,
                                               exp |-> request[t].answer.exp]]
      <3>1. Granted(request[t].answer) /\ request[t].answer.exp \in Nat
        BY <1>1, <2>1 DEF Inv, Arrives, Answered, Request
      <3>2. Showable([is |-> "user", role |-> request[t].answer.role, exp |-> request[t].answer.exp])
        BY <3>1 DEF Showable, Page, Granted
      <3> QED
        BY <2>1, <3>2 DEF Showable
    <2>2. CASE \E is \in {"stranger", "error", "cas", "out"} :
                  page' = [page EXCEPT ![t] = [is |-> is]]
      <3>1. PICK is \in {"stranger", "error", "cas", "out"} :
               page' = [page EXCEPT ![t] = [is |-> is]]
        BY <2>2
      <3>2. Showable([is |-> is])
        BY DEF Showable, Page
      <3> QED
        BY <3>1, <3>2 DEF Showable
    <2> QED
      BY <2>1, <2>2 DEF Receive
  <1>4. NewCookie(t) \in 0 .. MaxSessions
    BY <1>1, CookieType
  <1>5. /\ request' = [request EXCEPT ![t] = None] /\ cookie' = NewCookie(t)
        /\ UNCHANGED <<now, role, lastHad, sessions, restarts, printed>>
    BY DEF Receive
  <1>6. /\ DOMAIN sessions' \subseteq Ids
        /\ \A id \in DOMAIN sessions' : sessions'[id] \in now + 1 .. now + Hour
    BY <1>5, Unchanged
  <1>7. cookie' \in 0 .. MaxSessions
    BY <1>4, <1>5
  <1> QED
    BY <1>2, <1>3, <1>5, <1>6, <1>7, TabStep

LEMMA FollowStep ==
    ASSUME Inv, NEW t \in Tabs, Follow(t)
    PROVE  Inv'
  <1>1. request[t] # None /\ request[t].answer # Waiting /\ request[t] \in Request
    <2>1. request[t] # None /\ request[t].answer.is \in {"home", "again"}
      BY DEF Follow, Arrives
    <2>2. Waiting.is = "waiting"
      BY DEF Waiting
    <2> QED
      BY <2>1, <2>2 DEF Inv, TypeOK
  <1>2. NewCookie(t) \in 0 .. MaxSessions /\ cookie' = NewCookie(t)
    BY <1>1, CookieType DEF Follow
  <1>3. UNCHANGED <<now, role, lastHad, sessions, restarts, printed>>
    BY DEF Follow
  <1>4. CASE /\ request' = [request EXCEPT ![t] = Send("me", NewCookie(t), FALSE)]
             /\ page' = [page EXCEPT ![t] = [is |-> "loading"]]
    <2>1. Showable([is |-> "loading"])
      BY DEF Showable, Page
    <2>2. Sendable(Send("me", NewCookie(t), FALSE))
      BY <1>2, SendSendable
    <2> QED
      BY <1>2, <1>3, <1>4, <2>1, <2>2, Unchanged, TabStep
  <1>5. CASE /\ request' = [request EXCEPT ![t] = Send("login", NewCookie(t), FALSE)]
             /\ UNCHANGED page
    <2>1. Sendable(Send("login", NewCookie(t), FALSE))
      BY <1>2, SendSendable
    <2> QED
      BY <1>2, <1>3, <1>5, <2>1, Unchanged, TabStep
  <1> QED
    BY <1>4, <1>5 DEF Follow

-----------------------------------------------------------------------------
(* The theorems.                                                           *)

LEMMA InvStep == Inv /\ [Next]_vars => Inv'
  <1> SUFFICES ASSUME Inv, [Next]_vars PROVE Inv'
    OBVIOUS
  <1>1. CASE Tick
    BY <1>1, TickStep
  <1>2. CASE Restart
    BY <1>2, RestartStep
  <1>3. ASSUME NEW r \in Roles \cup {"none"}, SetRole(r) PROVE Inv'
    BY <1>3, SetRoleStep
  <1>4. ASSUME NEW skew \in -MaxSkew .. MaxSkew, PrintToken(skew) PROVE Inv'
    BY <1>4, PrintTokenStep
  <1>5. ASSUME NEW t \in Tabs, Person(t) \/ Nginx(t) \/ Receive(t) \/ Follow(t) PROVE Inv'
    BY <1>5, PersonStep, NginxStep, ReceiveStep, FollowStep
  <1>6. CASE UNCHANGED vars
    <2>1. TypeOK'
      BY <1>6 DEF vars, Inv, TypeOK
    <2> QED
      BY <1>6, <2>1, QuietStep DEF vars
  <1> QED
    BY <1>1, <1>2, <1>3, <1>4, <1>5, <1>6 DEF Next

LEMMA InitInv == Init => Inv
  <1> SUFFICES ASSUME Init PROVE Inv
    OBVIOUS
  <1>1. Hour \in Nat \ {0} /\ MaxTime \in Nat /\ MaxSessions \in Nat /\ MaxRestarts \in Nat
    BY SessionsAssumption
  <1>2. lastHad \in [Roles -> -Hour - 1 .. MaxTime] /\ \A r \in Roles : lastHad[r] <= now
    BY <1>1 DEF Init
  <1>3. sessions = [id \in {} |-> 0] /\ DOMAIN sessions = {}
    BY DEF Init
  <1>4. request \in [Tabs -> Request \cup {None}] /\ page \in [Tabs -> Page]
    BY DEF Init, Page
  <1>5. TypeOK
    BY <1>1, <1>2, <1>3, <1>4 DEF Init, TypeOK
  <1>6. /\ role \in Roles => lastHad[role] = now
        /\ \A t \in Tabs : page[t].is # "user" /\ ~ Answered(t, "user")
    BY DEF Init, Answered
  <1> QED
    BY <1>2, <1>5, <1>6 DEF Inv

\* Roles, sessions, cookies, requests and pages keep their types.
THEOREM TypeCorrect == Spec => []TypeOK
  <1>1. Inv => TypeOK
    BY DEF Inv
  <1> QED
    BY <1>1, InitInv, InvStep, PTL DEF Spec

\* However often faculty change a role, however long an answer of nginx is
\* delayed and whatever the cookies of the tabs, no page holds a valid token for
\* a role that its user has not had within the lifetime of tokens.
THEOREM RoleLimited == Spec => []RoleOfTheHour
  <1>1. ASSUME Inv PROVE RoleOfTheHour
    <2> SUFFICES ASSUME NEW t \in Tabs, page[t].is = "user", now < page[t].exp
                 PROVE  now - lastHad[page[t].role] <= Hour
      BY DEF RoleOfTheHour
    <2>1. Granted(page[t]) /\ page[t].exp \in Nat
      BY <1>1 DEF Inv, TypeOK, Page
    <2>2. now \in Nat /\ Hour \in Nat /\ lastHad[page[t].role] \in Int
      BY <1>1, <2>1, ArithmeticTypes DEF Inv, Granted
    <2> QED
      BY <2>1, <2>2 DEF Granted
  <1>2. Inv => RoleOfTheHour
    BY <1>1
  <1> QED
    BY <1>2, InitInv, InvStep, PTL DEF Spec

-----------------------------------------------------------------------------
(* The cookie.                                                             *)

\* An answer of nginx either keeps the cookie, or nginx holds no session of the
\* cookie it was sent.
LEMMA NginxCookie ==
    ASSUME TypeOK, NEW t \in Tabs, Nginx(t)
    PROVE  request'[t].answer.set # Keep => request'[t].cookie \notin DOMAIN sessions'
  <1>1. request[t] \in Request /\ request \in [Tabs -> Request \cup {None}] /\ MaxSessions \in Nat
    BY SessionsAssumption DEF TypeOK, None, Nginx, GetMe, ForceAuthentication, ValidateWithCAS,
       ValidationFails, SaveFails, DestroySession, Served
  <1>2. ASSUME NEW answer, request' = [request EXCEPT ![t].answer = answer]
        PROVE  request'[t].cookie = request[t].cookie /\ request'[t].answer = answer
    BY <1>1, <1>2 DEF Request
  <1>3. ASSUME NEW is, NEW set, Answer(t, is, set), set # Keep => request[t].cookie \notin DOMAIN sessions'
        PROVE  request'[t].answer.set # Keep => request'[t].cookie \notin DOMAIN sessions'
    <2>1. request'[t].cookie = request[t].cookie /\ request'[t].answer.set = set
      BY <1>2, <1>3 DEF Answer
    <2> QED
      BY <1>3, <2>1 DEF Live
  <1>4. CASE GetMe(t)
    <2>1. CASE Live(request[t].cookie)
      <3>1. CASE Answer(t, "forbidden", Keep)
        BY <1>3, <3>1
      <3>2. CASE request' = [request EXCEPT ![t].answer =
                    [is |-> "user", set |-> Keep, role |-> role, exp |-> now + Hour]]
        BY <1>2, <3>2
      <3> QED
        BY <1>4, <2>1, <3>1, <3>2 DEF GetMe
    <2>2. CASE ~Live(request[t].cookie)
      BY <1>3, <1>4, <2>2 DEF GetMe, Live
    <2> QED
      BY <2>1, <2>2
  <1>5. CASE ForceAuthentication(t) \/ ValidationFails(t) \/ SaveFails(t)
    BY <1>3, <1>5 DEF ForceAuthentication, ValidationFails, SaveFails, Live
  <1>6. CASE ValidateWithCAS(t)
    BY <1>1, <1>3, <1>6 DEF ValidateWithCAS, Live, NewIds, None, Request
  <1>7. CASE DestroySession(t)
    BY <1>3, <1>7 DEF DestroySession, Live
  <1> QED
    BY <1>4, <1>5, <1>6, <1>7 DEF Nginx

\* Nobody makes a session for a cookie that a request carries.
LEMMA SessionsOnlyEnd ==
    ASSUME TypeOK, [Next]_vars, NEW u \in Tabs, request[u] # None, ~Live(request[u].cookie)
    PROVE  request[u].cookie \notin DOMAIN sessions'
  <1>1. ASSUME NEW t \in Tabs, ValidateWithCAS(t)
        PROVE  request[u].cookie \notin DOMAIN sessions'
    BY <1>1 DEF ValidateWithCAS, NewIds, Live
  <1>2. ASSUME NEW t \in Tabs, Nginx(t)
        PROVE  request[u].cookie \notin DOMAIN sessions'
    BY <1>1, <1>2 DEF Nginx, GetMe, ForceAuthentication, ValidationFails, SaveFails,
       DestroySession, Live
  <1>3. CASE Tick
    BY <1>3 DEF Tick, Live
  <1>4. ASSUME NEW t \in Tabs, Person(t) \/ Receive(t) \/ Follow(t)
        PROVE  UNCHANGED sessions
    BY <1>4 DEF Person, Open, Login, CasReturns, Logout, Receive, Follow
  <1> QED
    BY <1>2, <1>3, <1>4 DEF Next, vars, Restart, SetRole, PrintToken, Live

LEMMA CookieStep ==
    ASSUME TypeOK, OwnSessionKept, [Next]_vars
    PROVE  OwnSessionKept'
  <1> SUFFICES ASSUME NEW t \in Tabs, request'[t] # None, request'[t].answer # Waiting,
                      request'[t].answer.set # Keep
               PROVE  request'[t].cookie \notin DOMAIN sessions'
    BY DEF OwnSessionKept, Keep, Live
  <1>1. request \in [Tabs -> Request \cup {None}]
    BY DEF TypeOK
  <1>2. CASE Nginx(t)
    BY <1>2, NginxCookie
  <1>3. CASE Person(t) \/ Receive(t) \/ Follow(t)
    BY <1>1, <1>3 DEF Person, Open, Login, CasReturns, Logout, Receive, Follow, Send
  <1>4. CASE request'[t] = request[t]
    BY <1>4, SessionsOnlyEnd DEF OwnSessionKept, Live
  <1>5. ASSUME NEW u \in Tabs, u # t, Person(u) \/ Nginx(u) \/ Receive(u) \/ Follow(u)
        PROVE  request'[t] = request[t]
    BY <1>1, <1>5 DEF Person, Open, Login, CasReturns, Logout, Receive, Follow, Nginx, GetMe,
       ForceAuthentication, ValidateWithCAS, ValidationFails, SaveFails, DestroySession, Answer
  <1> QED
    BY <1>2, <1>3, <1>4, <1>5 DEF Next, vars, Tick, Restart, SetRole, PrintToken

\* In a browser with any number of tabs, an answer that sets or clears the cookie
\* was given to a request whose session nginx does not hold, though sessions end
\* and begin while it is under way: what was sent with the cookie of a session
\* never ends that login.
THEOREM LoginKept == Spec => []OwnSessionKept
  <1>1. Init => OwnSessionKept
    BY DEF Init, OwnSessionKept
  <1>2. TypeOK /\ OwnSessionKept /\ [Next]_vars => OwnSessionKept'
    BY CookieStep
  <1> QED
    BY <1>1, <1>2, TypeCorrect, PTL DEF Spec
-----------------------------------------------------------------------------
(* Grading.                                                                *)

\* The questions of a quiz with options, and the options of one.
Asked(q)    == {QuestionOf[o] : o \in OptionsOf(q)}
Group(q, k) == {o \in OptionsOf(q) : QuestionOf[o] = k}

AtWork  == {"get_quiz", "get_submissions", "get_answers", "upsert_grade"}
Current == Head(quizIds)
Pair    == <<Head(todo), Current>>

\* A quiz comes up once, and what is read of it is there while it does.
InTurn ==
    /\ pc \in AtWork => quizIds # <<>>
    /\ pc \in {"get_answers", "upsert_grade"} => todo # <<>>
    /\ pc = "upsert_grade" => points.den > 0
    /\ \A i, j \in DOMAIN quizIds : i # j => quizIds[i] # quizIds[j]
    /\ \A i \in DOMAIN quizIds : quizIds[i] \notin done

\* The points possible are as they were read, unless that is noted.
PossibleRead ==
    pc \in AtWork \ {"get_quiz"} /\ quiz # possible[Current] => OfQuiz(Current) \subseteq touched

\* A submission of the current quiz is graded already or still to be graded.
LeftOver ==
    pc \in {"get_answers", "upsert_grade"} =>
        \A p \in submissions :
            p[2] = Current /\ p \notin touched => Right(p) \/ \E i \in DOMAIN todo : todo[i] = p[1]

\* The points about to be written are what the answers are worth.
PointsRight == pc = "upsert_grade" /\ Pair \notin touched => points = Worth(Pair)

GradeInv ==
    /\ GradingTypeOK /\ InTurn
    /\ PossibleRead /\ LeftOver /\ PointsRight /\ GradedRight

-----------------------------------------------------------------------------
(* Rows and groups.                                                        *)

\* A sequence of all members of a set has each of them once.
LEMMA RowsOfSet ==
    ASSUME NEW S, IsFiniteSet(S), NEW f \in SetToSeqs(S)
    PROVE  /\ f \in Seq(S) /\ DOMAIN f = 1 .. Len(f)
           /\ \A i, j \in DOMAIN f : i # j => f[i] # f[j]
           /\ \A x \in S : \E i \in DOMAIN f : f[i] = x
  <1> DEFINE n == Cardinality(S)
             R == {f[i] : i \in 1 .. n}
  <1>1. n \in Nat
    BY FS_CardinalityType
  <1>2. f \in [1 .. n -> S] /\ \A i, j \in 1 .. n : i # j => f[i] # f[j]
    BY DEF SetToSeqs
  <1>3. f \in Seq(S) /\ Len(f) = n
    BY <1>1, <1>2
  <1>4. IsFiniteSet(1 .. n) /\ Cardinality(1 .. n) = n
    BY <1>1, FS_Interval
  <1>5. f \in Injection(1 .. n, S)
    BY <1>2 DEF Injection, IsInjective
  <1>6. f \in Surjection(1 .. n, S)
    BY <1>4, <1>5, FS_Injection
  <1> QED
    BY <1>2, <1>3, <1>6 DEF Surjection

\* The rows of a question follow each other, so that groupby makes a group of
\* the options of each question.
LEMMA GroupsAreQuestions ==
    ASSUME NEW s, NEW q, NEW rows \in GetAnswers(s, q)
    PROVE  GroupBy(rows) = {Group(q, k) : k \in Asked(q)}
  <1> DEFINE Q(i)      == QuestionOf[rows[i]]
             Run(i)    == {j \in DOMAIN rows : i <= j /\ \A k \in i .. j : Q(i) = Q(k)}
             Begins(i) == i = 1 \/ ~ (Q(i - 1) = Q(i))
  <1>1. IsFiniteSet(OptionsOf(q))
    BY FS_Subset, GradingAssumption DEF OptionsOf
  <1>2. /\ rows \in Seq(OptionsOf(q)) /\ DOMAIN rows = 1 .. Len(rows)
        /\ \A x \in OptionsOf(q) : \E i \in DOMAIN rows : rows[i] = x
    BY <1>1, RowsOfSet DEF GetAnswers
  <1>3. Len(rows) \in Nat /\ \A i \in DOMAIN rows : i \in Nat /\ i >= 1 /\ rows[i] \in OptionsOf(q)
    BY <1>2
  <1>4. \A i, j, k \in DOMAIN rows : i < j /\ j < k /\ Q(i) = Q(k) => Q(j) = Q(i)
    BY DEF GetAnswers
  <1>5. GroupBy(rows) = {{rows[j] : j \in Run(i)} : i \in {i \in DOMAIN rows : Begins(i)}}
    BY DEF GroupBy
  <1>6. ASSUME NEW i \in DOMAIN rows, Begins(i)
        PROVE  {rows[j] : j \in Run(i)} = Group(q, Q(i))
    <2>1. ASSUME NEW j \in Run(i) PROVE rows[j] \in Group(q, Q(i))
      BY <1>2, <1>3, <2>1 DEF Group
    <2>2. ASSUME NEW o \in Group(q, Q(i)) PROVE \E j \in Run(i) : rows[j] = o
      <3>1. PICK j \in DOMAIN rows : rows[j] = o
        BY <1>2, <2>2 DEF Group
      <3>2. Q(j) = Q(i)
        BY <2>2, <3>1 DEF Group
      <3>3. i <= j
        <4> SUFFICES ASSUME j < i PROVE FALSE
          BY <1>3
        <4>1. i # 1 /\ i - 1 \in DOMAIN rows /\ j <= i - 1 /\ i - 1 < i
          BY <1>2, <1>3
        <4>2. Q(i - 1) = Q(i)
          <5>1. CASE j = i - 1
            BY <3>2, <5>1
          <5>2. CASE j # i - 1
            <6>1. j < i - 1
              BY <1>3, <4>1, <5>2
            <6> QED
              BY <1>4, <3>2, <4>1, <6>1
          <5> QED
            BY <5>1, <5>2
        <4> QED
          BY <1>6, <4>1, <4>2
      <3>4. ASSUME NEW k \in i .. j PROVE Q(i) = Q(k)
        <4>1. k \in DOMAIN rows /\ (k = i \/ k = j \/ (i < k /\ k < j))
          BY <1>2, <1>3
        <4> QED
          BY <1>4, <3>2, <4>1
      <3> QED
        BY <3>1, <3>3, <3>4
    <2> QED
      BY <2>1, <2>2
  <1>7. ASSUME NEW k \in Asked(q)
        PROVE  \E i \in DOMAIN rows : Begins(i) /\ Q(i) = k
    <2> DEFINE P == {i \in DOMAIN rows : Q(i) = k}
    <2>1. P # {}
      BY <1>2, <1>7 DEF Asked
    <2>2. PICK m \in P : \A i \in P : ~ (i < m)
      <3>1. P \subseteq Nat
        BY <1>3
      <3>2. PICK m \in P : \A i \in P : ~ (<<i, m>> \in OpToRel(<, Nat))
        BY <2>1, <3>1, WFMin, NatLessThanWellFounded
      <3>3. \A i \in P : i < m => <<i, m>> \in OpToRel(<, Nat)
        BY <3>1 DEF OpToRel
      <3> QED
        BY <3>2, <3>3
    <2>3. Begins(m)
      <3> SUFFICES ASSUME m # 1, Q(m - 1) = Q(m) PROVE FALSE
        OBVIOUS
      <3>1. m - 1 \in DOMAIN rows /\ m - 1 < m
        BY <1>2, <1>3, <2>2
      <3> QED
        BY <2>2, <3>1
    <2> QED
      BY <2>2, <2>3
  <1>8. \A i \in DOMAIN rows : Q(i) \in Asked(q)
    BY <1>3 DEF Asked
  <1>9. ASSUME NEW i \in DOMAIN rows, Begins(i)
        PROVE  {rows[j] : j \in Run(i)} \in {Group(q, k) : k \in Asked(q)}
    BY <1>6, <1>8, <1>9
  <1>10. ASSUME NEW k \in Asked(q)
         PROVE  Group(q, k) \in {{rows[j] : j \in Run(i)} : i \in {i \in DOMAIN rows : Begins(i)}}
    <2>1. PICK i \in DOMAIN rows : Begins(i) /\ Q(i) = k
      BY <1>7
    <2> QED
      BY <1>6, <2>1
  <1> HIDE DEF Run, Begins
  <1> QED
    BY <1>5, <1>9, <1>10

\* There are as many groups as questions.
LEMMA GroupsCounted ==
    ASSUME NEW q, NEW S \in SUBSET Asked(q)
    PROVE  /\ Cardinality(S) \in Nat /\ (Cardinality(S) = 0 => S = {})
           /\ Cardinality({Group(q, k) : k \in S}) = Cardinality(S)
  <1> DEFINE ask == [o \in OptionsOf(q) |-> QuestionOf[o]]
             G   == {Group(q, k) : k \in S}
             f   == [k \in S |-> Group(q, k)]
  <1>1. IsFiniteSet(OptionsOf(q))
    BY FS_Subset, GradingAssumption DEF OptionsOf
  <1>2. ask \in Surjection(OptionsOf(q), Asked(q))
    BY DEF Surjection, Asked
  <1> HIDE DEF ask
  <1>3. IsFiniteSet(S)
    BY <1>1, <1>2, FS_Surjection, FS_Subset
  <1>4. \A j, k \in S : Group(q, j) = Group(q, k) => j = k
    BY DEF Asked, Group
  <1>5. f \in [S -> G] /\ (\A j, k \in S : f[j] = f[k] => j = k) /\ \A g \in G : \E k \in S : f[k] = g
    BY <1>4
  <1> HIDE DEF f, G
  <1>6. f \in Bijection(S, G)
    BY <1>5 DEF Bijection, Injection, Surjection, IsInjective
  <1>7. Cardinality(G) = Cardinality(S)
    BY <1>3, <1>6, FS_Bijection DEF ExistsBijection
  <1> QED
    BY <1>3, <1>7, FS_CardinalityType, FS_EmptySet DEF G

\* What grade_submission counts is what the answers are worth, given that the
\* points possible are as they were read.
LEMMA CountedIsWorth ==
    ASSUME NEW s, NEW q, NEW rows \in GetAnswers(s, q),
           NEW groups, groups = GroupBy(rows),
           NEW right, right = {g \in groups : \A o \in g : ChoseCorrectly(s, o)}
    PROVE  /\ Cardinality(right) \in Nat /\ Cardinality(groups) \in Nat
           /\ groups # {} => Cardinality(groups) > 0
           /\ Worth(<<s, q>>) =
                 [num |-> possible[q] * Cardinality(right), den |-> Cardinality(groups)]
  <1> DEFINE K == {k \in Asked(q) : \A o \in Options : QuestionOf[o] = k => ChoseCorrectly(s, o)}
  <1>1. groups = {Group(q, k) : k \in Asked(q)}
    BY GroupsAreQuestions
  <1>2. ASSUME NEW k \in Asked(q)
        PROVE  (\A o \in Group(q, k) : ChoseCorrectly(s, o)) <=> k \in K
    BY DEF Group, Asked, OptionsOf
  <1>3. right = {Group(q, k) : k \in K}
    BY <1>1, <1>2
  <1>4. K \in SUBSET Asked(q)
    OBVIOUS
  <1>5. /\ Cardinality(right) = Cardinality(K) /\ Cardinality(groups) = Cardinality(Asked(q))
        /\ Cardinality(right) \in Nat /\ Cardinality(groups) \in Nat
        /\ Cardinality(groups) = 0 => Asked(q) = {}
    <2> HIDE DEF K
    <2>1. \A S \in SUBSET Asked(q) :
             Cardinality(S) \in Nat /\ Cardinality({Group(q, k) : k \in S}) = Cardinality(S)
      BY GroupsCounted
    <2>2. Cardinality(K) \in Nat /\ Cardinality(right) = Cardinality(K)
      BY <1>3, <1>4, <2>1
    <2>3. Asked(q) \in SUBSET Asked(q)
      OBVIOUS
    <2>4. /\ Cardinality(Asked(q)) \in Nat /\ (Cardinality(Asked(q)) = 0 => Asked(q) = {})
          /\ Cardinality(groups) = Cardinality(Asked(q))
      BY <1>1, <2>3, GroupsCounted
    <2> QED
      BY <2>2, <2>4
  <1>6. Worth(<<s, q>>) = [num |-> possible[q] * Cardinality(K), den |-> Cardinality(Asked(q))]
    BY DEF Worth, Asked
  <1> HIDE DEF K
  <1>7. groups # {} => Cardinality(groups) > 0
    BY <1>1, <1>5
  <1> QED
    BY <1>5, <1>6, <1>7

\* What answers are worth depends on them, on the correct options of their quiz
\* and on its points only.
LEMMA WorthKept ==
    ASSUME NEW p, possible'[p[2]] = possible[p[2]],
           \A o \in OptionsOf(p[2]) : ChoseCorrectly(p[1], o)' <=> ChoseCorrectly(p[1], o)
    PROVE  Worth(p)' = Worth(p)
  <1> DEFINE asked == {QuestionOf[o] : o \in OptionsOf(p[2])}
             right == {k \in asked : \A o \in Options : QuestionOf[o] = k => ChoseCorrectly(p[1], o)}
  <1>1. \A o \in Options : QuestionOf[o] \in asked => o \in OptionsOf(p[2])
    BY DEF OptionsOf
  <1>2. right' = right
    BY <1>1
  <1> QED
    BY <1>2 DEF Worth

\* A change of the tables or the clock that is noted where it matters.
LEMMA NotedKeeps ==
    ASSUME GradeInv, GradingTypeOK', UNCHANGED <<graderVars, grades>>,
           submissions' \subseteq submissions \cup touched', touched \subseteq touched',
           \A q \in Quizzes : possible'[q] # possible[q] => OfQuiz(q) \subseteq touched',
           \A p \in Pairs \ touched' : Worth(p)' = Worth(p)
    PROVE  GradeInv'
  <1>1. UNCHANGED <<pc, quizIds, quiz, todo, points, done, grades>>
    BY DEF graderVars
  <1>2. InTurn'
    BY <1>1 DEF GradeInv, InTurn
  <1>3. pc \in AtWork => Current' = Current /\ Current \in Quizzes
    BY <1>1 DEF Current, GradeInv, GradingTypeOK, InTurn
  <1>4. PossibleRead'
    BY <1>1, <1>3 DEF GradeInv, PossibleRead, OfQuiz, AtWork
  <1>5. \A p \in submissions' \ touched' : p \in submissions /\ p \notin touched /\ (Right(p) => Right(p)')
    BY <1>1 DEF Right, GradeInv, GradingTypeOK
  <1>6. LeftOver'
    BY <1>1, <1>3, <1>5 DEF GradeInv, LeftOver, AtWork
  <1>7. PointsRight'
    <2> SUFFICES ASSUME pc = "upsert_grade", Pair \notin touched' PROVE points = Worth(Pair)'
      BY <1>1, <1>3 DEF PointsRight, AtWork, Pair
    <2>1. Pair \in Pairs \ touched'
      BY <1>3 DEF GradeInv, GradingTypeOK, InTurn, Pairs, Pair, AtWork
    <2>2. Pair \notin touched
      OBVIOUS
    <2>3. Pair' = Pair
      BY <1>1, <1>3 DEF Pair, AtWork
    <2> QED
      BY <2>1, <2>2, <2>3 DEF GradeInv, PointsRight
  <1>8. GradedRight'
    BY <1>1, <1>5 DEF GradeInv, GradedRight
  <1> QED
    BY <1>2, <1>4, <1>6, <1>7, <1>8 DEF GradeInv
-----------------------------------------------------------------------------
(* Students, faculty and the clock.                                        *)

LEMMA ClockKeeps ==
    ASSUME GradeInv, Clock
    PROVE  GradeInv'
  <1>1. /\ closed' \subseteq Quizzes /\ answering' \subseteq Pairs
        /\ UNCHANGED <<possible, correct, submissions, answers, grades, graderVars, touched, edits>>
    BY DEF Clock, QuizCloses, ExtensionEnds, GradeInv, GradingTypeOK
  <1>2. GradingTypeOK'
    BY <1>1 DEF GradeInv, GradingTypeOK, graderVars
  <1>3. ASSUME NEW p \in Pairs \ touched' PROVE Worth(p)' = Worth(p)
    BY <1>1, WorthKept DEF ChoseCorrectly
  <1> QED
    BY <1>1, <1>2, <1>3, NotedKeeps

LEMMA BeginKeeps ==
    ASSUME GradeInv, NEW s \in Students, NEW q \in Quizzes, BeginQuiz(s, q)
    PROVE  GradeInv'
  <1>1. /\ submissions' = submissions \cup {<<s, q>>}
        /\ touched' = touched \cup {<<s, q>>} /\ <<s, q>> \in Pairs
        /\ UNCHANGED <<closed, answering, possible, correct, answers, grades, graderVars>>
        /\ edits' \in 0 .. MaxEdits
    BY GradingAssumption DEF BeginQuiz, Edit, GradeInv, GradingTypeOK, Pairs
  <1>2. GradingTypeOK'
    BY <1>1 DEF GradeInv, GradingTypeOK, graderVars
  <1>3. ASSUME NEW p \in Pairs \ touched' PROVE Worth(p)' = Worth(p)
    BY <1>1, WorthKept DEF ChoseCorrectly
  <1> QED
    BY <1>1, <1>2, <1>3, NotedKeeps

LEMMA SaveKeeps ==
    ASSUME GradeInv,
           NEW s \in Students, NEW q \in Quizzes, NEW selected \in SUBSET OptionsOf(q),
           Save(s, q, selected)
    PROVE  GradeInv'
  <1>1. /\ answers' = (answers \ ({s} \X OptionsOf(q))) \cup ({s} \X selected)
        /\ touched' = touched \cup {<<s, q>>} /\ <<s, q>> \in Pairs
        /\ UNCHANGED <<closed, answering, possible, correct, submissions, grades, graderVars>>
        /\ edits' \in 0 .. MaxEdits
    BY GradingAssumption DEF Save, Edit, GradeInv, GradingTypeOK, Pairs
  <1>2. answers' \subseteq Students \X Options
    BY <1>1 DEF GradeInv, GradingTypeOK, OptionsOf
  <1>3. GradingTypeOK'
    BY <1>1, <1>2 DEF GradeInv, GradingTypeOK, graderVars
  <1>4. ASSUME NEW p \in Pairs \ touched' PROVE Worth(p)' = Worth(p)
    <2>1. p[1] # s \/ p[2] # q
      BY <1>1 DEF Pairs
    <2>2. p[2] # q => \A o \in OptionsOf(p[2]) : o \notin OptionsOf(q)
      BY DEF OptionsOf
    <2>3. \A o \in OptionsOf(p[2]) : <<p[1], o>> \in answers' <=> <<p[1], o>> \in answers
      BY <1>1, <2>1, <2>2
    <2> QED
      BY <1>1, <2>3, WorthKept DEF ChoseCorrectly
  <1> QED
    BY <1>1, <1>3, <1>4, NotedKeeps

LEMMA CorrectKeeps ==
    ASSUME GradeInv, NEW x \in Options, CorrectOption(x)
    PROVE  GradeInv'
  <1> DEFINE q == QuizOf[QuestionOf[x]]
  <1>1. /\ correct' \subseteq Options /\ \A o \in Options \ {x} : o \in correct' <=> o \in correct
        /\ touched' = touched \cup OfQuiz(q) /\ OfQuiz(q) \subseteq Pairs
        /\ UNCHANGED <<closed, answering, possible, submissions, answers, grades, graderVars>>
        /\ edits' \in 0 .. MaxEdits
    BY GradingAssumption DEF CorrectOption, Edit, GradeInv, GradingTypeOK, Pairs, OfQuiz
  <1>2. GradingTypeOK'
    BY <1>1 DEF GradeInv, GradingTypeOK, graderVars
  <1>3. ASSUME NEW p \in Pairs \ touched' PROVE Worth(p)' = Worth(p)
    <2>1. p[2] # q
      BY <1>1 DEF Pairs, OfQuiz
    <2>2. \A o \in OptionsOf(p[2]) : o \in correct' <=> o \in correct
      BY <1>1, <2>1 DEF OptionsOf
    <2> QED
      BY <1>1, <2>2, WorthKept DEF ChoseCorrectly
  <1> QED
    BY <1>1, <1>2, <1>3, NotedKeeps

LEMMA PossibleKeeps ==
    ASSUME GradeInv, NEW q \in Quizzes, NEW n \in 0 .. MaxPoints,
           SetPointsPossible(q, n)
    PROVE  GradeInv'
  <1>1. /\ possible' = [possible EXCEPT ![q] = n]
        /\ \A p \in DOMAIN grades \cap OfQuiz(q) : grades[p].num <= n * grades[p].den
        /\ touched' = touched \cup OfQuiz(q) /\ OfQuiz(q) \subseteq Pairs
        /\ UNCHANGED <<closed, answering, correct, submissions, answers, grades, graderVars>>
        /\ edits' \in 0 .. MaxEdits
    BY GradingAssumption DEF SetPointsPossible, Edit, GradeInv, GradingTypeOK, Pairs, OfQuiz
  <1>2. /\ possible' \in [Quizzes -> 0 .. MaxPoints]
        /\ possible'[q] = n /\ \A r \in Quizzes \ {q} : possible'[r] = possible[r]
    BY <1>1 DEF GradeInv, GradingTypeOK
  <1>3. ASSUME NEW p \in DOMAIN grades
        PROVE  grades[p].den > 0 /\ grades[p].num <= possible'[p[2]] * grades[p].den
    <2>1. p \in Pairs /\ grades[p].den > 0 /\ grades[p].num <= possible[p[2]] * grades[p].den
      BY DEF GradeInv, GradingTypeOK
    <2>2. p[2] = q => p \in OfQuiz(q)
      BY <2>1 DEF Pairs, OfQuiz
    <2>3. p[2] \in Quizzes
      BY <2>1 DEF Pairs
    <2> QED
      BY <1>1, <1>2, <2>1, <2>2, <2>3
  <1>4. GradingTypeOK'
    BY <1>1, <1>2, <1>3 DEF GradeInv, GradingTypeOK, graderVars
  <1>5. ASSUME NEW p \in Pairs \ touched' PROVE Worth(p)' = Worth(p)
    <2>1. p[2] # q /\ p[2] \in Quizzes
      BY <1>1 DEF Pairs, OfQuiz
    <2> QED
      BY <1>1, <1>2, <2>1, WorthKept DEF ChoseCorrectly
  <1>6. \A r \in Quizzes : possible'[r] # possible[r] => OfQuiz(r) \subseteq touched'
    BY <1>1, <1>2
  <1> QED
    BY <1>1, <1>4, <1>5, <1>6, NotedKeeps

LEMMA DeleteKeeps ==
    ASSUME GradeInv, NEW s \in Students, NEW q \in Quizzes,
           DeleteSubmission(s, q)
    PROVE  GradeInv'
  <1>1. /\ submissions' = submissions \ {<<s, q>>} /\ <<s, q>> \notin DOMAIN grades
        /\ touched' = touched \cup {<<s, q>>} /\ <<s, q>> \in Pairs
        /\ UNCHANGED <<closed, answering, possible, correct, answers, grades, graderVars>>
        /\ edits' \in 0 .. MaxEdits
    BY GradingAssumption DEF DeleteSubmission, Edit, GradeInv, GradingTypeOK, Pairs
  <1>2. GradingTypeOK'
    BY <1>1 DEF GradeInv, GradingTypeOK, graderVars
  <1>3. ASSUME NEW p \in Pairs \ touched' PROVE Worth(p)' = Worth(p)
    BY <1>1, WorthKept DEF ChoseCorrectly
  <1> QED
    BY <1>1, <1>2, <1>3, NotedKeeps
-----------------------------------------------------------------------------
(* The command.                                                            *)

\* The elements of the tail of a sequence.
LEMMA TailOf ==
    ASSUME NEW S, NEW f \in Seq(S), f # <<>>
    PROVE  /\ Head(f) \in S /\ Head(f) = f[1] /\ 1 \in DOMAIN f
           /\ Tail(f) \in Seq(S)
           /\ \A i \in DOMAIN Tail(f) : i + 1 \in DOMAIN f /\ i + 1 # 1 /\ Tail(f)[i] = f[i + 1]
           /\ \A i \in DOMAIN f : i # 1 => i - 1 \in DOMAIN Tail(f) /\ f[i] = Tail(f)[i - 1]
  OBVIOUS

\* When the loops go on, the grades that were right still being so, and those of
\* the current quiz being right but for the students left.
LEMMA LoopKeeps ==
    ASSUME GradeInv, pc \in {"get_submissions", "upsert_grade"},
           NEW left \in Seq(Students), NextSubmission(left),
           UNCHANGED <<dbVars, quiz, points, touched, edits>>,
           DOMAIN grades' \subseteq submissions,
           \A p \in DOMAIN grades' :
              grades'[p].den > 0 /\ grades'[p].num <= possible[p[2]] * grades'[p].den,
           \A p \in submissions \ touched :
              p[2] # Current /\ Right(p) => Right(p)',
           \A p \in submissions \ touched :
              p[2] = Current => Right(p)' \/ \E i \in DOMAIN left : left[i] = p[1]
    PROVE  GradeInv'
  <1>1. /\ UNCHANGED <<closed, answering, possible, correct, submissions, answers, quiz, points,
                       touched, edits>>
        /\ todo' = left
    BY DEF dbVars, NextSubmission
  <1>2. /\ GradingTypeOK /\ InTurn /\ quizIds \in Seq(Quizzes) /\ quizIds # <<>>
        /\ Current \in Quizzes /\ Current = quizIds[1] /\ 1 \in DOMAIN quizIds /\ Current \notin done
    <2>1. GradingTypeOK /\ InTurn /\ quizIds \in Seq(Quizzes) /\ quizIds # <<>>
      BY DEF GradeInv, GradingTypeOK, InTurn, AtWork
    <2>2. Current \in Quizzes /\ Current = quizIds[1] /\ 1 \in DOMAIN quizIds
      BY <2>1, TailOf DEF Current
    <2> QED
      BY <2>1, <2>2 DEF InTurn
  <1>3. CASE left # <<>>
    <2>1. pc' = "get_answers" /\ UNCHANGED <<quizIds, done>> /\ Current' = Current
      BY <1>3 DEF NextSubmission, Current
    <2>2. GradingTypeOK'
      BY <1>1, <2>1 DEF GradeInv, GradingTypeOK
    <2>3. InTurn'
      BY <1>1, <1>2, <1>3, <2>1 DEF InTurn
    <2>4. PossibleRead' /\ LeftOver' /\ PointsRight'
      BY <1>1, <2>1 DEF GradeInv, PossibleRead, LeftOver, PointsRight, OfQuiz, AtWork
    <2>5. GradedRight'
      BY <1>1, <1>2, <2>1 DEF GradeInv, GradedRight
    <2> QED
      BY <2>2, <2>3, <2>4, <2>5 DEF GradeInv
  <1>4. CASE left = <<>>
    <2>1. /\ quizIds' = Tail(quizIds) /\ done' = done \cup {Current}
          /\ pc' = IF Tail(quizIds) = <<>> THEN "ended" ELSE "get_quiz"
      BY <1>4 DEF NextSubmission, Current
    <2>2. /\ Tail(quizIds) \in Seq(Quizzes)
          /\ \A i \in DOMAIN Tail(quizIds) :
                i + 1 \in DOMAIN quizIds /\ i + 1 # 1 /\ Tail(quizIds)[i] = quizIds[i + 1]
          /\ DOMAIN Tail(quizIds) \subseteq Nat
      BY <1>2, TailOf
    <2>3. GradingTypeOK'
      BY <1>1, <1>2, <2>1, <2>2 DEF GradingTypeOK
    <2>4. InTurn'
      <3>1. \A i, j \in DOMAIN Tail(quizIds) : i # j => Tail(quizIds)[i] # Tail(quizIds)[j]
        BY <1>2, <2>2 DEF InTurn
      <3>2. \A i \in DOMAIN Tail(quizIds) : Tail(quizIds)[i] \notin done'
        BY <1>2, <2>1, <2>2 DEF InTurn
      <3> QED
        BY <2>1, <3>1, <3>2 DEF InTurn, AtWork
    <2>5. PossibleRead' /\ LeftOver' /\ PointsRight'
      BY <2>1 DEF PossibleRead, LeftOver, PointsRight, AtWork
    <2>6. DOMAIN left = {}
      BY <1>4
    <2>7. GradedRight'
      BY <1>1, <1>2, <2>1, <2>6 DEF GradeInv, GradedRight
    <2> QED
      BY <2>3, <2>4, <2>5, <2>7 DEF GradeInv
  <1> QED
    BY <1>3, <1>4

\* The submissions, in any order, are left to be graded.
LEMMA SubmissionsKeep ==
    ASSUME GradeInv, GetSubmissions
    PROVE  GradeInv'
  <1> DEFINE S == {s \in Students : <<s, Current>> \in submissions}
  <1>1. PICK left \in SetToSeqs(S) : NextSubmission(left)
    BY DEF GetSubmissions, Current
  <1>2. IsFiniteSet(S)
    BY FS_Subset, GradingAssumption
  <1>3. left \in Seq(S) /\ \A s \in S : \E i \in DOMAIN left : left[i] = s
    <2> HIDE DEF S
    <2> QED
      BY <1>2, RowsOfSet
  <1>4. left \in Seq(Students)
    <2>1. S \subseteq Students
      OBVIOUS
    <2> HIDE DEF S
    <2> QED
      BY <1>3, <2>1
  <1>5. /\ pc = "get_submissions" /\ UNCHANGED <<dbVars, grades, quiz, points, touched, edits>>
    BY DEF GetSubmissions
  <1>6. ASSUME NEW p \in submissions \ touched
        PROVE  /\ Right(p) => Right(p)'
               /\ p[2] = Current => \E i \in DOMAIN left : left[i] = p[1]
    <2>1. p[2] = Current => p[1] \in S
      BY DEF GradeInv, GradingTypeOK, Pairs
    <2> QED
      BY <1>3, <1>5, <2>1 DEF Right, Worth, ChoseCorrectly, dbVars
  <1>7. /\ DOMAIN grades' \subseteq submissions
        /\ \A p \in DOMAIN grades' :
              grades'[p].den > 0 /\ grades'[p].num <= possible[p[2]] * grades'[p].den
    BY <1>5 DEF GradeInv, GradingTypeOK
  <1> QED
    BY <1>1, <1>4, <1>5, <1>6, <1>7, LoopKeeps

\* The points are what the answers that were read are worth.
LEMMA PointsKeep ==
    ASSUME GradeInv, GradeSubmission
    PROVE  GradeInv'
  <1>1. /\ pc = "get_answers"
        /\ UNCHANGED <<closed, answering, possible, correct, submissions, answers, grades,
                       quizIds, quiz, todo, done, touched, edits>>
    BY DEF GradeSubmission, dbVars
  <1>2. Current \in Quizzes /\ Head(todo) \in Students /\ Pair \in OfQuiz(Current) /\ quiz \in Nat
        /\ quizIds # <<>> /\ todo # <<>> /\ GradingTypeOK /\ InTurn
    <2>1. GradingTypeOK /\ InTurn /\ quizIds # <<>> /\ todo # <<>> /\ quiz \in Nat
      BY <1>1, GradingAssumption DEF GradeInv, GradingTypeOK, InTurn, AtWork
    <2> QED
      BY <2>1, TailOf DEF GradingTypeOK, Current, Pair, OfQuiz
  <1>3. Current' = Current /\ Pair' = Pair
    BY <1>1 DEF Current, Pair
  <1>4. PICK rows \in GetAnswers(Head(todo), Current) :
            LET groups == GroupBy(rows)
                right  == {g \in groups : \A o \in g : ChoseCorrectly(Head(todo), o)}
            IN  IF groups = {}
                THEN pc' = "raised" /\ UNCHANGED points
                ELSE /\ points' = [num |-> quiz * Cardinality(right), den |-> Cardinality(groups)]
                     /\ pc' = "upsert_grade"
    BY DEF GradeSubmission, Current
  <1> DEFINE groups == GroupBy(rows)
             right  == {g \in groups : \A o \in g : ChoseCorrectly(Head(todo), o)}
  <1>5. /\ Cardinality(right) \in Nat /\ Cardinality(groups) \in Nat
        /\ groups # {} => Cardinality(groups) > 0
        /\ Worth(Pair) = [num |-> possible[Current] * Cardinality(right), den |-> Cardinality(groups)]
    BY CountedIsWorth DEF Pair
  <1>6. \/ pc' = "raised" /\ points' = points
        \/ /\ pc' = "upsert_grade"
           /\ points' = [num |-> quiz * Cardinality(right), den |-> Cardinality(groups)]
           /\ Cardinality(groups) > 0
    BY <1>4, <1>5
  <1> HIDE DEF groups, right
  <1>7. points' \in [num : Nat, den : Nat] /\ (pc' = "upsert_grade" => points'.den > 0)
    <2>1. quiz * Cardinality(right) \in Nat
      BY <1>2, <1>5
    <2> QED
      BY <1>2, <1>5, <1>6, <2>1 DEF GradingTypeOK
  <1>8. GradingTypeOK'
    BY <1>1, <1>2, <1>6, <1>7 DEF GradingTypeOK
  <1>9. InTurn'
    BY <1>1, <1>2, <1>7 DEF InTurn
  <1>10. \A p : Right(p)' <=> Right(p)
    BY <1>1 DEF Right, Worth, ChoseCorrectly
  <1>11. PossibleRead' /\ LeftOver' /\ GradedRight'
    BY <1>1, <1>3, <1>6, <1>10 DEF GradeInv, PossibleRead, LeftOver, GradedRight, OfQuiz, AtWork
  <1>12. PointsRight'
    <2> SUFFICES ASSUME pc' = "upsert_grade", Pair \notin touched
                 PROVE  points' = Worth(Pair)'
      BY <1>1, <1>3 DEF PointsRight
    <2>1. quiz = possible[Current]
      BY <1>1, <1>2 DEF GradeInv, PossibleRead, AtWork
    <2>2. points' = Worth(Pair)
      BY <1>5, <1>6, <2>1
    <2>3. Worth(Pair)' = Worth(Pair)
      BY <1>1, <1>3 DEF Worth, ChoseCorrectly
    <2> QED
      BY <2>2, <2>3
  <1> QED
    BY <1>8, <1>9, <1>11, <1>12 DEF GradeInv

\* A grade is written, or refused and the command ends.
LEMMA UpsertKeeps ==
    ASSUME GradeInv, UpsertGrade
    PROVE  GradeInv'
  <1>1. /\ pc = "upsert_grade" /\ UNCHANGED <<dbVars, quiz, points, touched, edits>>
        /\ UNCHANGED <<closed, answering, possible, correct, submissions, answers>>
    BY DEF UpsertGrade, dbVars
  <1>2. GradingTypeOK /\ InTurn /\ todo # <<>> /\ todo \in Seq(Students) /\ quizIds # <<>>
        /\ points.den > 0 /\ Pair[2] = Current /\ Pair[1] = Head(todo)
    BY <1>1 DEF GradeInv, GradingTypeOK, InTurn, Pair, AtWork
  <1>3. CASE /\ Pair \in submissions /\ points.num <= possible[Current] * points.den
             /\ grades' = [x \in DOMAIN grades \cup {Pair} |-> IF x = Pair THEN points ELSE grades[x]]
             /\ NextSubmission(Tail(todo))
    <2>1. /\ Tail(todo) \in Seq(Students) /\ Head(todo) = todo[1]
          /\ \A i \in DOMAIN todo : i # 1 => i - 1 \in DOMAIN Tail(todo) /\ todo[i] = Tail(todo)[i - 1]
      BY <1>2, TailOf
    <2>2. DOMAIN grades' \subseteq submissions
      BY <1>2, <1>3 DEF GradingTypeOK
    <2>3. ASSUME NEW p \in DOMAIN grades'
          PROVE  grades'[p].den > 0 /\ grades'[p].num <= possible[p[2]] * grades'[p].den
      <3>1. CASE p = Pair
        BY <1>2, <1>3, <3>1
      <3>2. CASE p # Pair
        BY <1>2, <1>3, <2>3, <3>2 DEF GradingTypeOK
      <3> QED
        BY <3>1, <3>2
    <2>4. \A p : Worth(p)' = Worth(p)
      BY <1>1 DEF Worth, ChoseCorrectly
    <2>5. \A p : p # Pair /\ Right(p) => Right(p)'
      BY <1>3, <2>4 DEF Right
    <2>6. Pair \notin touched => Pair \in DOMAIN grades' /\ grades'[Pair] = Worth(Pair)
      BY <1>1, <1>3 DEF GradeInv, PointsRight
    <2>7. ASSUME NEW p \in submissions \ touched
          PROVE  /\ p[2] # Current /\ Right(p) => Right(p)'
                 /\ p[2] = Current => Right(p)' \/ \E i \in DOMAIN Tail(todo) : Tail(todo)[i] = p[1]
      <3>1. CASE p = Pair
        BY <2>4, <2>6, <2>7, <3>1 DEF Right
      <3>2. CASE p # Pair
        <4>1. p[2] = Current => p[1] # todo[1]
          <5>1. p \in Pairs
            BY <1>2, <2>7 DEF GradingTypeOK
          <5> QED
            BY <2>1, <3>2, <5>1 DEF Pair, Pairs
        <4>2. p[2] = Current => Right(p) \/ \E i \in DOMAIN todo : todo[i] = p[1]
          BY <1>1, <2>7 DEF GradeInv, LeftOver
        <4>3. (\E i \in DOMAIN todo : todo[i] = p[1]) /\ p[2] = Current
                 => \E i \in DOMAIN Tail(todo) : Tail(todo)[i] = p[1]
          BY <2>1, <4>1
        <4> QED
          BY <2>5, <3>2, <4>2, <4>3
      <3> QED
        BY <3>1, <3>2
    <2> QED
      BY <1>1, <1>3, <2>1, <2>2, <2>3, <2>7, LoopKeeps
  <1>4. CASE pc' = "raised" /\ UNCHANGED <<grades, todo, quizIds, done>>
    <2>1. GradingTypeOK' /\ InTurn'
      BY <1>1, <1>2, <1>4 DEF GradingTypeOK, InTurn, AtWork
    <2>2. PossibleRead' /\ LeftOver' /\ PointsRight'
      BY <1>4 DEF PossibleRead, LeftOver, PointsRight, AtWork
    <2>3. GradedRight'
      BY <1>1, <1>4 DEF GradeInv, GradedRight, Right, Worth, ChoseCorrectly
    <2> QED
      BY <2>1, <2>2, <2>3 DEF GradeInv
  <1>5. Pair[2] = Current
    BY DEF Pair
  <1> QED
    BY <1>3, <1>4, <1>5 DEF UpsertGrade, Pair, Current

\* A quiz is read when none of what is done is of it.
LEMMA QuizKeeps ==
    ASSUME GradeInv, GetQuiz
    PROVE  GradeInv'
  <1>1. /\ pc = "get_quiz" /\ quiz' = possible[Current] /\ pc' = "get_submissions"
        /\ touched' = touched \ OfQuiz(Current)
        /\ UNCHANGED <<closed, answering, possible, correct, submissions, answers, grades,
                       quizIds, todo, points, done, edits>>
    BY DEF GetQuiz, dbVars, Current
  <1>2. /\ GradingTypeOK /\ InTurn /\ quizIds # <<>> /\ Current \in Quizzes
        /\ Current \notin done
    <2>1. GradingTypeOK /\ InTurn /\ quizIds # <<>>
      BY <1>1 DEF GradeInv, InTurn, AtWork
    <2> QED
      BY <2>1, TailOf DEF GradingTypeOK, InTurn, Current
  <1>3. GradingTypeOK' /\ InTurn'
    BY <1>1, <1>2 DEF GradingTypeOK, InTurn, AtWork
  <1>4. PossibleRead' /\ LeftOver' /\ PointsRight'
    BY <1>1 DEF PossibleRead, LeftOver, PointsRight, Current
  <1>5. GradedRight'
    <2> SUFFICES ASSUME NEW p \in submissions, p[2] \in done, p \notin touched'
                 PROVE  Right(p)'
      BY <1>1 DEF GradedRight
    <2>1. p \notin OfQuiz(Current)
      BY <1>2 DEF OfQuiz
    <2>2. Right(p)
      BY <1>1, <2>1 DEF GradeInv, GradedRight
    <2> QED
      BY <1>1, <2>2 DEF Right, Worth, ChoseCorrectly
  <1> QED
    BY <1>3, <1>4, <1>5 DEF GradeInv

\* A run begins with every quiz that is closed, each once.
LEMMA RunKeeps ==
    ASSUME GradeInv, GetGradableQuizIds
    PROVE  GradeInv'
  <1>1. /\ quizIds' \in SetToSeqs(closed \ Drafts) /\ done' = {} /\ touched' = {}
        /\ pc' = IF quizIds' = <<>> THEN "ended" ELSE "get_quiz"
        /\ UNCHANGED <<closed, answering, possible, correct, submissions, answers, grades,
                       quiz, todo, points, edits>>
    BY DEF GetGradableQuizIds, dbVars
  <1>2. IsFiniteSet(closed \ Drafts) /\ closed \ Drafts \subseteq Quizzes
    BY FS_Subset, GradingAssumption DEF GradeInv, GradingTypeOK
  <1>3. /\ quizIds' \in Seq(closed \ Drafts)
        /\ \A i, j \in DOMAIN quizIds' : i # j => quizIds'[i] # quizIds'[j]
    BY <1>1, <1>2, RowsOfSet
  <1>4. quizIds' \in Seq(Quizzes)
    BY <1>2, <1>3
  <1>5. GradingTypeOK'
    BY <1>1, <1>4 DEF GradeInv, GradingTypeOK
  <1>6. InTurn' /\ PossibleRead' /\ LeftOver' /\ PointsRight' /\ GradedRight'
    BY <1>1, <1>3 DEF InTurn, PossibleRead, LeftOver, PointsRight, GradedRight, AtWork
  <1> QED
    BY <1>5, <1>6 DEF GradeInv

-----------------------------------------------------------------------------

LEMMA InitGrade == GradingInit => GradeInv
  <1> SUFFICES ASSUME GradingInit PROVE GradeInv
    OBVIOUS
  <1>1. GradingTypeOK
    BY GradingAssumption DEF GradingInit, GradingTypeOK, NoPoints
  <1> QED
    BY <1>1 DEF GradingInit, GradeInv, InTurn, PossibleRead, LeftOver, PointsRight, GradedRight, AtWork

LEMMA NextGrade == GradeInv /\ [GradingNext]_gradingVars => GradeInv'
  <1> SUFFICES ASSUME GradeInv, [GradingNext]_gradingVars PROVE GradeInv'
    OBVIOUS
  <1>1. CASE Grader
    BY <1>1, RunKeeps, QuizKeeps, SubmissionsKeep, PointsKeep, UpsertKeeps DEF Grader
  <1>2. CASE Clock
    BY <1>2, ClockKeeps
  <1>3. CASE StudentsAct
    BY <1>3, BeginKeeps, SaveKeeps DEF StudentsAct
  <1>4. CASE FacultyAct
    BY <1>4, CorrectKeeps, PossibleKeeps, DeleteKeeps DEF FacultyAct
  <1>5. CASE UNCHANGED gradingVars
    <2>1. UNCHANGED <<closed, answering, possible, correct, submissions, answers, grades,
                      graderVars, touched, edits>>
      BY <1>5 DEF gradingVars, dbVars
    <2>2. GradingTypeOK'
      BY <2>1 DEF GradeInv, GradingTypeOK, graderVars
    <2>3. ASSUME NEW p \in Pairs \ touched' PROVE Worth(p)' = Worth(p)
      BY <2>1, WorthKept DEF ChoseCorrectly
    <2> QED
      BY <2>1, <2>2, <2>3, NotedKeeps
  <1> QED
    BY <1>1, <1>2, <1>3, <1>4, <1>5 DEF GradingNext

LEMMA GradeInvariant == GradingSpec => []GradeInv
  <1>1. GradingInit => GradeInv
    BY InitGrade
  <1>2. GradeInv /\ [GradingNext]_gradingVars => GradeInv'
    BY NextGrade
  <1> QED
    BY <1>1, <1>2, PTL DEF GradingSpec

\* The tables and the command's variables keep their types; every grade is of a
\* submission and no higher than its quiz allows.
THEOREM GradingTypeCorrect == GradingSpec => []GradingTypeOK
  <1>1. GradeInv => GradingTypeOK
    BY DEF GradeInv
  <1> QED
    BY <1>1, GradeInvariant, PTL

\* A submission whose quiz has been graded has the grade its answers are worth,
\* unless it or its quiz has changed since the quiz was begun.
THEOREM GradeIsRight == GradingSpec => []GradedRight
  <1>1. GradeInv => GradedRight
    BY DEF GradeInv
  <1> QED
    BY <1>1, GradeInvariant, PTL
-----------------------------------------------------------------------------
(* Side by side.                                                           *)

\* What the server does is, of each part by itself, what that part does or
\* nothing: every safety property of one holds of it beside the others.
THEOREM ServerParts == ServerSpec => Spec /\ GradingSpec /\ KeepAliveSpec
  <1>1. ServerInit => Init /\ GradingInit /\ KeepAliveInit
    BY DEF ServerInit
  <1>2. [ServerNext]_all => [Next]_vars
    BY DEF ServerNext, all
  <1>3. [ServerNext]_all => [GradingNext]_gradingVars
    BY DEF ServerNext, all
  <1>4. [ServerNext]_all => [KeepAliveNext]_keepAliveVars
    BY DEF ServerNext, all
  <1> QED
    BY <1>1, <1>2, <1>3, <1>4, PTL DEF ServerSpec, Spec, GradingSpec, KeepAliveSpec

\* All parts keep their types.
THEOREM ServerTypeCorrect == ServerSpec => []ServerTypeOK
  <1>1. TypeOK /\ GradingTypeOK /\ KeepAliveTypeOK => ServerTypeOK
    BY DEF ServerTypeOK
  <1> QED
    BY <1>1, ServerParts, TypeCorrect, GradingTypeCorrect, TimerCorrect, PTL
=============================================================================
