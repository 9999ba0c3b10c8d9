# A verification project for Yelukerest

Yelukerest runs a course: students take quizzes, hand in assignments and show
up to meetings; faculty set these up and grade them. This directory holds TLA+
modules translated from the code under `src/`, the TLC configurations that
check them on small instances, and proofs, checked by TLAPS, of theorems that
hold for every instance. `PROJECT.json` maps every definition to the lines it
stands for and lists the runs, mutants, theorems, hazards and findings.

## The system

| part | state it keeps | operations | talks to | what is hard | modules |
|---|---|---|---|---|---|
| **Quiz tables and policies** (`db/src/{data,api,authorization}/yeluke/quiz*.sql`) | rows of quiz, exception, submission, answer | start, save, insert and delete answers; faculty edits | PostgREST runs each request in a transaction | row-level policies over time, overlapping transactions, keys, deadlocks | `QuizTaking`, `AnswerSheet` |
| **Assignment tables and policies** (`assignment*.sql`) | assignments, submissions (of a user or a team), field submissions, exceptions | begin, write fields; faculty edits | as above | two members of a team at once; a field's pattern that changes, and cascades, while it is written to | `Assignments` |
| **Row events** (`db/src/libs/rabbitmq`) | none: a trigger notifies, a bridge publishes | `on_row_change` | PostgreSQL, bridge, RabbitMQ, SSE | events lost on the way, data read later than the event | `EngagementSync` |
| **SSE service** (`sse/src/*.go`) | the broker's map of clients, a channel per connection, a queue at RabbitMQ | join, leave, broadcast, tick, read, reconnect | RabbitMQ, browsers | goroutines that wait for each other on unbuffered channels; lost connections; a timer | `SseBroker`, `EventFeed`, `SseKeepAlive`, `LiveUpdates` |
| **Web client: events and engagements** (`elmclient/src/elm/SSE.elm`, `Engagements/*`, `static/*.js`) | decoders, EventSources, fetched tables, pending saves | listen, fetch, save | SSE service, PostgREST | two sides of a port with different beliefs; answers that overtake each other | `EventPorts`, `EngagementSync`, `LiveUpdates` |
| **Web client: quizzes** (`Quizzes/*`) | what was fetched, pending requests, ticked options | begin, open, tick, save, and every response | PostgREST | answers late, lost or out of order that overwrite | `QuizPage` |
| **Web client: assignments** (`Assignments/*`) | the list of submissions, inputs, pending requests | begin, type, save, and every response | PostgREST | the same | `AssignmentPage` |
| **Build of the web client** (`elmclient/webpack.config.js`, `run.sh`, nginx's `elmclient.conf`) | files in a volume | start, watch, write, stop | nginx serves the volume | stops in the middle of a build, edits during one, files written in any order | `ClientBuild` |
| **Login, sessions, tokens** (`openresty/lualib/user_code`, `db/src/libs/auth`, `bin/_jwt.js`) | sessions, cookie, JWT of an hour | CAS ticket, session, JWT, logout | CAS, PostgREST | one-time tickets, late answers that set cookies, tokens that outlive a role, clocks | `Sessions` |
| **Grading** (`pythonclient/models/quiz.py`) | grades, committed one by one | `grade_quizzes` | PostgreSQL directly | reads and writes in different transactions, extensions, a failure half way | `Grading` |
| Administration client, grades and snapshots, migrations, deployment, backup, vendored code | | | | see "Not modelled" | |

How they interact: the browser's page sends requests through nginx, which adds
the user's token, to PostgREST, which runs each in one transaction under the
role of the token; so every write of a student meets the policies of
`QuizTaking` and `Assignments`. A change of an engagement is announced by a
trigger, a bridge, RabbitMQ and the SSE service to every page that listens, and
each page answers with a fetch of the whole table. Grading and the other
commands of faculty go to the database beside all this.

What makes each part correct:

- *Quizzes*: answers are committed only if sent while the quiz was open to the
  student; the `created_at` she sends gains her no time; a save replaces the answers as a
  whole or not at all; keys hold and requests end however they overlap.
- *Assignments*: one submission per team or student; requests end; what is
  written matches the field's pattern, also after the pattern changes.
- *SSE*: every subscriber gets every event after its subscription once and in
  order; the process does not panic, leak connections or hang; no connection is
  silent for long.
- *Row events and engagements*: a page is out of date only while something is
  still under way, or by a loss that can be named.
- *Pages*: what is marked as saved is saved; what is shown as under way waits
  for a request; the save button of a quiz, and the begin button of an
  assignment, come back. (The begin button of a quiz need not; see
  "Disagreements".)
- *Build*: what was built is what is served.
- *Login*: whoever follows the redirections arrives; no answer touches the
  cookie of a request that had a valid session; a token acts in a role its
  user had within the hour.
- *Grading*: a grade is worth what the answers are, at the latest when the
  command is run after the last extension.

## The modules

| module | what it is |
|---|---|
| `QuizTaking` | quiz rows, policies, and the requests of students and faculty, down to the row locks of each statement |
| `AnswerSheet` | abstract: answers change request by request |
| `Assignments` | assignment rows, policies, the requests that begin and write, and changes of patterns with their cascades, row by row |
| `SseBroker` | the goroutines of the SSE service and its RabbitMQ queue |
| `EventFeed` | abstract: a feed with subscribers |
| `SseKeepAlive` | the broker's loop in time: its timer and the silence of a connection |
| `EventPorts` | SSE.elm, the JavaScript behind its ports, and EventSources |
| `EngagementSync` | extends `EventPorts`: from a row change to the page that shows it |
| `QuizPage`, `AssignmentPage` | one tab of the web client, with its requests and responses |
| `ClientBuild` | webpack's output and what nginx serves of it |
| `Sessions` | login, cookie, tokens |
| `Grading` | `grade_quizzes` among students and faculty |
| `MCQuizTaking`, `MCAssignments`, `MCQuizPage` | small instances for TLC |
| `WebClient` | `ClientBuild`, `EventPorts`, `QuizPage` and `AssignmentPage`, which share no state, put side by side; `MCWebClient` is a small instance |
| `LiveUpdates` | the same of `SseBroker` and `EngagementSync`; `MCLiveUpdates` is a small instance |
| `Server` | the same of `Sessions`, `Grading` and `SseKeepAlive`; `MCServer` is a small instance |
| `*Proofs` | theorems; see "The proofs" |

`WebClient`, `LiveUpdates` and `Server` put independent parts side by side. A behaviour
picks one of them (`part`) at the start and moves only that one: as they share
no variable, every property of one part has the behaviours it would have alone,
and TLC does not multiply their states.

### QuizTaking

`quiz`, `exc`, `sub` and `ans` are the tables `data.quiz`,
`data.quiz_grade_exception`, `data.quiz_submission` and `data.quiz_answer`,
reduced to the columns that decide anything: dates, duration, draft flag,
`created_at`, keys. `now` is the clock. Timestamps are natural numbers and keep
the code's strict comparisons, so the boundary where two are equal is reached.

PostgREST runs a request as one transaction on one of its connections, at
PostgreSQL's default READ COMMITTED. A request that writes answers has a
state of its own per connection: `req[c]` (with `start`, the transaction's
`current_timestamp`), `phase[c]`, the rows it has still to touch (`todo[c]`),
and those it has deleted (`del[c]`) and inserted (`new[c]`), which others
cannot see and must wait for. `save_quiz` is `BeginSave`, then `DeleteStart`,
`DeleteRow`, `DeleteEnd`, `InsertStart`, `InsertRow`, `InsertEnd` and `Commit`;
`POST` and `DELETE` on the view take the same path with nothing to delete or
insert. Rows are visited in any order, as no order is promised. A refused
policy, a duplicate key, a missing reference, a deadlock, or a failure at any
point (`Cancel`) rolls back. What PostgreSQL does is external and is modelled
from how the code relies on it: a DELETE waits for a row another transaction
has deleted and skips it when that one commits; an INSERT waits for whoever
holds its key; a foreign key is checked when the statement ends and locks the
submission until commit; the deadlock detector ends one of a cycle.

Starting a quiz, and faculty's edits of dates, exceptions and submissions, are
one row in one statement and one step.

The policy on answers is modelled as PostgreSQL reads it: in

    SELECT ... FROM api.quiz_submissions_info as qsi
    WHERE (qsi.quiz_id = quiz_id AND qsi.is_open AND qsi.user_id = user_id)

the unqualified names belong to `qsi` (the dump in
`db/migrations/deploy/ddl.sql` shows `qsi.quiz_id = qsi.quiz_id`), so
`MayAnswer` asks for any open submission of the student.

`began[q][u]` is history: when the student really started the quiz, or the start
faculty gave her. The column `created_at` (`sub`), from which the view counts the
duration, is one a student may send herself.

### Assignments

`subs` is `data.assignment_submission` by owner (a student, or the team of an
assignment with `is_team`), `fields` is `data.assignment_field_submission` with
the copy of the pattern each row carries, `pattern` the committed
`data.assignment_field`. `tx[c]` is the transaction on a connection: it begins
an assignment, writes fields (`POST` with merge-duplicates) or updates fields
(faculty, or `update_assignments` of the Python client).

A write goes row by row, in the order of the field slugs, as the page sends them.
`FillDefaults` is the BEFORE trigger, which is VOLATILE and so reads the
submission and the pattern as they are by then; `UpsertRow` takes the row's lock;
`CheckReference` is the foreign key on field and pattern, which reads afresh and
takes a key-share lock on the field. An update goes through the fields it lists:
`update_assignments` upserts each one, changed or not, with its key among the
columns it sets, and so locks it until commit against the shares of writers
(`KeyLocks`); faculty's PATCH locks a field whose pattern it changes.
`UpdateField` waits for those who hold the field (`Holders`), and when the pattern
is another cascades row by row, with the CHECK of pattern against body. The policy
is asked once, by the statement's snapshot (`SendBegin`, `SendWrite`). Deadlocks
are detected, and any transaction may be cancelled.

### SseBroker

A channel of Go without a buffer makes a send and its receive one step: `Join`
is `newClients <-` with its receive, `Leave` that of `defunctClients` with the
`close`, `Send` that of one client, `Take` that of `messages`. `pc` says
whether the broker is in its `select` or in `SendMessage`; `handler[c]` and
`notifier[c]` where the two goroutines of a connection are (`ServeHTTP`,
`Notice`); `mailbox` is the queue at RabbitMQ, `hand` the message its reader
blocks on. A client is a browser tab, which connects again
when its handler has returned, with a new channel. `log`, `since` and `got` are
history. `MessagesEnd` is the loss of the connection, with the exclusive queue, and until
`GetMessages` has made another row changes (`RowChangeQueued`) go nowhere.

### SseKeepAlive

`timer` is the age of the `time.After` of the loop's current turn; every turn
makes a new one. `quiet[c]` is how long a client has been sent nothing,
`churn[c]` how many clients have come or gone meanwhile.

### EventPorts and EngagementSync

`decoders` and `untyped` are what SSE.elm believes; `commands` the port commands
of the last update, carried out before the next; `sources` the EventSources of
`elm-ports.js`, with their listeners, state and events on the wire. The calls
of SSE.elm that a program makes are a constant: the client calls `withListener`
only (`Engagements/Update.elm:142`); `web_client` lets a program call all five.
`removeListenerJS` and `deleteEventSourceJS` have no subscriber in
`elm-ports.js`, so `CarryOut` of these does nothing.

`EngagementSync` adds the tables (`db`, a number of changes each), the bridge,
the service's queue and the page: `OnFetchCurrentUser` starts the first fetches
and the subscription in one update, `OnSSETableChange` fetches the whole table,
`OnFetch` replaces what is shown by whatever arrives, `OnChangeEngagement` and
the rest save. The EventSource reconnects without a fetch, and gives up for good
on an HTTP error; a fetch that fails is never retried.

`Faults` names what can be lost: what the bridge holds, the service's queue, an
answer, the order of answers; events on the wire of a lost connection always
can. `forgotten` is the history of tables that such a loss has hit with no
later read to make up for it, so that `NothingForgotten` says: a page that is out
of date is being told, is fetching, or has been hit by a loss the model names.
A broadcast that finds no open connection counts among the losses: so is a change
between the first fetch's read and the opening of the connection (see below).

### QuizPage and AssignmentPage

The fields of the Elm model that decide anything, one action per message and
response; up to `Slots` requests are in flight, carried out and answered in any
order, each able to fail before or after it took effect (`Fails`). `toggled` is
history. `Patient` students open a quiz only when nothing of it is in flight
and begin one only when none is being begun (`QuizPage`; what is in flight for
different quizzes still overlaps), or wait for the answer
to one form before they send the next (`AssignmentPage`); with `Patient` false
several properties fail: run `quiz_lists` and "Disagreements".

A begin that fails counts as answered in `QuizPage` (`pendingBegin` is a
failure), but the view keeps "Begin quiz" disabled for every outcome
(`Meetings/Views.elm:239`), so no property says that it comes back.

### ClientBuild

Files are names with the version they were built from. `Assets` is what webpack
writes for each environment. The volume outlives the container, but every start
runs `npm run build`, for whose sake npm runs `prebuild`, `rm -rf dist/*`: `Start`
empties it. In watch mode webpack rebuilds without the hook. `Served` is nginx
with `gzip_static`.

### Sessions

A tab follows redirections (`Follow`) through `/auth/login`, CAS and back;
`Nginx(t)` answers its request; the answer may carry a cookie, and arrives when
it does (`Receive`), the cookie with it. `page[t]` holds the token fetched when
the page was loaded, which is never refreshed. Restarts of nginx lose its
store of sessions. `printed` are the tokens of `_jwt.js`, whose time of issue is
taken from a clock that is off by up to `MaxSkew`, less the script's slack. The
skew may exceed the slack: nginx's token is then refused, and with it every
login, until the clock has caught up.

### Grading

Each query of `grade_quizzes` is a transaction of its own: `GetGradableQuizIds`,
`GetQuiz`, `GetSubmissions`, then for each student `GradeSubmission` (which
reads the answers and groups the rows, in the order they come, by question) and
`UpsertGrade`, whose CHECK and trigger may raise and end the command. `groupby`
makes a group of each run of rows with the same question, so a question whose
rows are apart counts once for each run; `GetAnswers` says that the query orders
by question, and the proofs that each question is then one group. In
between students begin quizzes, save while the policy lets them (any open
submission will do), and delete at any time; faculty correct options, change
points and delete submissions. A grade is a fraction, not rounded.

## The runs

| run | expected | what it shows |
|---|---|---|
| `quiz_edits` | pass | with every edit faculty can make, two students on a connection each: `TypeOK`; `AnswersReferenced` (an answer keeps its submission though it can be deleted meanwhile); `SheetSpec` (requests look atomic) |
| `quiz_deadline` | pass | one student on two connections until every deadline is past: `KeysHeld` (primary key under interleaved saves), `AnsweredInTime` (one quiz), `NoExtraTime` (a `created_at` of her choice gains her none), `StartLeavesTime` (whom the policy lets start, the view lets answer, up to the close, the end of the duration and of the extension), `RequestsEnd` |
| `quiz_two` | violation | `AnsweredInTime` fails with two quizzes |
| `quiz_late` | violation | `ClosedQuizKept` fails: answers can be deleted after the deadline |
| `quiz_tabs` | violation | `SaveOverwrites` fails for two saves of one student |
| `assignments` | pass | two students of a team, and faculty, or one student and `update_assignments` on two fields: `TypeOK`, `OneSubmission`, `BodiesMatch`, `RequestsEnd` |
| `live_updates` | pass | service: `NoPanic`, `NoLeak`, `FeedSpec`, `EventTaken`, `ConnectionEnds`; page, with one fault of any kind: `NothingForgotten`, `PageConverges`, `SaveEnds` |
| `web_client` | pass | build: `PageBuilt`, `WatchedServed`; ports: `Heard`; two quizzes in one tab: `LabelsTrue` (what a form marks as saved is), `LoadingAwaited`, `PendingEnds`; assignments: `ExistingShown`, `BeginEnds`; `ClientTypeOK` |
| `quiz_forms` | violation | `SavedChecked` fails with two quizzes |
| `quiz_lists` | violation | `StartedKnown` fails for two begins that overlap |
| `server` | pass | sessions: `RoleOfTheHour`, `OwnSessionKept` (an answer touches the cookie only when its request had no valid session), `LoginEnds`; grading: `GradedRight`, `FinallyRight`; keep-alive: `SilenceBounded` (a connection is silent for one period, and one more for each client that comes or goes); `ServerTypeOK` |
| `two_tabs` | violation | `LoginSticks` fails with two tabs |

Every property of a passing run has a mutant in `PROJECT.json`: a definition
next to the one it stands in for, named after it, with a plausible mistake, for
which TLC finds the property violated.

### Findings

1. **Answers to a closed quiz** (`quiz_two`). A student whose time for one
   quiz is over saves answers to it as long as she has another quiz open.
2. **Removal after the deadline** (`quiz_late`). DELETE is granted and checked
   by `USING` only, so answers can be removed, one by one or by a save without
   options, after the deadline.
3. **Two saves at once** (`quiz_tabs`). The later to commit does not remove what
   the earlier one inserted; the answers are the union of both.
4. **Forms that share their ticks** (`quiz_forms`). The ticked options of all
   quizzes are one set, replaced by the saved answers of the quiz fetched last.
   The form of another quiz, still shown under its own address, then has nothing
   ticked, and submitting it takes its saved answers back.
5. **Lists out of order** (`quiz_lists`). Each begin replaces the list of
   submissions by the one it fetched. When two overlap, the list read first may
   arrive last, and the page says of a quiz that is started, and that it knew as
   started, "You did not yet start the quiz."
6. **A late answer ends another tab's login** (`two_tabs`). The answer to a
   request that came with an expired cookie clears the cookie by name; arriving
   after another tab has logged in, it clears that tab's new one.

### Disagreements without a run of their own

While the other modules were written, the code turned out to disagree with a
comment, doc or test in these places, too. The models contain the behaviour;
the passing runs are of instances in which it does not occur or state what
holds in spite of it. In `src/`:

- *Quizzes, a failed begin*. `Meetings/Views.elm:239-244` disables "Begin quiz"
  while there is any outcome of a begin, a failure included, and shows none of
  them: until the page is loaded again the student can neither retry nor see why.
- *Quizzes, an impatient student* (`Patient` FALSE). `Quizzes/Updates.elm:175`: a
  fetch read before a save and arriving after its response marks answers that are
  no longer saved (`LabelsTrue`). `:85`: the failure of a save replaces the form
  by an HTTP error, and the message of `Quizzes/Views.elm:144` is never shown.
- *Forms, an impatient student*. `Engagements/Update.elm:113`: a fetch of the
  submissions read before a later save or begin may arrive last and stay
  (`ExistingShown`, `BeginEnds`). `:229`: the response to a save empties the
  inputs, with what was typed since.
- *Keep-alive*. `sse/src/broker.go:86`: each client that joins or leaves restarts
  the 30 seconds after which, by the comment, a tick keeps connections alive, so
  that a steady churn puts it off; `SilenceBounded` says by how much.
- *Events*. `Engagements/Update.elm:147`: a change between the first fetch
  and the opening of the connection is neither fetched nor announced.
  `db/src/data/yeluke/engagement.sql:34`: only `engagement` has the trigger; a
  change of `user`, for which the client also listens, is never announced.
  `elm-ports.js:121`: nothing subscribes to the ports that remove listeners and
  close EventSources, which SSE.elm's documentation promises; the client never
  calls them.
- *Sessions*. `authapp.conf:17` sets when a
  session is renewed and not how long it lasts: it ends after the library's
  hour, not the week of the comment. `Auth/Commands.elm:18`: user and token are
  fetched once, and after an hour the page's requests fail, whatever the README
  says of refreshing tokens.
- *Assignments*. The policy for writing fields
  (`authorization/yeluke/assignment_field_submission.sql:101`) does not ask, for
  students with an exception, whether the assignment is a draft. The trigger of
  `data/yeluke/assignment_field_submission.sql:84` runs in cascades, too, so
  that a change of a pattern makes the faculty member the submitter.
- *Grading*. `models/quiz.py:105`: a quiz without options divides by zero, and
  the quizzes after it are not graded.

### Bounds

- Quizzes: two students, connections or options where they interact. A lock
  conflict or deadlock of this code needs two transactions and two rows; the
  safety properties are proved for any number. `quiz_edits` gives each student
  her own connection, the condition under which `SheetSpec` is claimed, and one
  option: what it is about is faculty's edits against requests in progress;
  `quiz_deadline` has both options on two connections of one student.
- `MaxTime` is 1 in `quiz_edits`, where the dates matter only as before and
  after, 3 where the longest extension must end, 4 where a request after the
  close is the point. In `quiz_deadline` a quiz is open from 0 to 2 with a
  duration of 1, and the extension, to 3, outlasts it: students start and send at
  every moment on either side of the close, of the end of the duration and of the
  end of the extension, and at each of them.
- `assignments`: a team of two, two connections, two fields with two bodies and a
  pattern that refuses one of them: enough for two writers of a row, a cascade
  that fails, and an update and a write, or two updates, that wait for each
  other. Requests read the dates once, when they begin, so `MCAssignments` lets a
  behaviour vary either dates and people, with requests for the first field, or
  the rows of both fields, with one student, `update_assignments` and an open
  assignment. The theorems have neither restriction.
- `live_updates`, service: two browsers, two row changes, one tick: a subscriber
  can get messages out of order, twice or not at all with two, and one client can
  join or leave while the broker is between its sends to the other. Page: two
  changes of `engagement`, one of the table without a trigger, all of whose
  changes are alike (`MCLiveSpec`), two events, three fetches in flight (so that
  one is overtaken and one more is under way), one lost connection, one fault of
  any kind. Two faults add no new kind of state to what `forgotten` already
  excuses.
- Keep-alive (in `server`): three connections; `Period` 3 and `MaxChurn` 3 let a
  silence grow to four periods.
- `web_client`: two edits and two stops of the build, with the target chosen anew
  at each start; two event types and all five calls; two quizzes of a question
  and an option each, or one assignment with two texts, and three requests in
  flight: a begin, save or fetch and the two requests that opening a quiz sends,
  so that one quiz is opened while a request of the other is under way. The view
  `Seen` hides the history `toggled`, which no action reads and no property of
  this run mentions.
- `quiz_forms`, `quiz_lists`: two quizzes, one with two options of which one can
  be chosen, the other with one; two and three requests in flight, enough to
  refute.
- `server`: two roles, a life of tokens of two ticks and four ticks of time, so
  that a token and a session expire and are had again, four sessions and one
  restart. `MCServer` gives a behaviour either one tab, while everything changes,
  or two tabs of a student within one life of sessions, without a restart, and
  with a login begun only while nginx holds at most one session (so that an
  identifier is left for it). The token nginx uses is either good at once or,
  `MaxSkew` being more than `Slack`, good only later. The theorems have none of
  these restrictions. Grading: one quiz of two questions, two students of whom
  one has an extension, and two edits by anyone.
- `two_tabs`: the instance of `server`.

### Fairness

- `QuizTaking` and `Assignments`: PostgreSQL runs every transaction that can
  proceed, and its lock queues are first come first served, so one that could
  proceed again and again does. That is strong fairness of `ServeRequest(c)`:
  weak fairness is not enough when other transactions take and release a row.
  No request need be sent, no time need pass, nobody need cancel.
- `SseBroker`: one condition for each goroutine. Go runs every goroutine that can
  run (weak fairness of the broker's sends, of the watcher's notice, of the
  reader's next delivery, and of a handler's write or return), and `select`
  chooses at random among the ready channels, so a connection that waits to join
  or leave, and the message that waits to be taken, which are ready again and
  again, get their turn (strong fairness). A write is fair because a write to a
  dead connection returns with an error; a browser that keeps its connection open
  and never reads stops the broker for as long as TCP tolerates it, and the
  properties are relative to that. `LiveUpdates` has the fairness of both its
  parts.
- `EngagementSync`: the bridge, service, page and network do what they have to
  do (weak fairness of `Deliver`, `Page`, `Answer`, `Save`); nobody need change a
  row or click, and no fault need happen.
- Pages: every request is carried out, or fails, and its response arrives.
- `ClientBuild`: webpack notices an edit and writes its files; nobody need start
  the container.
- `Sessions`: nginx answers, the browser takes the answer and follows a
  redirection (weak); CAS returns and accepts a ticket again and again (strong:
  nginx may be restarted, or fail to save a session, in between, but not every
  time). Nobody need click.
- `Grading`: time passes, and the command takes its steps and is run again.

## The proofs

All from the named assumptions on the constants (`QuizTakingAssumption`,
`NoRequestAssumption`, `SseAssumption`, ...), which TLC evaluates in the runs,
and with every leaf checked. Where a theorem has a further hypothesis it is
named below, with the reason why the theorem is false without it.

`QuizTakingProofs`:

- `TypeCorrect`: `Spec => []TypeOK`.
- `KeysCorrect`: `Spec => []KeysHeld`. `KeysHeld` is not inductive: it does
  not say that a DELETE picks committed rows, nor that a transaction before its
  INSERT has inserted none. `TxInv` adds these, and `KeyInv` is inductive. The
  step that matters is `Commit`: its deleted rows are nobody else's, nor are
  its inserted ones.
- `ReferencesCorrect`: `Spec => []AnswersReferenced`. The strengthening,
  `RefInv`, says that what is about to be committed has its references from the
  end of the INSERT on; the deletion of a submission keeps it because of the
  foreign key's lock.
- `DeadlineEnforced`: `StudentSpec => []AnsweredInTime` where there is only one
  quiz. `PolicyInv` (a request past the policy still satisfies it) is inductive
  while faculty edit nothing. The hypothesis on the quizzes is used once, where
  the submission the policy found must be the request's; run `quiz_two` shows
  that it is needed.
- `AddedInTime`: `StudentSpec => AddedWhileOpen`, with any number of quizzes: an
  answer that comes to be there is of a request of faculty's, or of one the
  student sent while *some* quiz was open to her. That is how much of the
  deadline is left where finding 1 applies.
- `NoTimeGained`: `StudentSpec => []NoExtraTime` where there is only one quiz:
  `ClockInv`, no submission is younger than it says (because of the CHECK that
  `created_at` is not after `updated_at`), and a request past the policy was sent
  within the duration from `created_at`.
- `StartGivesTime`: `Spec => StartLeavesTime`, by arithmetic on the strict and
  non-strict bounds of policy and view.
- `StartedInPast`: `Spec => []StartedByNow`, so that a student's own
  `created_at` does not stretch her time; `TypeOK` makes it inductive.
- `SheetRefined`, `Separate /\ Spec => SheetSpec`: when no two connections
  carry answers of one student, `QuizTaking` implements `AnswerSheet`. `SheetInv`
  says how far each transaction is: in each phase, what it has deleted and has
  still to delete are exactly the answers of its request that are committed
  (`Drop`), and what it has inserted and has still to insert what it wants
  (`Want`). It is kept by the others because what they commit is of other
  students (`OwnRows`). A begin is then `Ask`, a commit `Grant`, a rollback of an
  open transaction `Refuse`, and everything else a stutter. `Separate` is needed:
  run `quiz_tabs` has two connections of one student.
- `SaveReplaces`, `Separate /\ Spec => SaveOverwrites`, from `SheetInv`: a save
  that commits leaves what it was called with and nothing else, under the
  condition that finding 3 violates.

`AssignmentsProofs`, any number of teams, fields and connections. `Inv`: what each
transaction holds (`WriteOK`, `UpdateOK`, `BeginOK`: its new rows match the
patterns it has read or made, what the cascade has done and has still to do
covers every row of the held fields) and that no two hold what excludes each
other (`Apart`: rows, locked fields against shared fields, keys of submissions).

- `SubmissionsUnique`: `Spec => []OneSubmission`.
- `MatchKept`: `Spec => []BodiesMatch`, the commit being the step that matters:
  a write's rows were checked against fields it has locked since, and an
  update's cascade has reached every row it could not have missed.
- `TypeCorrect`.

`SseBrokerProofs`, any number of clients, from `SseAssumption`:

- `TypeCorrect`, `PanicFree`, `LeakFree`, from `MapInv`: the broker sends only
  to clients in its map, whose channels are open, because it takes clients out
  only when it is not sending; and map, handlers and watchers agree.
- `FeedCorrect`: `FeedComplete`, with the bound on `since` that makes it
  inductive (`FeedInv`) and two lemmas on subsequences.
- `FeedRefined`: `BrokerSpec => FeedSpec`, step by step from `ReceivedSoFar`.

`SseKeepAliveProofs`: `TimerCorrect`; `SilenceBound`
(`SilenceBounded`), from `quiet <= churn * Period + timer`.

`EventPortsProofs`, for any event types and any calls: `TypeCorrect`;
`ListenersHeard` and `NeverThrows`, from `Inv`, in which `Stands` says what the
one command that is still to be carried out will add to the sources: before a
source is made there is the one decoder it is made for; `OneConnection`, for a
program that only adds listeners, as the client does.

`EngagementSyncProofs`, for any number of changes, fetches and faults, from
`SyncAssumption`:

- `PageUsesPorts`: `Spec => SpecPorts`, a step of the page or the network being a
  step of `EventPorts` or a stutter, so that all of the above holds of it.
- `ChangesFollowed`: `Spec => []NothingForgotten`. `SyncInv` holds the types of
  both modules and two facts: events on the wire announce changes of tables
  (`WireKnown`), and a page that shows a table listens for its changes
  (`Listening`), for otherwise an event could be dropped by the page itself
  and no loss be to blame. Under it `Known(t)` is inductive: what the table will
  show, which is what the last of its requests reads, is what is in the database,
  or a change is announced, or the table is `forgotten`. The work is in
  the sequence of requests: an answer that is taken out from before the last one
  is overwritten (`AfterAnswer`), and the last one taken out of order is what
  `forgotten` notes.

`WebClientProofs`, of three parts of `WebClient` (the fourth is `EventPorts`):

- `BuildTypeCorrect`; `BuiltIsServed`, `BuildSpec => []PageBuilt`: when a build
  has been written, the page nginx serves, compressed or not, and in development
  the script beside it, are of that build. `BuildInv`: what a running build
  has written and has still to write are its assets (`Underway`), a volume in use
  for development holds no compressed page to be served in the place of the new
  one (`Clean`), and a build that has ended is all there (`Complete`). Both
  depend on `Start`, which empties the volume.
- Of `QuizPage`, for any quizzes, questions and options, any finite number of
  requests, and impatient students, too: `QuizTypeCorrect`; `LoadingIsAwaited`
  (`LoadingAwaited`, the safety half of `PendingEnds`: what is shown as under way
  waits for a request that is in flight): of two requests for one thing the first
  answer ends the loading, though the second is still in flight, and never the
  other way round.
- `MarksAreTrue` (`LabelsTrue`), for any number of quizzes, under `Patient`.
  `MarksInv` says for each quiz which two requests of it may be in flight together,
  that a fetch which has been answered was answered with what is still saved, and
  that what is marked is saved unless a request of the quiz is under way. Without
  `Patient` a fetch and a save of one quiz overtake each other ("Disagreements").
- `ListedIsStarted`, `Spec => []ListStarted`, for impatient students too: however
  lists and begins overtake each other, a quiz shown as started is; the error that
  run `quiz_lists` finds goes the other way only.
- `SavedIsChecked` (`SavedChecked`), `UntouchedKept` (`KeepsUntouched`: a save
  takes back only what was changed in the form), under `OneQuizPage`: `Patient` and
  one quiz. `QuizInv` adds to the above that a save
  carries a form whose unchanged options are as saved, and that the ticks are those
  of the quiz shown; run `quiz_forms` shows that one quiz is needed.
- Of `AssignmentPage`, for any assignments and texts: `WorkTypeCorrect`;
  `ListedIsBegun`, `Work!Spec => []Known`, for impatient students too: what is
  listed has a submission in the table, whichever fetch arrived last (`Confirmed`:
  so has what any request has been answered with); and `BeginIsAwaited`
  (`BeginAwaited`, the safety half of `BeginEnds`) under `Patient`, without which
  a fetch read before a begin may arrive last. `WorkInv`: at most one request is
  in flight, and what it was answered with still holds of the table (`InForce`).
- `ClientParts`: the composition implements each of its parts, so that every
  theorem about one holds of `ClientSpec`; `ClientTypeCorrect` (`ClientTypeOK`).

`ServerProofs`, first of `Sessions`, any number of tabs and any hour:
`TypeCorrect`; `RoleLimited`, from `Inv`: every token, in a page or in an answer
under way, was `Granted`, that is, ends within an hour of a time at which its user
had its role; and
`LoginKept`, `Spec => []OwnSessionKept`: an answer that sets or clears the cookie
is to a request that had no valid session when it was answered, and none since.
What is lost with two tabs (`two_tabs`) is therefore always the session of another
request.

Then of `Grading`, any finite sets of students, quizzes and options and any points:

- `GradingTypeCorrect`, in which a grade is of a submission and no higher than
  its quiz allows.
- `GradeIsRight`: `GradingSpec => []GradedRight`, in two halves. That
  `GradeSubmission` counts what answers are worth: the rows of a query that
  orders by question fall into one group a question (`GroupsAreQuestions`), and
  there are as many of these as questions (`GroupsCounted`), so that the quotient is
  `Worth` (`CountedIsWorth`). And that nothing goes unnoticed between the
  transactions: `GradeInv` says that the points possible, the submissions still
  to grade and the points about to be written are as the tables have them, or
  the pair is in `touched` (`PossibleRead`, `LeftOver`, `PointsRight`), and that a
  quiz comes up once (`InTurn`).

And of `Server`: `ServerParts`, that the composition implements its parts, and
`ServerTypeCorrect` (`ServerTypeOK`).

Only model-checked: everything under fairness (`RequestsEnd`, `EventTaken`,
`ConnectionEnds`, `PageConverges`, `SaveEnds`, `WatchedServed`, `PendingEnds`,
`BeginEnds`, `LoginEnds`, `FinallyRight`), which the provers do not reach, and
`ExistingShown`, which holds of a patient student only. The other safety
invariants and action properties of passing runs are theorems: `AnsweredInTime`
and `NoExtraTime` where there is one quiz, `SheetSpec` under `Separate`,
`LabelsTrue` under `Patient`, the rest without a hypothesis.

Two histories excuse what they are named for: `forgotten` the tables a loss has
hit, in `NothingForgotten` and `PageConverges`, and `touched` the pairs of student
and quiz that were changed between the transactions of `grade_quizzes`, in
`GradedRight`. These properties show that nothing else is lost or wrong; that the
named losses occur is for the modules to show, not for the properties to exclude.

## Not modelled

- *Within quizzes*: faculty's UPDATE of an answer row, changes of keys and their
  cascades, and the creation of quizzes and options, of which there is a fixed
  set. An array with the same option twice, which a duplicate key refuses, is
  the same as a request that fails (`Cancel`).
- *Within assignments*: renames of slugs with their cascades, changes of
  `is_url`, creation and deletion of assignments and fields, deletion of
  submissions, students' PATCH (which the page does not send), the lock that
  `update_assignments` holds on the row of the assignment itself, which no
  request of a student waits for.
- *Within grading*: faculty writing or deleting grades by hand, and options that
  `upsert_quiz` adds or deletes while `grade_quizzes` runs.
- *Imports of the Python client* (roster, meetings, quizzes): sequential scripts
  run by hand, whose result a rerun repeats; `update_assignments` and
  `grade_quizzes` are modelled, as the ones that meet concurrent students.
- *Grades, snapshots, distributions, users, teams, secrets, meetings, page
  elements*: rows with simple policies, or aggregates over one statement's
  snapshot, with nothing concurrent to say; roles and teams enter `Sessions`
  and `Assignments`.
- *The shell of the web client*: routing, rendering and layout keep no state
  but the route and the clock.
- *CAS, RabbitMQ, the bridge, PostgreSQL, browsers*: external; modelled by how
  the code relies on them.
- *Deployment, backup, certificates, migrations, sample data; vendored Lua and
  JavaScript, `pgjwt`*: configuration, I/O, or third-party.
