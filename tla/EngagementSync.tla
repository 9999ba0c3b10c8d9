--------------------------- MODULE EngagementSync ---------------------------
(***************************************************************************)
(* The page of a member of staff and the tables it shows: a change of a    *)
(* row is announced by a trigger, carried by the bridge, the exchange and  *)
(* the SSE service to the page's EventSource (EventPorts), and answered by *)
(* a fetch of the whole table.  Every hop can lose what it holds, and a    *)
(* fetch can fail or be overtaken.                                         *)
(*                                                                         *)
(* A table is known by the number of changes it has seen.                  *)
(***************************************************************************)
EXTENDS EventPorts

CONSTANTS
    TableChange, \* the name of the events that announce a change
    Faults,      \* the faults that may happen besides lost connections
    MaxChanges,  \* bound on the changes of a table
    MaxFetches,  \* bound on the fetches in flight
    MaxPosts,    \* bound on the requests in flight that save an engagement
    MaxFaults    \* bound on the faults

ASSUME SyncAssumption ==
    /\ TableChange \in EventTypes \ {Message}
    /\ Payloads = {"engagement", "user"} /\ Calls = {"withListener"}
    /\ Faults \subseteq {"bridge", "service", "answer", "order"}
    /\ MaxChanges \in Nat /\ MaxFetches \in Nat /\ MaxPosts \in Nat /\ MaxFaults \in Nat

Tables == {"engagement", "user"}

\* The tables whose triggers announce changes.
Triggered == {"engagement"}

VARIABLES
    db,          \* db[t]: the changes of the table committed so far
    bridge,      \* the tables of the notices the bridge has not published
    bridgeUp,    \* the bridge listens to the database
    queue,       \* the tables of the messages in the service's queue
    bound,       \* the service has a queue
    currentUser, \* model.currentUser has been fetched
    fetches,     \* the requests in flight, oldest first
    shown,       \* model.engagements, model.users
    posts,       \* requests that save an engagement, not yet served
    replies,     \* replies[r]: answers r to them on their way
    pending,     \* model.pendingSubmitEngagements, for one engagement
    forgotten,   \* history: the tables of which a change may not be followed
                 \* by an answer that shows it
    faults       \* faults so far

dbVars    == <<db, bridge, bridgeUp, queue, bound>>
modelVars == <<currentUser, fetches, shown>>
postVars  == <<posts, replies, pending>>
auxVars   == <<forgotten, faults>>
syncVars  == <<dbVars, modelVars, postVars, auxVars>>
vars      == <<portVars, syncVars>>

Version  == 0 .. MaxChanges
Unread   == MaxChanges + 1   \* of a request the database has not read for
NotShown == MaxChanges + 2   \* NotAsked, Loading or Failure

SyncTypeOK ==
    /\ db \in [Tables -> Version]
    /\ bridge \in Seq(Tables) /\ bridgeUp \in BOOLEAN
    /\ queue \in Seq(Tables) /\ bound \in BOOLEAN
    /\ currentUser \in BOOLEAN
    /\ fetches \in Seq([table : Tables, read : Version \cup {Unread}])
    /\ shown \in [Tables -> Version \cup {NotShown}]
    /\ posts \in 0 .. MaxPosts
    /\ replies \in [{"success", "failure"} -> 0 .. MaxPosts]
    /\ pending \in {"none", "loading", "failure"}
    /\ forgotten \subseteq Tables
    /\ faults \in 0 .. MaxFaults

Init ==
    /\ InitPorts
    /\ db = [t \in Tables |-> 0] /\ bridge = <<>> /\ bridgeUp = TRUE
    /\ queue = <<>> /\ bound = TRUE
    /\ currentUser = FALSE /\ fetches = <<>> /\ shown = [t \in Tables |-> NotShown]
    /\ posts = 0 /\ replies = [r \in {"success", "failure"} |-> 0] /\ pending = "none"
    /\ forgotten = {} /\ faults = 0

\* The tables of the events on a source's connection.
OnWire(i) == {e.data : e \in ToSet(sources[i].wire)}

\* An announcement of a change of t is on its way to the page.
Announced(t) == t \in ToSet(bridge) \cup ToSet(queue)
                      \cup UNION {OnWire(i) : i \in DOMAIN sources}

Fetching(t) == {i \in DOMAIN fetches : fetches[i].table = t}
-----------------------------------------------------------------------------
(* From the row to the service's clients.                                  *)

\* Mutant: the notice is sent before the change commits: by the time it is handled the
\* table may be as it was.
Commit_NoticeFirst(t) ==
    /\ db[t] < MaxChanges
    /\ \/ /\ t \in Triggered /\ bridgeUp /\ ~ Announced(t)
          /\ bridge' = Append(bridge, t) /\ UNCHANGED <<db, forgotten>>
       \/ /\ db' = [db EXCEPT ![t] = @ + 1]
          /\ UNCHANGED <<bridge, forgotten>>
    /\ UNCHANGED <<bridgeUp, queue, bound>>

\* A change commits and on_row_change notifies the bridge, if it listens.
Commit(t) ==
    /\ db[t] < MaxChanges
    /\ db' = [db EXCEPT ![t] = @ + 1]
    /\ IF t \in Triggered /\ bridgeUp
       THEN bridge' = Append(bridge, t) /\ UNCHANGED forgotten
       ELSE forgotten' = forgotten \cup {t} /\ UNCHANGED bridge
    /\ UNCHANGED <<bridgeUp, queue, bound>>

\* Anyone but this page changes a row.
RowChange(t) ==
    /\ Commit(t)
    /\ UNCHANGED <<portVars, modelVars, postVars, faults>>

\* The bridge publishes; the exchange routes to the service's queue or nowhere.
Publish ==
    /\ bridge # <<>>
    /\ bridge' = Tail(bridge)
    /\ IF bound
       THEN queue' = Append(queue, Head(bridge)) /\ UNCHANGED forgotten
       ELSE forgotten' = forgotten \cup {Head(bridge)} /\ UNCHANGED queue
    /\ UNCHANGED <<portVars, db, bridgeUp, bound, modelVars, postVars, faults>>

\* The page is a client of the service.
Subscribed == sources # <<>> /\ Last(sources).link = "open"

\* The service sends the routing key to its clients.
Broadcast ==
    /\ queue # <<>>
    /\ queue' = Tail(queue)
    /\ Emit([type |-> TableChange, data |-> Head(queue)])
    /\ forgotten' = IF Subscribed THEN forgotten ELSE forgotten \cup {Head(queue)}
    /\ UNCHANGED <<db, bridge, bridgeUp, bound, modelVars, postVars, faults>>

\* getMessages again, five seconds after it has returned.
Dial ==
    /\ ~ bound /\ bound' = TRUE
    /\ UNCHANGED <<portVars, db, bridge, bridgeUp, queue, modelVars, postVars, auxVars>>

BridgeReturns ==
    /\ ~ bridgeUp /\ bridgeUp' = TRUE
    /\ UNCHANGED <<portVars, db, bridge, queue, bound, modelVars, postVars, auxVars>>
-----------------------------------------------------------------------------
(* The page.                                                               *)

LoadPage == Load /\ UNCHANGED syncVars

\* fetchUsers and fetchEngagements.
Fetch(t) == [table |-> t, read |-> Unread]

\* OnFetchCurrentUser, of a user who is faculty or TA: one update adds the
\* listener and starts the first fetches.
OnFetchCurrentUser ==
    /\ ~ currentUser
    /\ currentUser' = TRUE
    /\ WithListener(TableChange)
    /\ fetches' = <<Fetch("engagement"), Fetch("user")>>
    /\ UNCHANGED <<dbVars, shown, postVars, auxVars>>

CarryOutCommand == (\E c \in commands : CarryOut(c)) /\ UNCHANGED syncVars

Subscribe == (\E i \in DOMAIN sources : Connect(i)) /\ UNCHANGED syncVars

\* Mutant: a request for the table is not sent while another is in flight.
OnSSETableChange_OneAtATime(i) ==
    /\ sources[i].wire # <<>> /\ Len(fetches) < MaxFetches
    /\ Dispatch(i)
    /\ LET e == Head(sources[i].wire)
       IN  fetches' = IF Decoded(sources[i], e) /\ Fetching(e.data) = {}
                      THEN Append(fetches, Fetch(e.data))
                      ELSE fetches
    /\ UNCHANGED <<dbVars, currentUser, shown, postVars, auxVars>>

\* onSSETableChange, as the update that handles the event: the table of its
\* routing key is fetched.
OnSSETableChange(i) ==
    /\ sources[i].wire # <<>> /\ Len(fetches) < MaxFetches
    /\ Dispatch(i)
    /\ LET e == Head(sources[i].wire)
       IN  fetches' = IF Decoded(sources[i], e) THEN Append(fetches, Fetch(e.data))
                      ELSE fetches
    /\ UNCHANGED <<dbVars, currentUser, shown, postVars, auxVars>>

\* PostgREST reads the table for a request.
Read(i) ==
    /\ fetches[i].read = Unread
    /\ fetches' = [fetches EXCEPT ![i].read = db[fetches[i].table]]
    /\ UNCHANGED <<portVars, dbVars, currentUser, shown, postVars, auxVars>>

\* The other requests in flight for the table of a request, and those of them
\* that were sent before it.
Others(i)  == {j \in DOMAIN fetches \ {i} : fetches[j].table = fetches[i].table}
Overtaken(i) == {j \in Others(i) : j < i}

\* OnFetchEngagements and OnFetchUsers: the answer replaces what is shown, in
\* whatever order answers come.
OnFetch(i) ==
    LET t == fetches[i].table
        n == fetches[i].read
    IN  /\ n # Unread
        /\ Overtaken(i) # {} => "order" \in Faults
        /\ shown' = [shown EXCEPT ![t] = n]
        /\ fetches' = RemoveAt(fetches, i)
        /\ forgotten' =
              IF n = db[t] /\ \A j \in Others(i) : fetches[j].read \in {n, Unread}
              THEN forgotten \ {t}
              ELSE IF Overtaken(i) # {} THEN forgotten \cup {t} ELSE forgotten
        /\ UNCHANGED <<portVars, dbVars, currentUser, postVars, faults>>

\* OnChangeEngagement: the engagement of the clicked option is sent.
OnChangeEngagement ==
    /\ currentUser /\ posts + replies["success"] + replies["failure"] < MaxPosts
    /\ pending' = "loading"
    /\ posts' = posts + 1
    /\ UNCHANGED <<portVars, dbVars, modelVars, replies, auxVars>>

\* The database saves it or refuses.
ServePost ==
    /\ posts > 0 /\ posts' = posts - 1
    /\ \/ Commit("engagement") /\ replies' = [replies EXCEPT !["success"] = @ + 1]
       \/ UNCHANGED <<dbVars, forgotten>> /\ replies' = [replies EXCEPT !["failure"] = @ + 1]
    /\ UNCHANGED <<portVars, modelVars, pending, faults>>

\* Mutant: a failure is put back among the pending ones.
OnSubmitEngagementResponse_Kept(r) ==
    /\ replies[r] > 0
    /\ replies' = [replies EXCEPT ![r] = @ - 1]
    /\ pending' = IF r = "success" THEN "none" ELSE pending
    /\ UNCHANGED <<portVars, dbVars, modelVars, posts, auxVars>>

OnSubmitEngagementResponse(r) ==
    /\ replies[r] > 0
    /\ replies' = [replies EXCEPT ![r] = @ - 1]
    /\ pending' = IF r = "success" THEN "none" ELSE "failure"
    /\ UNCHANGED <<portVars, dbVars, modelVars, posts, auxVars>>
-----------------------------------------------------------------------------
(* Faults.                                                                 *)

Fault(f) == f \in Faults /\ faults < MaxFaults /\ faults' = faults + 1

BridgeLost ==
    /\ Fault("bridge") /\ bridgeUp
    /\ bridgeUp' = FALSE /\ bridge' = <<>>
    /\ forgotten' = forgotten \cup ToSet(bridge)
    /\ UNCHANGED <<portVars, db, queue, bound, modelVars, postVars>>

\* The service loses RabbitMQ, and RabbitMQ deletes the exclusive queue.
QueueLost ==
    /\ Fault("service") /\ bound
    /\ bound' = FALSE /\ queue' = <<>>
    /\ forgotten' = forgotten \cup ToSet(queue)
    /\ UNCHANGED <<portVars, db, bridge, bridgeUp, modelVars, postVars>>

\* OnFetchEngagements and OnFetchUsers with a failure, which nothing retries.
FetchFails(i) ==
    /\ Fault("answer")
    /\ Overtaken(i) = {}
    /\ shown' = [shown EXCEPT ![fetches[i].table] = NotShown]
    /\ fetches' = RemoveAt(fetches, i)
    /\ forgotten' = forgotten \cup {fetches[i].table}
    /\ UNCHANGED <<portVars, dbVars, currentUser, postVars>>

\* The browser connects again, or never; the page learns of neither.
ConnectionLost(i) ==
    /\ Drop(i) \/ GiveUp(i)
    /\ forgotten' = forgotten \cup OnWire(i)
    /\ UNCHANGED <<dbVars, modelVars, postVars, faults>>

Faulty ==
    \/ BridgeLost \/ QueueLost
    \/ \E i \in DOMAIN fetches : FetchFails(i)
    \/ \E i \in DOMAIN sources : ConnectionLost(i)

Deliver == Publish \/ Broadcast \/ Dial \/ BridgeReturns

Page ==
    \/ LoadPage \/ OnFetchCurrentUser \/ CarryOutCommand \/ Subscribe
    \/ \E i \in DOMAIN sources : OnSSETableChange(i)

Answer == \E i \in DOMAIN fetches : Read(i) \/ OnFetch(i)

Save == ServePost \/ \E r \in {"success", "failure"} : OnSubmitEngagementResponse(r)

Next ==
    \/ \E t \in Tables : RowChange(t)
    \/ OnChangeEngagement
    \/ Deliver \/ Page \/ Answer \/ Save \/ Faulty

Spec == Init /\ [][Next]_vars

\* Every process that has something to do does it; nobody has to change a row
\* or click, and faults need not happen.
Fairness == WF_vars(Deliver) /\ WF_vars(Page) /\ WF_vars(Answer) /\ WF_vars(Save)

FairSpec == Spec /\ Fairness
-----------------------------------------------------------------------------
(* Properties.                                                             *)

\* The answer that will be the last to be shown, as far as it is known.
WillShow(t) ==
    IF Fetching(t) = {} THEN shown[t]
    ELSE fetches[CHOOSE i \in Fetching(t) : \A j \in Fetching(t) : j <= i].read

\* Whatever is lost, late or refused, a page is out of date for one of three
\* reasons: the change is being announced, it is being fetched, or one of the
\* losses the model names has hit it and no later answer has made up for it.
NothingForgotten ==
    currentUser => \A t \in Tables :
        WillShow(t) \in {db[t], Unread} \/ Announced(t) \/ t \in forgotten

\* The page settles on what the tables hold but for what was lost.
Converges == <>[](\A t \in Tables : shown[t] = db[t] \/ t \in forgotten)

\* An engagement that is being saved is not being saved for ever.
SaveEnds == pending = "loading" ~> pending # "loading"
=============================================================================
