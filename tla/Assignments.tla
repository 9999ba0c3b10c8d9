---------------------------- MODULE Assignments -----------------------------
(***************************************************************************)
(* Assignments: the submissions of students and teams, the fields written  *)
(* to them, the policies that guard both, and the changes of the fields'   *)
(* patterns that faculty make, which cascade to what has been written.     *)
(*                                                                         *)
(* A request, or a run of update_assignments, is one READ COMMITTED        *)
(* transaction.  Those that touch rows others may be writing are modelled  *)
(* row by row; edits of a single row that nobody waits for are one step.   *)
(***************************************************************************)
EXTENDS Naturals, FiniteSets

CONSTANTS
    Students, Teams, Assignments,
    TeamWork,      \* the assignments with is_team
    Fields,        \* assignment_field rows, numbered in the order of their slugs
    AssignmentOf,  \* the assignment of a field
    Bodies,        \* what may be written
    Patterns,      \* a pattern is the set of the bodies that match it
    Faculty,       \* users with role faculty
    Nobody,        \* the user of the Python client's connection: none
    Conns,         \* the connections to the database
    MaxTime        \* bound on the clock

ASSUME AssignmentsAssumption ==
    /\ TeamWork \subseteq Assignments
    /\ Fields \subseteq Nat /\ AssignmentOf \in [Fields -> Assignments]
    /\ Patterns \subseteq SUBSET Bodies
    /\ Nobody \notin Faculty \cup Students \cup Patterns
    /\ MaxTime \in Nat

VARIABLES
    now,
    assignment,  \* assignment[a]: closed_at and is_draft
    exc,         \* exc[a][o]: closed_at of an exception; 0 if there is none
    team,        \* team[u]: team_nickname
    subs,        \* assignment_submission: pairs of an owner and an assignment
    pattern,     \* pattern[f], of the committed assignment_field row
    fields,      \* assignment_field_submission: rows, by owner and field
    tx           \* tx[c]: the transaction on connection c

dates == <<now, assignment, exc, team>>
vars  == <<dates, subs, pattern, fields, tx>>

Time   == 0 .. MaxTime
Users  == Students \cup Faculty \cup {Nobody}
Owners == Students \cup Teams

Row == [body : Bodies, pattern : Patterns, submitter : Users]

Idle == [op |-> "idle"]

BeginTx == [op : {"begin"}, user : Students, key : Owners \X Assignments, inserted : BOOLEAN]

IsPartial(f, S, T) == DOMAIN f \subseteq S /\ \A x \in DOMAIN f : f[x] \in T

\* bodies[f]: what is written to f, of the fields that are; todo: those still to
\* be written; read: the pattern filled in for the one that is being written;
\* new[k]: the rows written, and locked; unchecked: the fields of rows inserted
\* whose foreign key is still to be checked; checked: those it has been for,
\* which it holds locked for share.
IsWrite(t) ==
    /\ t.op = "write" /\ t.user \in Students /\ t.owner \in Owners
    /\ IsPartial(t.bodies, Fields, Bodies) /\ IsPartial(t.new, {t.owner} \X DOMAIN t.bodies, Row)
    /\ t.todo \subseteq DOMAIN t.bodies /\ t.read \in Patterns \cup {Nobody}
    /\ t.unchecked \subseteq DOMAIN t.bodies \ t.todo /\ t.checked \subseteq DOMAIN t.bodies \ t.todo

\* changes[f]: the new pattern of f, of the fields that get one; left: those
\* still to be updated; held: those updated, and locked; todo: the rows the
\* cascade has still to update.
IsUpdate(t) ==
    /\ t.op = "update" /\ t.user \in Faculty \cup {Nobody}
    /\ IsPartial(t.changes, Fields, Patterns) /\ IsPartial(t.new, Owners \X t.held, Row)
    /\ t.left \subseteq DOMAIN t.changes /\ t.held \subseteq DOMAIN t.changes \ t.left
    /\ t.todo \subseteq Owners \X t.held

TypeOK ==
    /\ now \in Time
    /\ assignment \in [Assignments -> [closed : Time, draft : BOOLEAN]]
    /\ exc \in [Assignments -> [Owners -> Time]]
    /\ team \in [Students -> Teams]
    /\ subs \subseteq Owners \X Assignments
    /\ pattern \in [Fields -> Patterns]
    /\ \A k \in DOMAIN fields : fields[k] \in Row /\ <<k[1], AssignmentOf[k[2]]>> \in subs
    /\ \A c \in Conns : tx[c] \in {Idle} \cup BeginTx \/ IsWrite(tx[c]) \/ IsUpdate(tx[c])

Init ==
    /\ now = 0
    /\ assignment \in [Assignments -> [closed : Time, draft : BOOLEAN]]
    /\ exc = [a \in Assignments |-> [o \in Owners |-> 0]]
    /\ team \in [Students -> Teams]
    /\ subs = {}
    /\ pattern \in [Fields -> Patterns]
    /\ fields = [k \in {} |-> 0]
    /\ tx = [c \in Conns |-> Idle]
-----------------------------------------------------------------------------
(* The policies, at time t.                                                *)

Owner(u, a) == IF a \in TeamWork THEN team[u] ELSE u

IsOpen(a, t) == ~assignment[a].draft /\ t < assignment[a].closed

\* assignment_submission: it is open, or she or her team have an exception.
MayBegin(u, a, t) ==
    IsOpen(a, t) \/ (t < exc[a][Owner(u, a)] /\ ~assignment[a].draft)

\* Mutant: it need not have been begun.
MayWrite_NotBegun(u, a, t) == IsOpen(a, t) \/ t < exc[a][Owner(u, a)]

\* assignment_field_submission: hers or her team's, and open or excepted.
MayWrite(u, a, t) ==
    <<Owner(u, a), a>> \in subs /\ (IsOpen(a, t) \/ t < exc[a][Owner(u, a)])
-----------------------------------------------------------------------------
(* Time and edits of one row.                                              *)

Tick == now < MaxTime /\ now' = now + 1 /\ UNCHANGED <<assignment, exc, team, subs, pattern, fields, tx>>

FacultySetAssignment(a, row) ==
    /\ assignment' = [assignment EXCEPT ![a] = row]
    /\ UNCHANGED <<now, exc, team, subs, pattern, fields, tx>>

\* An exception is for a team if and only if the assignment is.
FacultySetException(a, o, t) ==
    /\ o \in IF a \in TeamWork THEN Teams ELSE Students
    /\ exc' = [exc EXCEPT ![a][o] = t]
    /\ UNCHANGED <<now, assignment, team, subs, pattern, fields, tx>>

FacultySetTeam(u, t) ==
    /\ team' = [team EXCEPT ![u] = t]
    /\ UNCHANGED <<now, assignment, exc, subs, pattern, fields, tx>>
-----------------------------------------------------------------------------
(* Transactions.                                                           *)

Set(c, field, value) == tx' = [tx EXCEPT ![c][field] = value]

Rollback(c) ==
    /\ tx' = [tx EXCEPT ![c] = Idle]
    /\ UNCHANGED <<dates, subs, pattern, fields>>

\* POST to assignment_submissions; the policy is asked when it starts.
SendBegin(c, u, a) ==
    /\ tx[c] = Idle /\ MayBegin(u, a, now)
    /\ tx' = [tx EXCEPT ![c] = [op |-> "begin", user |-> u, key |-> <<Owner(u, a), a>>,
                                inserted |-> FALSE]]
    /\ UNCHANGED <<dates, subs, pattern, fields>>

Inserted(c, key) == tx[c].op = "begin" /\ tx[c].inserted /\ tx[c].key = key

\* Mutant: the unique indexes do not see what is not committed.
InsertSubmission_NoWait(c) ==
    /\ tx[c].op = "begin" /\ ~tx[c].inserted
    /\ tx[c].key \notin subs
    /\ Set(c, "inserted", TRUE)
    /\ UNCHANGED <<dates, subs, pattern, fields>>

\* The unique indexes let one in when no other has its key.
InsertSubmission(c) ==
    /\ tx[c].op = "begin" /\ ~tx[c].inserted
    /\ ~\E d \in Conns : Inserted(d, tx[c].key)
    /\ tx[c].key \notin subs
    /\ Set(c, "inserted", TRUE)
    /\ UNCHANGED <<dates, subs, pattern, fields>>

DuplicateKey(c) ==
    /\ tx[c].op = "begin" /\ ~tx[c].inserted
    /\ tx[c].key \in subs
    /\ Rollback(c)

\* POST to assignment_field_submissions with merge-duplicates, of fields of one
\* assignment.
SendWrite(c, u, bodies) ==
    /\ tx[c] = Idle
    /\ \E a \in Assignments :
          /\ \A f \in DOMAIN bodies : AssignmentOf[f] = a
          /\ MayWrite(u, a, now)
          /\ tx' = [tx EXCEPT ![c] =
                [op |-> "write", user |-> u, owner |-> Owner(u, a), bodies |-> bodies,
                 todo |-> DOMAIN bodies, read |-> Nobody, new |-> [k \in {} |-> 0],
                 unchecked |-> {}, checked |-> {}]]
    /\ UNCHANGED <<dates, subs, pattern, fields>>

\* The field of the row that is being written: the page sends them in order.
Current(c) == {f \in tx[c].todo : \A g \in tx[c].todo : f <= g}

Writing(c) == tx[c].op = "write" /\ tx[c].todo # {}

\* fill_assignment_field_submission_defaults looks up the submission and the
\* pattern, as they are by now.
FillDefaults(c) ==
    /\ Writing(c) /\ tx[c].read = Nobody
    /\ \E f \in Current(c) :
          /\ Owner(tx[c].user, AssignmentOf[f]) = tx[c].owner
          /\ tx[c].bodies[f] \in pattern[f]
          /\ Set(c, "read", pattern[f])
    /\ UNCHANGED <<dates, subs, pattern, fields>>

\* Mutant: a request that is refused is tried again as it was.
Refused_Retries(c) ==
    /\ Writing(c) /\ tx[c].read = Nobody
    /\ \E f \in Current(c) :
          Owner(tx[c].user, AssignmentOf[f]) # tx[c].owner \/ tx[c].bodies[f] \notin pattern[f]
    /\ tx' = [tx EXCEPT ![c].todo = DOMAIN tx[c].bodies, ![c].new = [k \in {} |-> 0],
                        ![c].unchecked = {}]
    /\ UNCHANGED <<dates, subs, pattern, fields>>

\* The policy refuses a submission that is no longer hers, or the CHECK a body
\* that does not match.
Refused(c) ==
    /\ Writing(c) /\ tx[c].read = Nobody
    /\ \E f \in Current(c) :
          Owner(tx[c].user, AssignmentOf[f]) # tx[c].owner \/ tx[c].bodies[f] \notin pattern[f]
    /\ Rollback(c)

\* Another transaction has written the row.
Locked(c, key) == \E d \in Conns \ {c} : tx[d].op \in {"write", "update"} /\ key \in DOMAIN tx[d].new

With(f, key, row) == [k \in DOMAIN f \cup {key} |-> IF k = key THEN row ELSE f[k]]

\* The row that an upsert leaves: it keeps the pattern of one that is there.
Upserted(c, f) ==
    LET key == <<tx[c].owner, f>>
    IN  [body |-> tx[c].bodies[f],
         pattern |-> IF key \in DOMAIN fields THEN fields[key].pattern ELSE tx[c].read,
         submitter |-> tx[c].user]

\* INSERT, or UPDATE of the row that is there; both wait for who is writing it.
UpsertRow(c) ==
    /\ Writing(c) /\ tx[c].read # Nobody
    /\ \E f \in Current(c) :
          LET key == <<tx[c].owner, f>>
              row == Upserted(c, f)
          IN  /\ ~Locked(c, key)
              /\ row.body \in row.pattern
              /\ tx' = [tx EXCEPT ![c].todo = @ \ {f}, ![c].read = Nobody,
                            ![c].new = With(@, key, row),
                            ![c].unchecked = IF key \in DOMAIN fields THEN @ ELSE @ \cup {f}]
    /\ UNCHANGED <<dates, subs, pattern, fields>>

\* The row that is there has another pattern by now, which the body does not match.
UpsertFails(c) ==
    /\ Writing(c) /\ tx[c].read # Nobody
    /\ \E f \in Current(c) :
          ~Locked(c, <<tx[c].owner, f>>) /\ Upserted(c, f).body \notin Upserted(c, f).pattern
    /\ Rollback(c)

\* The lock on a field it updates keeps out who checks a reference to it, too:
\* an upsert sets the columns of the key, if only to what they are; a PATCH
\* locks the key when the pattern, which is part of it, changes.
KeyLocks(c, f) == tx[c].user = Nobody \/ tx[c].changes[f] # pattern[f]

Holders(c, f) == {d \in Conns \ {c} : tx[d].op = "update" /\ f \in tx[d].held}

KeyHeld(c, f) == \E d \in Holders(c, f) : KeyLocks(d, f)

\* Mutant: the field is not locked by the check.
CheckReference_NoLock(c, f) ==
    /\ tx[c].op = "write" /\ tx[c].todo = {} /\ f \in tx[c].unchecked
    /\ pattern[f] = tx[c].new[<<tx[c].owner, f>>].pattern
    /\ ~KeyHeld(c, f)
    /\ tx' = [tx EXCEPT ![c].unchecked = @ \ {f}]
    /\ UNCHANGED <<dates, subs, pattern, fields>>

\* The foreign key to the field and its pattern: it waits for who is changing
\* the field, and keeps others from it.
CheckReference(c, f) ==
    /\ tx[c].op = "write" /\ tx[c].todo = {} /\ f \in tx[c].unchecked
    /\ ~KeyHeld(c, f)
    /\ pattern[f] = tx[c].new[<<tx[c].owner, f>>].pattern
    /\ tx' = [tx EXCEPT ![c].unchecked = @ \ {f}, ![c].checked = @ \cup {f}]
    /\ UNCHANGED <<dates, subs, pattern, fields>>

ReferenceMissing(c, f) ==
    /\ tx[c].op = "write" /\ tx[c].todo = {} /\ f \in tx[c].unchecked
    /\ ~KeyHeld(c, f)
    /\ pattern[f] # tx[c].new[<<tx[c].owner, f>>].pattern
    /\ Rollback(c)

\* update_assignments, which upserts field after field on a connection without
\* a user, or a PATCH of one field by faculty.
SendUpdate(c, u, changes) ==
    /\ tx[c] = Idle
    /\ u = Nobody \/ Cardinality(DOMAIN changes) = 1
    /\ tx' = [tx EXCEPT ![c] =
          [op |-> "update", user |-> u, changes |-> changes, left |-> DOMAIN changes,
           held |-> {}, todo |-> {}, new |-> [k \in {} |-> 0]]]
    /\ UNCHANGED <<dates, subs, pattern, fields>>

FieldShared(c, f) == \E d \in Conns \ {c} : tx[d].op = "write" /\ f \in tx[d].checked

\* The UPDATE of one field, which locks it until the commit; its pattern, if it
\* is another, cascades.
UpdateField(c, f) ==
    /\ tx[c].op = "update" /\ tx[c].todo = {} /\ f \in tx[c].left
    /\ Holders(c, f) = {}
    /\ KeyLocks(c, f) => ~FieldShared(c, f)
    /\ tx' = [tx EXCEPT ![c].left = @ \ {f}, ![c].held = @ \cup {f},
                        ![c].todo = {k \in DOMAIN fields :
                                        k[2] = f /\ tx[c].changes[f] # pattern[f]}]
    /\ UNCHANGED <<dates, subs, pattern, fields>>

\* ON UPDATE CASCADE runs the trigger of the row, which puts the request's user
\* down as the submitter, and its CHECK.
Cascaded(c, key) ==
    [fields[key] EXCEPT !.pattern = tx[c].changes[key[2]],
                        !.submitter = IF tx[c].user = Nobody THEN @ ELSE tx[c].user]

CascadeRow(c, key) ==
    /\ tx[c].op = "update" /\ key \in tx[c].todo
    /\ ~Locked(c, key)
    /\ fields[key].body \in tx[c].changes[key[2]]
    /\ tx' = [tx EXCEPT ![c].todo = @ \ {key}, ![c].new = With(@, key, Cascaded(c, key))]
    /\ UNCHANGED <<dates, subs, pattern, fields>>

CascadeFails(c, key) ==
    /\ tx[c].op = "update" /\ key \in tx[c].todo
    /\ ~Locked(c, key)
    /\ fields[key].body \notin tx[c].changes[key[2]]
    /\ Rollback(c)

Ready(c) ==
    \/ tx[c].op = "begin" /\ tx[c].inserted
    \/ tx[c].op = "write" /\ tx[c].todo = {} /\ tx[c].unchecked = {}
    \/ tx[c].op = "update" /\ tx[c].left = {} /\ tx[c].todo = {}

Commit(c) ==
    /\ Ready(c)
    /\ subs' = IF tx[c].op = "begin" THEN subs \cup {tx[c].key} ELSE subs
    /\ pattern' = IF tx[c].op = "update"
                  THEN [f \in Fields |-> IF f \in tx[c].held THEN tx[c].changes[f] ELSE pattern[f]]
                  ELSE pattern
    /\ fields' = IF tx[c].op = "begin" THEN fields
                 ELSE [k \in DOMAIN fields \cup DOMAIN tx[c].new |->
                          IF k \in DOMAIN tx[c].new THEN tx[c].new[k] ELSE fields[k]]
    /\ tx' = [tx EXCEPT ![c] = Idle]
    /\ UNCHANGED dates

\* c waits, or may have to, for d.
WaitsFor(c, d) ==
    CASE tx[c].op = "write" ->
           \/ /\ tx[c].todo # {} /\ tx[c].read # Nobody /\ tx[d].op \in {"write", "update"}
              /\ \E f \in Current(c) : <<tx[c].owner, f>> \in DOMAIN tx[d].new
           \/ /\ tx[c].todo = {} /\ tx[d].op = "update"
              /\ \E f \in tx[c].unchecked \cap tx[d].held : KeyLocks(d, f)
      [] tx[c].op = "update" ->
           \/ tx[d].op \in {"write", "update"} /\ tx[c].todo \cap DOMAIN tx[d].new # {}
           \/ tx[c].todo = {} /\ tx[d].op = "update" /\ tx[c].left \cap tx[d].held # {}
           \/ /\ tx[c].todo = {} /\ tx[d].op = "write"
              /\ \E f \in tx[c].left \cap tx[d].checked : KeyLocks(c, f)
      [] OTHER -> FALSE

\* The detector ends one of those that wait for each other in a circle.
DeadlockVictim(c) ==
    /\ \E S \in SUBSET Conns :
          c \in S /\ \A d \in S : \E e \in S \ {d} : WaitsFor(d, e)
    /\ Rollback(c)

\* The client gives up, or the connection, PostgREST or the database fails.
Cancel(c) == tx[c] # Idle /\ Rollback(c)
-----------------------------------------------------------------------------
ServeRequest(c) ==
    \/ InsertSubmission(c) \/ DuplicateKey(c)
    \/ FillDefaults(c) \/ Refused(c) \/ UpsertRow(c) \/ UpsertFails(c)
    \/ \E f \in Fields : CheckReference(c, f) \/ ReferenceMissing(c, f) \/ UpdateField(c, f)
    \/ \E key \in DOMAIN fields : CascadeRow(c, key) \/ CascadeFails(c, key)
    \/ Commit(c)
    \/ DeadlockVictim(c)

StudentRequest ==
    \E c \in Conns, u \in Students :
        \/ \E a \in Assignments : SendBegin(c, u, a)
        \/ \E F \in SUBSET Fields \ {{}} : \E bodies \in [F -> Bodies] : SendWrite(c, u, bodies)

FacultyUpdate ==
    \E c \in Conns, u \in Faculty \cup {Nobody} :
        \E F \in SUBSET Fields \ {{}} : \E changes \in [F -> Patterns] : SendUpdate(c, u, changes)

FacultyEdit ==
    \/ \E a \in Assignments :
          \/ \E closed \in Time, draft \in BOOLEAN :
                 FacultySetAssignment(a, [closed |-> closed, draft |-> draft])
          \/ \E o \in Owners, t \in Time : FacultySetException(a, o, t)
    \/ \E u \in Students, t \in Teams : FacultySetTeam(u, t)

Server == \E c \in Conns : ServeRequest(c) \/ Cancel(c)

Next == Tick \/ StudentRequest \/ FacultyUpdate \/ FacultyEdit \/ Server

Spec == Init /\ [][Next]_vars

\* PostgreSQL runs every transaction that can proceed, and queues those that
\* wait for a row or a field.
FairSpec == Spec /\ \A c \in Conns : SF_vars(ServeRequest(c))
-----------------------------------------------------------------------------
(* Properties.                                                             *)

\* A student or a team has one submission for an assignment, though members of
\* a team begin at once.
OneSubmission ==
    \A c \in Conns, key \in Owners \X Assignments :
        Inserted(c, key) => key \notin subs /\ \A d \in Conns \ {c} : ~Inserted(d, key)

\* What is in a field matches the pattern the field has, whenever faculty change
\* it and whoever is writing then.
BodiesMatch ==
    \A k \in DOMAIN fields : fields[k].pattern = pattern[k[2]] /\ fields[k].body \in fields[k].pattern

\* Every request ends, however the rows and fields it waits for are changed.
RequestsEnd == \A c \in Conns : tx[c] # Idle ~> tx[c] = Idle
=============================================================================
