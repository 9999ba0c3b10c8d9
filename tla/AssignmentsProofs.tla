------------------------- MODULE AssignmentsProofs --------------------------
(***************************************************************************)
(* Proofs about Assignments for any number of students, teams,             *)
(* assignments, fields, patterns and connections: the unique indexes and   *)
(* the foreign key of a field and its pattern hold what they promise,      *)
(* however the transactions interleave and whichever of them fail.         *)
(***************************************************************************)
EXTENDS Assignments, TLAPS

\* The functions from a part of S to T.
Partial(S, T) == UNION {[F -> T] : F \in SUBSET S}

\* The keys of the rows of fields.
Keys == Owners \X Fields

WriteTx ==
    [op : {"write"}, user : Students, owner : Owners, bodies : Partial(Fields, Bodies),
     todo : SUBSET Fields, read : Patterns \cup {Nobody},
     new : Partial(Keys, Row), unchecked : SUBSET Fields, checked : SUBSET Fields]

UpdateTx ==
    [op : {"update"}, user : Faculty \cup {Nobody}, changes : Partial(Fields, Patterns),
     left : SUBSET Fields, held : SUBSET Fields, todo : SUBSET (Keys),
     new : Partial(Keys, Row)]

Tx == {Idle} \cup BeginTx \cup WriteTx \cup UpdateTx

Types ==
    /\ now \in Time
    /\ assignment \in [Assignments -> [closed : Time, draft : BOOLEAN]]
    /\ exc \in [Assignments -> [Owners -> Time]]
    /\ team \in [Students -> Teams]
    /\ subs \in SUBSET (Owners \X Assignments)
    /\ pattern \in [Fields -> Patterns]
    /\ fields \in Partial(Keys, Row)
    /\ tx \in [Conns -> Tx]

\* A submission that has been inserted is not among those committed.
BeginOK(t) == t.inserted => t.key \notin subs

\* What is written matches; a new row is checked against its field before the
\* commit, and keeps the pattern it was checked against; a row that was there
\* keeps the pattern it had.
WriteOK(t) ==
    /\ \A f \in DOMAIN t.bodies : <<t.owner, AssignmentOf[f]>> \in subs
    /\ t.todo \subseteq DOMAIN t.bodies
    /\ t.unchecked \cup t.checked \subseteq DOMAIN t.bodies \ t.todo
    /\ \A k \in DOMAIN t.new :
          /\ k[1] = t.owner /\ k[2] \in DOMAIN t.bodies \ t.todo
          /\ t.new[k].body \in t.new[k].pattern
          /\ k[2] \in t.checked => t.new[k].pattern = pattern[k[2]]
          /\ k[2] \notin t.unchecked \cup t.checked =>
                k \in DOMAIN fields /\ t.new[k].pattern = fields[k].pattern
    /\ \A f \in t.unchecked : <<t.owner, f>> \in DOMAIN t.new

\* The rows of the fields it holds and gives another pattern are done, or still
\* to be done.
UpdateOK(t) ==
    /\ t.left \subseteq DOMAIN t.changes /\ t.held \subseteq DOMAIN t.changes \ t.left
    /\ \A k \in DOMAIN fields :
          k[2] \in t.held /\ t.changes[k[2]] # pattern[k[2]] => k \in t.todo \cup DOMAIN t.new
    /\ \A k \in t.todo \cup DOMAIN t.new : k \in DOMAIN fields /\ k[2] \in t.held
    /\ \A k \in DOMAIN t.new :
          t.new[k].pattern = t.changes[k[2]] /\ t.new[k].body \in t.new[k].pattern

TxOK(t) ==
    /\ t.op = "begin" => BeginOK(t)
    /\ t.op = "write" => WriteOK(t)
    /\ t.op = "update" => UpdateOK(t)

Locks(t) == IF t.op \in {"write", "update"} THEN DOMAIN t.new ELSE {}
Holds(t) == IF t.op = "update" THEN t.held ELSE {}
Shares(t) == IF t.op = "write" THEN t.checked ELSE {}

\* Who changes the pattern of a field lets nobody share it.
Leaves(t, u) == \A f \in Holds(t) \cap Shares(u) : t.changes[f] = pattern[f]

\* What the locks and the unique indexes keep apart.
Apart(t, u) ==
    /\ Locks(t) \cap Locks(u) = {}
    /\ Holds(t) \cap Holds(u) = {}
    /\ Leaves(t, u) /\ Leaves(u, t)
    /\ ~ (/\ t.op = "begin" /\ t.inserted /\ u.op = "begin" /\ u.inserted /\ t.key = u.key)

FieldsOK ==
    \A k \in DOMAIN fields :
        /\ <<k[1], AssignmentOf[k[2]]>> \in subs
        /\ fields[k].pattern = pattern[k[2]] /\ fields[k].body \in fields[k].pattern

Inv ==
    /\ Types
    /\ FieldsOK
    /\ \A c \in Conns : TxOK(tx[c])
    /\ \A c, d \in Conns : c # d => Apart(tx[c], tx[d])

-----------------------------------------------------------------------------
(* Partial functions.                                                      *)

LEMMA PartialType ==
    ASSUME NEW S, NEW T, NEW f \in Partial(S, T)
    PROVE  /\ DOMAIN f \subseteq S /\ \A x \in DOMAIN f : f[x] \in T
           /\ f = [x \in DOMAIN f |-> f[x]]
  BY DEF Partial

LEMMA IntoPartial ==
    ASSUME NEW S, NEW T, NEW D \in SUBSET S, NEW f \in [D -> T]
    PROVE  f \in Partial(S, T)
  BY DEF Partial

LEMMA WithType ==
    ASSUME NEW S, NEW T, NEW f \in Partial(S, T), NEW key \in S, NEW row \in T
    PROVE  With(f, key, row) \in Partial(S, T)
  <1>1. DOMAIN f \cup {key} \in SUBSET S /\ \A x \in DOMAIN f : f[x] \in T
    BY PartialType
  <1>2. With(f, key, row) \in [DOMAIN f \cup {key} -> T]
    BY <1>1 DEF With
  <1> QED
    BY <1>1, <1>2, IntoPartial

LEMMA EmptyPartial ==
    ASSUME NEW S, NEW T
    PROVE  [k \in {} |-> 0] \in Partial(S, T) /\ DOMAIN [k \in {} |-> 0] = {}
  <1>1. [k \in {} |-> 0] \in [{} -> T] /\ {} \in SUBSET S
    OBVIOUS
  <1> QED
    BY <1>1, IntoPartial

-----------------------------------------------------------------------------
(* A step of one transaction.                                              *)

\* A transaction goes on, and nothing is committed.
LEMMA TxStep ==
    ASSUME Inv, NEW c \in Conns, NEW t \in Tx, TxOK(t),
           \A d \in Conns \ {c} : Apart(t, tx[d]),
           tx' = [tx EXCEPT ![c] = t],
           UNCHANGED <<dates, subs, pattern, fields>>
    PROVE  Inv'
  <1>1. Types' /\ FieldsOK'
    BY DEF Inv, Types, FieldsOK, dates
  <1>2. \A u : TxOK(u)' <=> TxOK(u)
    BY DEF TxOK, BeginOK, WriteOK, UpdateOK
  <1>3. tx \in [Conns -> Tx]
    BY DEF Inv, Types
  <1>4. \A d \in Conns : TxOK(tx[d])'
    BY <1>2, <1>3 DEF Inv, TxOK, BeginOK, WriteOK, UpdateOK
  <1>5. \A u, v : Apart(u, v) => Apart(v, u)
    BY DEF Apart
  <1>6. ASSUME NEW d \in Conns, NEW e \in Conns, d # e PROVE Apart(tx'[d], tx'[e])
    BY <1>3, <1>5, <1>6 DEF Inv
  <1>7. \A d, e \in Conns : d # e => Apart(tx[d], tx[e])'
    BY <1>6 DEF Apart, Leaves, Locks, Holds, Shares
  <1> QED
    BY <1>1, <1>4, <1>7 DEF Inv

LEMMA RollbackStep ==
    ASSUME Inv, NEW c \in Conns, Rollback(c)
    PROVE  Inv'
  <1>1. Idle \in Tx /\ TxOK(Idle)
    BY DEF Tx, Idle, TxOK
  <1>2. \A u : Apart(Idle, u)
    BY DEF Idle, Apart, Leaves, Locks, Holds, Shares
  <1> QED
    BY <1>1, <1>2, TxStep DEF Rollback

\* What the operation of a transaction says of the rest of it.
LEMMA TxTypes ==
    ASSUME Inv, NEW c \in Conns
    PROVE  /\ tx[c] \in Tx /\ TxOK(tx[c])
           /\ tx[c].op = "begin" => tx[c] \in BeginTx /\ BeginOK(tx[c])
           /\ tx[c].op = "write" => tx[c] \in WriteTx /\ WriteOK(tx[c])
           /\ tx[c].op = "update" => tx[c] \in UpdateTx /\ UpdateOK(tx[c])
           /\ \A d \in Conns \ {c} : tx[d] \in Tx /\ Apart(tx[c], tx[d])
  <1>1. tx[c] \in Tx /\ TxOK(tx[c])
    BY DEF Inv, Types
  <1>2. \A d \in Conns \ {c} : tx[d] \in Tx /\ Apart(tx[c], tx[d])
    BY DEF Inv, Types
  <1>3. ASSUME NEW t \in Tx
        PROVE  /\ t.op = "begin" => t \in BeginTx
               /\ t.op = "write" => t \in WriteTx
               /\ t.op = "update" => t \in UpdateTx
    <2>1. t = Idle => t.op = "idle"
      BY DEF Idle
    <2>2. t \in BeginTx => t.op = "begin"
      BY DEF BeginTx
    <2>3. t \in WriteTx => t.op = "write"
      BY DEF WriteTx
    <2>4. t \in UpdateTx => t.op = "update"
      BY DEF UpdateTx
    <2> QED
      BY <2>1, <2>2, <2>3, <2>4 DEF Tx
  <1> QED
    BY <1>1, <1>2, <1>3 DEF TxOK

LEMMA OwnerType ==
    ASSUME Inv, NEW u \in Students, NEW a \in Assignments
    PROVE  Owner(u, a) \in Owners
  BY DEF Inv, Types, Owner, Owners

-----------------------------------------------------------------------------
(* Requests that begin an assignment.                                      *)

LEMMA SendBeginStep ==
    ASSUME Inv, NEW c \in Conns, NEW u \in Students, NEW a \in Assignments, SendBegin(c, u, a)
    PROVE  Inv'
  <1> DEFINE t == [op |-> "begin", user |-> u, key |-> <<Owner(u, a), a>>, inserted |-> FALSE]
  <1>1. t \in Tx /\ TxOK(t)
    BY OwnerType DEF Tx, BeginTx, TxOK, BeginOK
  <1>2. \A d \in Conns \ {c} : Apart(t, tx[d])
    BY DEF Apart, Leaves, Locks, Holds, Shares
  <1>3. tx' = [tx EXCEPT ![c] = t] /\ UNCHANGED <<dates, subs, pattern, fields>>
    BY DEF SendBegin
  <1> HIDE DEF t
  <1> QED
    BY <1>1, <1>2, <1>3, TxStep

LEMMA InsertSubmissionStep ==
    ASSUME Inv, NEW c \in Conns, InsertSubmission(c)
    PROVE  Inv'
  <1> DEFINE t == [tx[c] EXCEPT !.inserted = TRUE]
  <1>1. tx[c] \in BeginTx /\ tx[c].key \notin subs /\ ~ \E d \in Conns : Inserted(d, tx[c].key)
    BY TxTypes DEF InsertSubmission
  <1>2. t \in BeginTx /\ t.op = "begin" /\ t.key = tx[c].key
    BY <1>1 DEF BeginTx
  <1>3. t \in Tx /\ TxOK(t)
    BY <1>1, <1>2 DEF Tx, TxOK, BeginOK
  <1>4. \A d \in Conns \ {c} : Apart(t, tx[d])
    BY <1>1, <1>2 DEF Apart, Leaves, Locks, Holds, Shares, Inserted
  <1>5. tx' = [tx EXCEPT ![c] = t] /\ UNCHANGED <<dates, subs, pattern, fields>>
    BY DEF InsertSubmission, Set, Inv, Types
  <1> HIDE DEF t
  <1> QED
    BY <1>3, <1>4, <1>5, TxStep

-----------------------------------------------------------------------------
(* Requests that write fields.                                             *)

LEMMA SendWriteStep ==
    ASSUME Inv, NEW c \in Conns, NEW u \in Students,
           NEW F \in SUBSET Fields, NEW bodies \in [F -> Bodies], SendWrite(c, u, bodies)
    PROVE  Inv'
  <1>1. PICK a \in Assignments :
           /\ \A f \in DOMAIN bodies : AssignmentOf[f] = a
           /\ MayWrite(u, a, now)
           /\ tx' = [tx EXCEPT ![c] =
                [op |-> "write", user |-> u, owner |-> Owner(u, a), bodies |-> bodies,
                 todo |-> DOMAIN bodies, read |-> Nobody, new |-> [k \in {} |-> 0],
                 unchecked |-> {}, checked |-> {}]]
    BY DEF SendWrite
  <1> DEFINE t == [op |-> "write", user |-> u, owner |-> Owner(u, a), bodies |-> bodies,
                   todo |-> DOMAIN bodies, read |-> Nobody, new |-> [k \in {} |-> 0],
                   unchecked |-> {}, checked |-> {}]
  <1>2. /\ bodies \in Partial(Fields, Bodies) /\ DOMAIN bodies \in SUBSET Fields
        /\ [k \in {} |-> 0] \in Partial(Keys, Row) /\ DOMAIN [k \in {} |-> 0] = {}
    BY IntoPartial, EmptyPartial
  <1>3. t \in WriteTx
    BY <1>2, OwnerType DEF WriteTx
  <1>4. t.op = "write" /\ DOMAIN t.new = {} /\ t.checked = {}
    BY <1>2
  <1>5. WriteOK(t)
    BY <1>1, <1>2 DEF WriteOK, MayWrite
  <1>6. \A d \in Conns \ {c} : Apart(t, tx[d])
    BY <1>4 DEF Apart, Leaves, Locks, Holds, Shares
  <1>7. tx' = [tx EXCEPT ![c] = t] /\ UNCHANGED <<dates, subs, pattern, fields>>
    BY <1>1 DEF SendWrite
  <1> HIDE DEF t
  <1> QED
    BY <1>3, <1>4, <1>5, <1>6, <1>7, TxStep DEF Tx, TxOK

LEMMA FillDefaultsStep ==
    ASSUME Inv, NEW c \in Conns, FillDefaults(c)
    PROVE  Inv'
  <1>1. tx[c] \in WriteTx /\ WriteOK(tx[c])
    BY TxTypes DEF FillDefaults, Writing
  <1>2. PICK f \in Current(c) : Set(c, "read", pattern[f])
    BY DEF FillDefaults
  <1>3. pattern[f] \in Patterns
    BY <1>1, <1>2 DEF Current, Inv, Types, WriteTx
  <1> DEFINE t == [tx[c] EXCEPT !.read = pattern[f]]
  <1>4. t \in WriteTx
    BY <1>1, <1>3 DEF WriteTx
  <1>5. /\ t.op = "write" /\ t.owner = tx[c].owner /\ t.bodies = tx[c].bodies /\ t.todo = tx[c].todo
        /\ t.new = tx[c].new /\ t.unchecked = tx[c].unchecked /\ t.checked = tx[c].checked
    BY <1>1 DEF WriteTx
  <1>6. tx' = [tx EXCEPT ![c] = t] /\ UNCHANGED <<dates, subs, pattern, fields>>
    BY <1>2 DEF FillDefaults, Set, Inv, Types
  <1> HIDE DEF t
  <1>7. t \in Tx /\ TxOK(t)
    BY <1>1, <1>4, <1>5 DEF Tx, TxOK, WriteOK
  <1>8. \A d \in Conns \ {c} : Apart(t, tx[d])
    BY <1>1, <1>5, TxTypes DEF Apart, Leaves, Locks, Holds, Shares, WriteTx
  <1> QED
    BY <1>6, <1>7, <1>8, TxStep

LEMMA UpsertedType ==
    ASSUME Inv, NEW c \in Conns, tx[c] \in WriteTx, WriteOK(tx[c]), tx[c].read # Nobody,
           NEW f \in tx[c].todo
    PROVE  /\ <<tx[c].owner, f>> \in Keys
           /\ Upserted(c, f) \in Row
           /\ <<tx[c].owner, f>> \in DOMAIN fields =>
                 Upserted(c, f).pattern = fields[<<tx[c].owner, f>>].pattern
  <1> DEFINE key == <<tx[c].owner, f>>
  <1>1. key \in Keys /\ f \in DOMAIN tx[c].bodies
    BY DEF WriteTx, WriteOK, Keys
  <1>2. tx[c].bodies[f] \in Bodies
    BY <1>1, PartialType DEF WriteTx
  <1>3. key \in DOMAIN fields => fields[key] \in Row
    BY PartialType DEF Inv, Types
  <1>4. tx[c].read \in Patterns /\ tx[c].user \in Users
    BY DEF WriteTx, Users
  <1> QED
    BY <1>1, <1>2, <1>3, <1>4 DEF Upserted, Row

LEMMA UpsertRowStep ==
    ASSUME Inv, NEW c \in Conns, UpsertRow(c)
    PROVE  Inv'
  <1>1. tx[c] \in WriteTx /\ WriteOK(tx[c]) /\ tx[c].read # Nobody
    BY TxTypes DEF UpsertRow, Writing
  <1>2. PICK f \in Current(c) :
          LET key == <<tx[c].owner, f>>
              row == Upserted(c, f)
          IN  /\ ~Locked(c, key)
              /\ row.body \in row.pattern
              /\ tx' = [tx EXCEPT ![c].todo = @ \ {f}, ![c].read = Nobody,
                            ![c].new = With(@, key, row),
                            ![c].unchecked = IF key \in DOMAIN fields THEN @ ELSE @ \cup {f}]
    BY DEF UpsertRow
  <1>3. f \in tx[c].todo /\ f \in Fields
    BY <1>1, <1>2 DEF Current, WriteTx
  <1> DEFINE old == tx[c]
             key == <<old.owner, f>>
             row == Upserted(c, f)
             new == With(old.new, key, row)
             unchecked == IF key \in DOMAIN fields THEN old.unchecked ELSE old.unchecked \cup {f}
             t == [old EXCEPT !.todo = @ \ {f}, !.read = Nobody, !.new = new, !.unchecked = unchecked]
  <1>4. key \in Keys /\ row \in Row /\ row.body \in row.pattern
    BY <1>1, <1>2, <1>3, UpsertedType
  <1>5. key \in DOMAIN fields => row.pattern = fields[key].pattern
    BY <1>1, <1>3, UpsertedType
  <1>6. /\ new \in Partial(Keys, Row) /\ DOMAIN new = DOMAIN old.new \cup {key}
        /\ new[key] = row /\ \A k \in DOMAIN old.new \ {key} : new[k] = old.new[k]
    <2>1. old.new \in Partial(Keys, Row)
      BY <1>1 DEF WriteTx
    <2>2. key \in Keys /\ row \in Row
      BY <1>4
    <2> HIDE DEF key, row, old
    <2>3. With(old.new, key, row) \in Partial(Keys, Row)
      BY <2>1, <2>2, WithType
    <2> QED
      BY <2>3 DEF With
  <1>7. unchecked \in SUBSET Fields
    BY <1>1, <1>3 DEF WriteTx
  <1> HIDE DEF new, unchecked, row
  <1>8. /\ t \in WriteTx /\ t.op = "write" /\ t.owner = old.owner /\ t.bodies = old.bodies
        /\ t.todo = old.todo \ {f} /\ t.new = new /\ t.unchecked = unchecked
        /\ t.checked = old.checked
    BY <1>1, <1>6, <1>7 DEF WriteTx
  <1>9. tx' = [tx EXCEPT ![c] = t] /\ UNCHANGED <<dates, subs, pattern, fields>>
    BY <1>2 DEF UpsertRow, Inv, Types, new, unchecked, row
  <1>10. \A d \in Conns \ {c} : key \notin Locks(tx[d])
    BY <1>2 DEF Locked, Locks
  <1> HIDE DEF t
  <1>11. WriteOK(t)
    <2>1. /\ \A g \in DOMAIN t.bodies : <<t.owner, AssignmentOf[g]>> \in subs
          /\ t.todo \subseteq DOMAIN t.bodies
          /\ t.unchecked \cup t.checked \subseteq DOMAIN t.bodies \ t.todo
      BY <1>1, <1>3, <1>8 DEF WriteOK, unchecked
    <2>2. f \notin old.unchecked \cup old.checked /\ f \in DOMAIN t.bodies \ t.todo
      BY <1>1, <1>3, <1>8 DEF WriteOK
    <2>3. ASSUME NEW k \in DOMAIN t.new
          PROVE  /\ k[1] = t.owner /\ k[2] \in DOMAIN t.bodies \ t.todo
                 /\ t.new[k].body \in t.new[k].pattern
                 /\ k[2] \in t.checked => t.new[k].pattern = pattern[k[2]]
                 /\ k[2] \notin t.unchecked \cup t.checked =>
                       k \in DOMAIN fields /\ t.new[k].pattern = fields[k].pattern
      <3>1. CASE k = key
        BY <1>4, <1>5, <1>6, <1>8, <2>2, <3>1 DEF unchecked
      <3>2. CASE k # key
        <4>1. k \in DOMAIN old.new /\ t.new[k] = old.new[k]
          BY <1>6, <1>8, <3>2
        <4> QED
          BY <1>1, <1>8, <4>1 DEF WriteOK, unchecked
      <3> QED
        BY <3>1, <3>2
    <2>4. \A g \in t.unchecked : <<t.owner, g>> \in DOMAIN t.new
      BY <1>1, <1>6, <1>8 DEF WriteOK, unchecked
    <2> QED
      BY <2>1, <2>3, <2>4 DEF WriteOK
  <1>12. \A d \in Conns \ {c} : Apart(t, tx[d])
    BY <1>1, <1>6, <1>8, <1>10, TxTypes DEF Apart, Leaves, Locks, Holds, Shares, WriteTx
  <1> QED
    BY <1>8, <1>9, <1>11, <1>12, TxStep DEF Tx, TxOK

LEMMA CheckReferenceStep ==
    ASSUME Inv, NEW c \in Conns, NEW f \in Fields, CheckReference(c, f)
    PROVE  Inv'
  <1> DEFINE old == tx[c]
             t == [old EXCEPT !.unchecked = @ \ {f}, !.checked = @ \cup {f}]
  <1>1. /\ old \in WriteTx /\ WriteOK(old) /\ old.op = "write"
        /\ f \in old.unchecked /\ pattern[f] = old.new[<<old.owner, f>>].pattern
    BY TxTypes DEF CheckReference
  <1>2. /\ t \in WriteTx /\ t.op = "write" /\ t.owner = old.owner /\ t.bodies = old.bodies
        /\ t.todo = old.todo /\ t.new = old.new /\ t.unchecked = old.unchecked \ {f}
        /\ t.checked = old.checked \cup {f}
    BY <1>1 DEF WriteTx
  <1>3. tx' = [tx EXCEPT ![c] = t] /\ UNCHANGED <<dates, subs, pattern, fields>>
    BY DEF CheckReference, Inv, Types
  <1>4. \A d \in Conns \ {c} : f \in Holds(tx[d]) => tx[d].changes[f] = pattern[f]
    BY DEF CheckReference, KeyHeld, Holders, KeyLocks, Holds
  <1> HIDE DEF t
  <1>5. WriteOK(t)
    <2>1. ASSUME NEW k \in DOMAIN t.new, k[2] = f PROVE k = <<old.owner, f>>
      <3>1. k \in Keys /\ k[1] = old.owner
        BY <1>1, <1>2, PartialType DEF WriteTx, WriteOK
      <3> QED
        BY <2>1, <3>1 DEF Keys
    <2> QED
      BY <1>1, <1>2, <2>1 DEF WriteOK
  <1>6. \A d \in Conns \ {c} : Apart(t, tx[d])
    BY <1>1, <1>2, <1>4, TxTypes DEF Apart, Leaves, Locks, Holds, Shares
  <1> QED
    BY <1>2, <1>3, <1>5, <1>6, TxStep DEF Tx, TxOK

-----------------------------------------------------------------------------
(* Updates of fields.                                                      *)

LEMMA SendUpdateStep ==
    ASSUME Inv, NEW c \in Conns, NEW u \in Faculty \cup {Nobody},
           NEW F \in SUBSET Fields, NEW changes \in [F -> Patterns], SendUpdate(c, u, changes)
    PROVE  Inv'
  <1> DEFINE t == [op |-> "update", user |-> u, changes |-> changes, left |-> DOMAIN changes,
                   held |-> {}, todo |-> {}, new |-> [k \in {} |-> 0]]
  <1>1. /\ changes \in Partial(Fields, Patterns) /\ DOMAIN changes \in SUBSET Fields
        /\ [k \in {} |-> 0] \in Partial(Keys, Row) /\ DOMAIN [k \in {} |-> 0] = {}
    BY IntoPartial, EmptyPartial
  <1>2. t \in UpdateTx /\ t.op = "update" /\ DOMAIN t.new = {} /\ t.held = {}
    BY <1>1 DEF UpdateTx
  <1>3. UpdateOK(t)
    BY <1>1 DEF UpdateOK
  <1>4. \A d \in Conns \ {c} : Apart(t, tx[d])
    BY <1>2 DEF Apart, Leaves, Locks, Holds, Shares
  <1>5. tx' = [tx EXCEPT ![c] = t] /\ UNCHANGED <<dates, subs, pattern, fields>>
    BY DEF SendUpdate
  <1> HIDE DEF t
  <1> QED
    BY <1>2, <1>3, <1>4, <1>5, TxStep DEF Tx, TxOK

LEMMA UpdateFieldStep ==
    ASSUME Inv, NEW c \in Conns, NEW f \in Fields, UpdateField(c, f)
    PROVE  Inv'
  <1> DEFINE old == tx[c]
  <1>1. old \in UpdateTx /\ UpdateOK(old) /\ old.op = "update" /\ old.todo = {} /\ f \in old.left
    BY TxTypes DEF UpdateField
  <1>2. UNCHANGED <<dates, subs, pattern, fields>> /\ tx \in [Conns -> Tx]
    BY DEF UpdateField, Inv, Types
  <1> DEFINE rows == {k \in DOMAIN fields : k[2] = f /\ old.changes[f] # pattern[f]}
             t == [old EXCEPT !.left = @ \ {f}, !.held = @ \cup {f}, !.todo = rows]
  <1>3. /\ tx' = [tx EXCEPT ![c] = t] /\ Holders(c, f) = {}
        /\ old.changes[f] # pattern[f] => ~FieldShared(c, f)
    BY <1>2 DEF UpdateField, KeyLocks
  <1>4. rows \in SUBSET Keys
    BY PartialType DEF Inv, Types
  <1>5. /\ t \in UpdateTx /\ t.op = "update" /\ t.changes = old.changes /\ t.todo = rows
        /\ t.held = old.held \cup {f} /\ t.new = old.new /\ t.left = old.left \ {f}
    BY <1>1, <1>4 DEF UpdateTx
  <1> HIDE DEF t
  <1>6. UpdateOK(t)
    BY <1>1, <1>5 DEF UpdateOK
  <1>7. \A d \in Conns \ {c} : f \notin Holds(tx[d])
    BY <1>3 DEF Holders, Holds
  <1>8. \A d \in Conns \ {c} : f \in Shares(tx[d]) => old.changes[f] = pattern[f]
    BY <1>3 DEF FieldShared, Shares
  <1>9. \A d \in Conns \ {c} : Apart(t, tx[d])
    BY <1>1, <1>5, <1>7, <1>8, TxTypes DEF Apart, Leaves, Locks, Holds, Shares
  <1> QED
    BY <1>2, <1>3, <1>5, <1>6, <1>9, TxStep DEF Tx, TxOK

LEMMA CascadeRowStep ==
    ASSUME Inv, NEW c \in Conns, NEW key \in DOMAIN fields, CascadeRow(c, key)
    PROVE  Inv'
  <1> DEFINE old == tx[c]
             row == Cascaded(c, key)
             new == With(old.new, key, row)
             t == [old EXCEPT !.todo = @ \ {key}, !.new = new]
  <1>1. old \in UpdateTx /\ UpdateOK(old) /\ old.op = "update" /\ key \in old.todo
    BY TxTypes DEF CascadeRow
  <1>2. /\ ~Locked(c, key) /\ fields[key].body \in old.changes[key[2]]
        /\ tx' = [tx EXCEPT ![c] = t] /\ UNCHANGED <<dates, subs, pattern, fields>>
    BY DEF CascadeRow, Inv, Types
  <1>3. key \in Keys /\ fields[key] \in Row
    BY PartialType DEF Inv, Types
  <1>4. key[2] \in DOMAIN old.changes /\ old.changes[key[2]] \in Patterns
    BY <1>1, PartialType DEF UpdateOK, UpdateTx
  <1>5. row \in Row /\ row.pattern = old.changes[key[2]] /\ row.body = fields[key].body
    BY <1>1, <1>3, <1>4 DEF Cascaded, Row, UpdateTx, Users
  <1> HIDE DEF row
  <1>6. new \in Partial(Keys, Row)
    <2>1. old.new \in Partial(Keys, Row)
      BY <1>1 DEF UpdateTx
    <2> HIDE DEF old
    <2> QED
      BY <1>3, <1>5, <2>1, WithType
  <1>7. /\ DOMAIN new = DOMAIN old.new \cup {key} /\ new[key] = row
        /\ \A k \in DOMAIN old.new \ {key} : new[k] = old.new[k]
    BY DEF With
  <1> HIDE DEF new
  <1>8. /\ t \in UpdateTx /\ t.op = "update" /\ t.changes = old.changes /\ t.left = old.left
        /\ t.held = old.held /\ t.new = new /\ t.todo = old.todo \ {key}
    BY <1>1, <1>6 DEF UpdateTx
  <1> HIDE DEF t
  <1>9. UpdateOK(t)
    BY <1>1, <1>2, <1>5, <1>7, <1>8 DEF UpdateOK
  <1>10. \A d \in Conns \ {c} : key \notin Locks(tx[d])
    BY <1>2 DEF Locked, Locks
  <1>11. \A d \in Conns \ {c} : Apart(t, tx[d])
    BY <1>1, <1>7, <1>8, <1>10, TxTypes DEF Apart, Leaves, Locks, Holds, Shares
  <1> QED
    BY <1>2, <1>8, <1>9, <1>11, TxStep DEF Tx, TxOK

-----------------------------------------------------------------------------
(* Commits.                                                                *)

\* The transaction that commits is gone, and the others are as they were.
LEMMA CommitStep ==
    ASSUME Inv, NEW c \in Conns, tx' = [tx EXCEPT ![c] = Idle], UNCHANGED dates,
           subs' \in SUBSET (Owners \X Assignments), pattern' \in [Fields -> Patterns],
           fields' \in Partial(Keys, Row), FieldsOK',
           \A d \in Conns \ {c} : TxOK(tx[d])',
           \A d \in Conns \ {c} : \A f \in Holds(tx[d]) : pattern'[f] = pattern[f]
    PROVE  Inv'
  <1>1. tx \in [Conns -> Tx] /\ Idle \in Tx
    BY DEF Inv, Types, Tx
  <1>2. Types'
    BY <1>1 DEF Inv, Types, dates
  <1>3. \A d \in Conns : TxOK(tx[d])'
    BY <1>1 DEF TxOK, Idle
  <1>4. \A d, e \in Conns : d # e => Apart(tx[d], tx[e])'
    <2> SUFFICES ASSUME NEW d \in Conns \ {c}, NEW e \in Conns \ {c}, d # e
                 PROVE  Apart(tx[d], tx[e])'
      BY <1>1 DEF Apart, Leaves, Locks, Holds, Shares, Idle
    <2>1. Apart(tx[d], tx[e]) /\ tx'[d] = tx[d] /\ tx'[e] = tx[e]
      BY <1>1 DEF Inv
    <2> QED
      BY <2>1 DEF Apart, Leaves, Locks, Holds, Shares
  <1> QED
    BY <1>2, <1>3, <1>4 DEF Inv

LEMMA CommitBegin ==
    ASSUME Inv, NEW c \in Conns, Commit(c), tx[c].op = "begin"
    PROVE  Inv'
  <1>1. /\ tx[c] \in BeginTx /\ tx[c].inserted
        /\ tx' = [tx EXCEPT ![c] = Idle] /\ UNCHANGED <<dates, pattern, fields>>
        /\ subs' = subs \cup {tx[c].key}
    BY TxTypes DEF Commit, Ready
  <1>2. /\ subs' \in SUBSET (Owners \X Assignments) /\ pattern' \in [Fields -> Patterns]
        /\ fields' \in Partial(Keys, Row) /\ tx \in [Conns -> Tx]
    BY <1>1 DEF BeginTx, Inv, Types
  <1>3. FieldsOK'
    BY <1>1 DEF FieldsOK, Inv
  <1>4. ASSUME NEW d \in Conns \ {c} PROVE TxOK(tx[d])'
    <2>1. tx'[d] = tx[d] /\ TxOK(tx[d]) /\ Apart(tx[c], tx[d])
      BY <1>1, <1>2 DEF Inv
    <2>2. CASE tx[d].op = "begin"
      BY <1>1, <2>1, <2>2, TxTypes DEF TxOK, BeginOK, Apart, BeginTx
    <2>3. CASE tx[d].op = "write"
      BY <1>1, <2>1, <2>3 DEF TxOK, WriteOK
    <2>4. CASE tx[d].op = "update"
      BY <1>1, <2>1, <2>4 DEF TxOK, UpdateOK
    <2> QED
      BY <2>1, <2>2, <2>3, <2>4 DEF TxOK
  <1>5. \A d \in Conns \ {c} : \A f \in Holds(tx[d]) : pattern'[f] = pattern[f]
    BY <1>1
  <1> QED
    BY <1>1, <1>2, <1>3, <1>4, <1>5, CommitStep

\* The rows that a transaction writes, and those it leaves.
LEMMA CommittedRows ==
    ASSUME Inv, NEW c \in Conns, Commit(c), tx[c].op \in {"write", "update"}
    PROVE  /\ fields' \in Partial(Keys, Row)
           /\ DOMAIN fields' = DOMAIN fields \cup DOMAIN tx[c].new
           /\ \A k \in DOMAIN tx[c].new : fields'[k] = tx[c].new[k]
           /\ \A k \in DOMAIN fields \ DOMAIN tx[c].new : fields'[k] = fields[k]
           /\ tx' = [tx EXCEPT ![c] = Idle] /\ UNCHANGED <<dates, subs>>
  <1>1. /\ fields' = [k \in DOMAIN fields \cup DOMAIN tx[c].new |->
                         IF k \in DOMAIN tx[c].new THEN tx[c].new[k] ELSE fields[k]]
        /\ tx' = [tx EXCEPT ![c] = Idle] /\ UNCHANGED <<dates, subs>>
    BY DEF Commit
  <1>2. tx[c].new \in Partial(Keys, Row) /\ fields \in Partial(Keys, Row)
    BY TxTypes DEF WriteTx, UpdateTx, Inv, Types
  <1>3. /\ DOMAIN fields \cup DOMAIN tx[c].new \in SUBSET Keys
        /\ \A k \in DOMAIN fields : fields[k] \in Row
        /\ \A k \in DOMAIN tx[c].new : tx[c].new[k] \in Row
    BY <1>2, PartialType
  <1>4. fields' \in [DOMAIN fields \cup DOMAIN tx[c].new -> Row]
    BY <1>1, <1>3
  <1> QED
    BY <1>1, <1>3, <1>4, IntoPartial

LEMMA CommitWrite ==
    ASSUME Inv, NEW c \in Conns, Commit(c), tx[c].op = "write"
    PROVE  Inv'
  <1> DEFINE old == tx[c]
  <1>1. old \in WriteTx /\ WriteOK(old) /\ old.op = "write" /\ old.unchecked = {} /\ pattern' = pattern
    BY TxTypes DEF Commit, Ready
  <1>2. /\ fields' \in Partial(Keys, Row)
        /\ DOMAIN fields' = DOMAIN fields \cup DOMAIN old.new
        /\ \A k \in DOMAIN old.new : fields'[k] = old.new[k]
        /\ \A k \in DOMAIN fields \ DOMAIN old.new : fields'[k] = fields[k]
        /\ tx' = [tx EXCEPT ![c] = Idle] /\ UNCHANGED <<dates, subs>>
    BY <1>1, CommittedRows
  <1>3. tx \in [Conns -> Tx] /\ pattern \in [Fields -> Patterns] /\ subs \in SUBSET (Owners \X Assignments)
    BY DEF Inv, Types
  <1>4. FieldsOK'
    <2> SUFFICES ASSUME NEW k \in DOMAIN fields'
                 PROVE  /\ <<k[1], AssignmentOf[k[2]]>> \in subs
                        /\ fields'[k].pattern = pattern[k[2]]
                        /\ fields'[k].body \in fields'[k].pattern
      BY <1>1, <1>2 DEF FieldsOK
    <2>1. CASE k \in DOMAIN old.new
      BY <1>1, <1>2, <2>1 DEF WriteOK, Inv, FieldsOK
    <2>2. CASE k \notin DOMAIN old.new
      BY <1>2, <2>2 DEF Inv, FieldsOK
    <2> QED
      BY <2>1, <2>2
  <1>5. ASSUME NEW d \in Conns \ {c} PROVE TxOK(tx[d])'
    <2>1. tx'[d] = tx[d] /\ TxOK(tx[d]) /\ Apart(tx[c], tx[d])
      BY <1>2, <1>3 DEF Inv
    <2>2. CASE tx[d].op = "begin"
      BY <1>2, <2>1, <2>2 DEF TxOK, BeginOK
    <2>3. CASE tx[d].op = "write"
      <3>1. \A k \in DOMAIN tx[d].new : k \notin DOMAIN old.new
        BY <1>1, <2>1, <2>3 DEF Apart, Locks
      <3>2. WriteOK(tx[d])
        BY <2>1, <2>3 DEF TxOK
      <3>3. WriteOK(tx[d])'
        BY <1>1, <1>2, <2>1, <3>1, <3>2 DEF WriteOK
      <3> QED
        BY <2>1, <2>3, <3>3 DEF TxOK
    <2>4. CASE tx[d].op = "update"
      <3>1. UpdateOK(tx[d])
        BY <2>1, <2>4 DEF TxOK
      <3>2. ASSUME NEW k \in DOMAIN fields' \ DOMAIN fields, k[2] \in tx[d].held
            PROVE  tx[d].changes[k[2]] = pattern[k[2]]
        <4>1. k[2] \in old.checked
          BY <1>1, <1>2, <3>2 DEF WriteOK
        <4> QED
          BY <1>1, <2>1, <2>4, <3>2, <4>1 DEF Apart, Leaves, Holds, Shares
      <3>3. UpdateOK(tx[d])'
        BY <1>1, <1>2, <2>1, <3>1, <3>2 DEF UpdateOK
      <3> QED
        BY <2>1, <2>4, <3>3 DEF TxOK
    <2> QED
      BY <2>1, <2>2, <2>3, <2>4 DEF TxOK
  <1>6. \A d \in Conns \ {c} : \A f \in Holds(tx[d]) : pattern'[f] = pattern[f]
    BY <1>1
  <1> QED
    BY <1>1, <1>2, <1>3, <1>4, <1>5, <1>6, CommitStep

LEMMA CommitUpdate ==
    ASSUME Inv, NEW c \in Conns, Commit(c), tx[c].op = "update"
    PROVE  Inv'
  <1> DEFINE old == tx[c]
  <1>1. /\ old \in UpdateTx /\ UpdateOK(old) /\ old.op = "update" /\ old.todo = {}
        /\ pattern' = [f \in Fields |-> IF f \in old.held THEN old.changes[f] ELSE pattern[f]]
    BY TxTypes DEF Commit, Ready
  <1>2. /\ fields' \in Partial(Keys, Row)
        /\ DOMAIN fields' = DOMAIN fields \cup DOMAIN old.new
        /\ \A k \in DOMAIN old.new : fields'[k] = old.new[k]
        /\ \A k \in DOMAIN fields \ DOMAIN old.new : fields'[k] = fields[k]
        /\ tx' = [tx EXCEPT ![c] = Idle] /\ UNCHANGED <<dates, subs>>
    BY <1>1, CommittedRows
  <1>3. tx \in [Conns -> Tx] /\ pattern \in [Fields -> Patterns] /\ subs \in SUBSET (Owners \X Assignments)
    BY DEF Inv, Types
  <1>4. pattern' \in [Fields -> Patterns]
    <2>1. \A f \in DOMAIN old.changes : old.changes[f] \in Patterns
      BY <1>1, PartialType DEF UpdateTx
    <2> QED
      BY <1>1, <1>3, <2>1 DEF UpdateOK
  <1>5. /\ DOMAIN fields' = DOMAIN fields
        /\ \A k \in DOMAIN old.new : k[2] \in old.held
        /\ \A k \in DOMAIN fields \ DOMAIN old.new :
              k[2] \in old.held => old.changes[k[2]] = pattern[k[2]]
    BY <1>1, <1>2 DEF UpdateOK
  <1>6. \A k \in DOMAIN fields : k[2] \in Fields
    BY PartialType DEF Inv, Types, Keys
  <1>7. FieldsOK'
    <2> SUFFICES ASSUME NEW k \in DOMAIN fields
                 PROVE  /\ <<k[1], AssignmentOf[k[2]]>> \in subs
                        /\ fields'[k].pattern = pattern'[k[2]]
                        /\ fields'[k].body \in fields'[k].pattern
      BY <1>2, <1>5 DEF FieldsOK
    <2>1. CASE k \in DOMAIN old.new
      BY <1>1, <1>2, <1>5, <1>6, <2>1 DEF UpdateOK, Inv, FieldsOK
    <2>2. CASE k \notin DOMAIN old.new
      BY <1>1, <1>2, <1>5, <1>6, <2>2 DEF Inv, FieldsOK
    <2> QED
      BY <2>1, <2>2
  <1>8. ASSUME NEW d \in Conns \ {c}, NEW f \in Holds(tx[d]) PROVE pattern'[f] = pattern[f]
    <2>1. Apart(tx[c], tx[d])
      BY <1>3 DEF Inv
    <2>2. tx[d].op = "update" /\ f \in tx[d].held /\ f \notin old.held
      BY <1>1, <1>8, <2>1 DEF Apart, Holds
    <2>3. f \in Fields
      BY <2>2, TxTypes DEF UpdateTx
    <2> QED
      BY <1>1, <2>2, <2>3
  <1>9. ASSUME NEW d \in Conns \ {c} PROVE TxOK(tx[d])'
    <2>1. tx'[d] = tx[d] /\ TxOK(tx[d]) /\ Apart(tx[c], tx[d]) /\ tx[d] \in Tx
      BY <1>2, <1>3 DEF Inv
    <2>2. CASE tx[d].op = "begin"
      BY <1>2, <2>1, <2>2 DEF TxOK, BeginOK
    <2>3. CASE tx[d].op = "write"
      <3>1. /\ \A k \in DOMAIN tx[d].new : k \notin DOMAIN old.new
            /\ \A f \in tx[d].checked : f \in old.held => old.changes[f] = pattern[f]
        BY <1>1, <2>1, <2>3 DEF Apart, Leaves, Locks, Holds, Shares
      <3>2. WriteOK(tx[d]) /\ tx[d].checked \subseteq Fields
        BY <2>1, <2>3, TxTypes DEF WriteTx
      <3>3. \A f \in tx[d].checked : pattern'[f] = pattern[f]
        BY <1>1, <3>1, <3>2
      <3>4. \A k \in DOMAIN tx[d].new \cap DOMAIN fields : fields'[k] = fields[k]
        BY <1>2, <3>1
      <3>5. WriteOK(tx[d])'
        BY <1>2, <1>5, <2>1, <3>2, <3>3, <3>4 DEF WriteOK
      <3> QED
        BY <2>1, <2>3, <3>5 DEF TxOK
    <2>4. CASE tx[d].op = "update"
      <3>1. UpdateOK(tx[d]) /\ \A f \in tx[d].held : pattern'[f] = pattern[f]
        BY <1>8, <2>1, <2>4 DEF TxOK, Holds
      <3>2. UpdateOK(tx[d])'
        BY <1>5, <2>1, <3>1 DEF UpdateOK
      <3> QED
        BY <2>1, <2>4, <3>2 DEF TxOK
    <2> QED
      BY <2>1, <2>2, <2>3, <2>4 DEF TxOK
  <1> QED
    BY <1>2, <1>3, <1>4, <1>7, <1>8, <1>9, CommitStep

-----------------------------------------------------------------------------
(* Time and edits.                                                         *)

\* A step that changes neither the rows nor the transactions.
LEMMA QuietStep ==
    ASSUME Inv, Types', UNCHANGED <<subs, pattern, fields, tx>>
    PROVE  Inv'
  <1>1. FieldsOK'
    BY DEF Inv, FieldsOK
  <1>2. ASSUME NEW c \in Conns PROVE TxOK(tx[c])'
    <2>1. TxOK(tx[c])
      BY DEF Inv
    <2> QED
      BY <2>1 DEF TxOK, BeginOK, WriteOK, UpdateOK
  <1>3. ASSUME NEW c \in Conns, NEW d \in Conns, c # d PROVE Apart(tx[c], tx[d])'
    <2>1. Apart(tx[c], tx[d])
      BY <1>3 DEF Inv
    <2> QED
      BY <2>1 DEF Apart, Leaves, Locks, Holds, Shares
  <1> QED
    BY <1>1, <1>2, <1>3 DEF Inv

LEMMA EditStep ==
    ASSUME Inv, Tick \/ FacultyEdit
    PROVE  Inv'
  <1>1. UNCHANGED <<subs, pattern, fields, tx>>
    BY DEF Tick, FacultyEdit, FacultySetAssignment, FacultySetException, FacultySetTeam
  <1>2. /\ now' \in Time
        /\ assignment' \in [Assignments -> [closed : Time, draft : BOOLEAN]]
        /\ exc' \in [Assignments -> [Owners -> Time]] /\ team' \in [Students -> Teams]
    <2>1. /\ now \in Time
          /\ assignment \in [Assignments -> [closed : Time, draft : BOOLEAN]]
          /\ exc \in [Assignments -> [Owners -> Time]] /\ team \in [Students -> Teams]
      BY DEF Inv, Types
    <2>2. CASE Tick
      BY <2>1, <2>2, AssignmentsAssumption DEF Tick, Time
    <2>3. ASSUME NEW a \in Assignments, NEW closed \in Time, NEW draft \in BOOLEAN,
                 FacultySetAssignment(a, [closed |-> closed, draft |-> draft])
          PROVE  /\ assignment' \in [Assignments -> [closed : Time, draft : BOOLEAN]]
                 /\ UNCHANGED <<now, exc, team>>
      BY <2>1, <2>3 DEF FacultySetAssignment
    <2>4. ASSUME NEW a \in Assignments, NEW o \in Owners, NEW t \in Time, FacultySetException(a, o, t)
          PROVE  exc' \in [Assignments -> [Owners -> Time]] /\ UNCHANGED <<now, assignment, team>>
      BY <2>1, <2>4 DEF FacultySetException
    <2>5. ASSUME NEW u \in Students, NEW t \in Teams, FacultySetTeam(u, t)
          PROVE  team' \in [Students -> Teams] /\ UNCHANGED <<now, assignment, exc>>
      BY <2>1, <2>5 DEF FacultySetTeam
    <2> QED
      BY <2>1, <2>2, <2>3, <2>4, <2>5 DEF FacultyEdit
  <1>3. Types'
    BY <1>1, <1>2 DEF Inv, Types
  <1> QED
    BY <1>1, <1>3, QuietStep
-----------------------------------------------------------------------------
(* The theorems.                                                           *)

LEMMA ServeStep ==
    ASSUME Inv, NEW c \in Conns, ServeRequest(c) \/ Cancel(c)
    PROVE  Inv'
  <1>1. CASE Commit(c)
    BY <1>1, CommitBegin, CommitWrite, CommitUpdate DEF Commit, Ready
  <1>2. CASE Rollback(c)
    BY <1>2, RollbackStep
  <1>3. CASE InsertSubmission(c)
    BY <1>3, InsertSubmissionStep
  <1>4. CASE FillDefaults(c)
    BY <1>4, FillDefaultsStep
  <1>5. CASE UpsertRow(c)
    BY <1>5, UpsertRowStep
  <1>6. ASSUME NEW f \in Fields, CheckReference(c, f) \/ ReferenceMissing(c, f) \/ UpdateField(c, f)
        PROVE  Inv'
    BY <1>6, CheckReferenceStep, RollbackStep, UpdateFieldStep DEF ReferenceMissing
  <1>7. ASSUME NEW key \in DOMAIN fields, CascadeRow(c, key) \/ CascadeFails(c, key)
        PROVE  Inv'
    BY <1>7, CascadeRowStep, RollbackStep DEF CascadeFails
  <1> QED
    BY <1>1, <1>2, <1>3, <1>4, <1>5, <1>6, <1>7
    DEF ServeRequest, DuplicateKey, Refused, UpsertFails, DeadlockVictim, Cancel

LEMMA InvStep == Inv /\ [Next]_vars => Inv'
  <1> SUFFICES ASSUME Inv, [Next]_vars PROVE Inv'
    OBVIOUS
  <1>1. CASE Tick \/ FacultyEdit
    BY <1>1, EditStep
  <1>2. CASE StudentRequest
    BY <1>2, SendBeginStep, SendWriteStep DEF StudentRequest
  <1>3. CASE FacultyUpdate
    BY <1>3, SendUpdateStep DEF FacultyUpdate
  <1>4. CASE Server
    BY <1>4, ServeStep DEF Server
  <1>5. CASE UNCHANGED vars
    <2>1. Types'
      BY <1>5 DEF vars, dates, Inv, Types
    <2> QED
      BY <1>5, <2>1, QuietStep DEF vars
  <1> QED
    BY <1>1, <1>2, <1>3, <1>4, <1>5 DEF Next

LEMMA InitInv == Init => Inv
  <1> SUFFICES ASSUME Init PROVE Inv
    OBVIOUS
  <1>1. [k \in {} |-> 0] \in Partial(Keys, Row) /\ DOMAIN [k \in {} |-> 0] = {}
    BY EmptyPartial
  <1>2. fields \in Partial(Keys, Row) /\ DOMAIN fields = {}
    BY <1>1 DEF Init
  <1>3. \A c \in Conns : tx[c] = Idle /\ tx[c] \in Tx
    BY DEF Init, Tx
  <1>4. 0 \in Time /\ tx \in [Conns -> Tx]
    BY AssignmentsAssumption, <1>3 DEF Init, Time
  <1>5. Types
    BY <1>2, <1>4 DEF Init, Types
  <1>6. \A c, d \in Conns : TxOK(tx[c]) /\ Apart(tx[c], tx[d])
    BY <1>3 DEF Idle, TxOK, Apart, Leaves, Locks, Holds, Shares
  <1> QED
    BY <1>2, <1>5, <1>6 DEF Inv, FieldsOK

\* A student or a team never has two submissions for an assignment, however many
\* members begin at once: the unique index makes all but one of them wait or fail.
THEOREM SubmissionsUnique == Spec => []OneSubmission
  <1>1. ASSUME Inv PROVE OneSubmission
    <2> SUFFICES ASSUME NEW c \in Conns, NEW key, Inserted(c, key)
                 PROVE  key \notin subs /\ \A d \in Conns \ {c} : ~Inserted(d, key)
      BY DEF OneSubmission
    <2>1. key \notin subs
      BY <1>1, TxTypes DEF Inserted, BeginOK
    <2>2. \A d \in Conns \ {c} : Apart(tx[c], tx[d])
      BY <1>1, TxTypes
    <2> QED
      BY <2>1, <2>2 DEF Inserted, Apart
  <1>2. Inv => OneSubmission
    BY <1>1
  <1> QED
    BY <1>2, InitInv, InvStep, PTL DEF Spec

\* Faculty may change the patterns of any fields while students write to them:
\* what is in a field always matches the pattern the field has.
THEOREM MatchKept == Spec => []BodiesMatch
  <1>1. Inv => BodiesMatch
    BY DEF Inv, FieldsOK, BodiesMatch
  <1> QED
    BY <1>1, InitInv, InvStep, PTL DEF Spec

\* The types; and whatever is written belongs to a submission that was begun.
THEOREM TypeCorrect == Spec => []TypeOK
  <1>1. ASSUME Inv PROVE TypeOK
    <2>1. \A k \in DOMAIN fields : fields[k] \in Row /\ <<k[1], AssignmentOf[k[2]]>> \in subs
      BY <1>1, PartialType DEF Inv, Types, FieldsOK
    <2>2. ASSUME NEW c \in Conns PROVE tx[c] \in {Idle} \cup BeginTx \/ IsWrite(tx[c]) \/ IsUpdate(tx[c])
      <3> DEFINE t == tx[c]
      <3>1. CASE t \in WriteTx
        <4>1. WriteOK(t) /\ t.op = "write"
          BY <1>1, <3>1, TxTypes DEF WriteTx
        <4>2. /\ DOMAIN t.bodies \subseteq Fields /\ \A f \in DOMAIN t.bodies : t.bodies[f] \in Bodies
              /\ DOMAIN t.new \subseteq Keys /\ \A k \in DOMAIN t.new : t.new[k] \in Row
          BY <3>1, PartialType DEF WriteTx
        <4>3. \A k \in DOMAIN t.new : k \in {t.owner} \X DOMAIN t.bodies
          BY <4>1, <4>2 DEF WriteOK, Keys
        <4> QED
          BY <3>1, <4>1, <4>2, <4>3 DEF IsWrite, IsPartial, WriteTx, WriteOK
      <3>2. CASE t \in UpdateTx
        <4>1. UpdateOK(t) /\ t.op = "update"
          BY <1>1, <3>2, TxTypes DEF UpdateTx
        <4>2. /\ DOMAIN t.changes \subseteq Fields
              /\ \A f \in DOMAIN t.changes : t.changes[f] \in Patterns
              /\ DOMAIN t.new \subseteq Keys /\ \A k \in DOMAIN t.new : t.new[k] \in Row
          BY <3>2, PartialType DEF UpdateTx
        <4>3. \A k \in t.todo \cup DOMAIN t.new : k \in Owners \X t.held
          BY <3>2, <4>1, <4>2 DEF UpdateOK, Keys, UpdateTx
        <4> QED
          BY <3>2, <4>1, <4>2, <4>3 DEF IsUpdate, IsPartial, UpdateTx, UpdateOK
      <3> QED
        BY <1>1, <3>1, <3>2, TxTypes DEF Tx
    <2> QED
      BY <1>1, <2>1, <2>2 DEF TypeOK, Inv, Types
  <1>2. Inv => TypeOK
    BY <1>1
  <1> QED
    BY <1>2, InitInv, InvStep, PTL DEF Spec
=============================================================================
