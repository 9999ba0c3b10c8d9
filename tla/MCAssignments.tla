--------------------------- MODULE MCAssignments ----------------------------
(***************************************************************************)
(* An instance of Assignments: one assignment, of a team, with two fields  *)
(* and two texts, of which a pattern may refuse one.  Requests read the    *)
(* dates once, when they begin, so a behaviour is either about the dates   *)
(* and the people, with requests for one field, or about the rows, with    *)
(* one student and the assignment open; `part` says which.                 *)
(***************************************************************************)
EXTENDS Assignments, TLC

CONSTANTS b1, b2

OfTheOne == [f \in Fields |-> CHOOSE a \in Assignments : TRUE]
AnyOrFirst == {{b1, b2}, {b1}}

VARIABLE part

all == <<part, vars>>

PartInit ==
    /\ part \in {"dates", "rows"}
    /\ Init
    /\ part = "dates" => \A f \in Fields \ {1} : pattern[f] = {b1, b2}
    /\ part = "rows" => \A a \in Assignments : assignment[a] = [closed |-> 1, draft |-> FALSE]

\* No request is for another field than the first.
FirstField ==
    \A c \in Conns :
        /\ tx[c].op = "write" => DOMAIN tx[c].bodies = {1}
        /\ tx[c].op = "update" => DOMAIN tx[c].changes = {1}

\* The requests are of one student and of update_assignments.
OneStudent ==
    LET it == CHOOSE u \in Students : TRUE
    IN  \A c \in Conns : tx[c] # Idle => tx[c].user \in {it, Nobody}

PartNext ==
    \/ part = "dates" /\ Next /\ FirstField' /\ UNCHANGED part
    \/ part = "rows" /\ (StudentRequest \/ FacultyUpdate \/ Server) /\ OneStudent' /\ UNCHANGED part

PartSpec ==
    /\ PartInit /\ [][PartNext]_all
    /\ \A c \in Conns : SF_all(ServeRequest(c) /\ UNCHANGED part)
=============================================================================
