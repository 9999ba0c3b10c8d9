\* Two students of a team, on two connections, and faculty.
SPECIFICATION PartSpec
CONSTANTS
    b1 = b1  b2 = b2
    Students = {u1, u2}
    Teams = {t1}
    Assignments = {a1}
    TeamWork = {a1}
    Fields = {1, 2}
    AssignmentOf <- OfTheOne
    Bodies = {b1, b2}
    Patterns <- AnyOrFirst
    Faculty = {v}
    Nobody = Nobody
    Conns = {c1, c2}
    MaxTime = 1
INVARIANTS TypeOK OneSubmission BodiesMatch
PROPERTY RequestsEnd
