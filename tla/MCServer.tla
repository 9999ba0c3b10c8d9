------------------------------ MODULE MCServer ------------------------------
(* Small instances of Server for TLC. *)
EXTENDS Server, TLC

CONSTANTS t1, t2, s1, s2, q1, k1, k2, a, b, c

\* A quiz of two questions, with two options and one, and a student who has
\* an extension.
QuizOfQuestion   == k1 :> q1 @@ k2 :> q1
QuestionOfOption == a :> k1 @@ b :> k1 @@ c :> k2
OneExtension     == {<<s1, q1>>}

\* Either one tab is used while the rest changes as it may, or both are, by a
\* student, within one life of sessions and tokens; with two, a login begins only
\* while nginx holds at most one session, which leaves it an identifier.  The token
\* nginx uses is good from the first, or in the future when it is printed.
VARIABLE scope

InScope ==
    /\ printed' \subseteq {-Slack, 2}
    /\ scope = "one" => request'[t2] = None
    /\ scope = "two" =>
           /\ now' = 0 /\ role' = "student" /\ restarts' = 0 /\ 2 \notin printed'
           /\ Cardinality(DOMAIN sessions) > 1 => \A t \in Tabs : ~ Login(t)

MCInit ==
    /\ ServerInit
    /\ scope \in IF part = "sessions" /\ role = "student" THEN {"one", "two"} ELSE {"one"}

MCSpec == MCInit /\ [][ServerNext /\ InScope /\ UNCHANGED scope]_<<all, scope>> /\ ServerFairness
=============================================================================
