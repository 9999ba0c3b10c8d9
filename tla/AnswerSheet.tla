---------------------------- MODULE AnswerSheet ----------------------------
(***************************************************************************)
(* What the quiz server promises about answers, seen from outside: the     *)
(* marked options are one set; a request names marks to drop and marks to  *)
(* make, and either does both, with nothing in between and nothing else    *)
(* disturbed, or leaves the sheet as it was.  save_quiz is the request     *)
(* that drops every mark the student has on the quiz.                      *)
(***************************************************************************)
CONSTANTS Marks,     \* what can be marked: a quiz, a student and an option
          Conns,     \* where requests come in
          Nobody     \* no request is pending

VARIABLES sheet,     \* the marks that are made
          asked      \* asked[c]: the request pending on c, or Nobody

vars == <<sheet, asked>>

Change == [drop : SUBSET Marks, want : SUBSET Marks]

Init ==
    /\ sheet = {}
    /\ asked = [c \in Conns |-> Nobody]

Ask(c) ==
    /\ asked[c] = Nobody
    /\ \E drop, want \in SUBSET Marks :
          asked' = [asked EXCEPT ![c] = [drop |-> drop, want |-> want]]
    /\ UNCHANGED sheet

Answered(c) == asked[c] # Nobody /\ asked' = [asked EXCEPT ![c] = Nobody]

Grant(c) ==
    /\ Answered(c)
    /\ sheet' = (sheet \ asked[c].drop) \cup asked[c].want

Refuse(c) == Answered(c) /\ UNCHANGED sheet

Next == \E c \in Conns : Ask(c) \/ Grant(c) \/ Refuse(c)

Spec == Init /\ [][Next]_vars
=============================================================================
