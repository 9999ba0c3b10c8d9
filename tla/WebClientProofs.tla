--------------------------- MODULE WebClientProofs ---------------------------
(***************************************************************************)
(* Proofs about the parts of the web client: ClientBuild for any number of *)
(* edits and stops and whatever environments follow each other; QuizPage   *)
(* for any number of requests, its types, its loading parts and its marks  *)
(* for any quizzes, its ticks and saves for one; AssignmentPage for any    *)
(* assignments, texts and number of requests.                              *)
(***************************************************************************)
EXTENDS WebClient, EventPortsProofs, FiniteSetTheorems

-----------------------------------------------------------------------------
(* The build.                                                              *)

\* While files are still to be written the build is not taken to have ended,
\* and those that have been are of the version it compiled.
Underway ==
    todo # {} =>
        /\ built = None /\ building \in Versions /\ target # "none"
        /\ todo \subseteq Assets(target, building)
        /\ \A f \in Assets(target, building) \ todo : f \in DOMAIN dist /\ dist[f] = building

\* While the container runs for development no .gz page is in the volume.
Clean == target = "development" => PageGz \notin DOMAIN dist

\* A build that has ended is in the volume, and so is a .gz page only if it is
\* of that build.
Complete ==
    built # None =>
        /\ InDist(Page, built)
        /\ PageGz \in DOMAIN dist => dist[PageGz] = built
        /\ target = "development" => InDist(DevScript, built)

BuildInv == BuildTypeOK /\ Underway /\ Clean /\ Complete

-----------------------------------------------------------------------------

\* What is written of a version are files of the volume, the page among them.
LEMMA AssetsType ==
    ASSUME NEW t, NEW v \in Versions
    PROVE  /\ Assets(t, v) \subseteq Files
           /\ Page \in Assets(t, v)
           /\ t = "production" => PageGz \in Assets(t, v)
           /\ t # "production" => PageGz \notin Assets(t, v) /\ DevScript \in Assets(t, v)
  <1>1. PageGz # Page /\ PageGz # DevScript
    BY DEF PageGz, Page, DevScript
  <1> QED
    BY <1>1 DEF Assets, Files

LEMMA NoneIsNoVersion == None \notin Versions
  BY BuildAssumption DEF None, Versions

LEMMA InitBuild == BuildInit => BuildInv
  BY BuildAssumption
     DEF BuildInit, BuildInv, BuildTypeOK, Underway, Clean, Complete, Versions

\* Starting to compile begins with every file still to be written, over an
\* empty volume or, in watch mode, over what the last build left.
LEMMA CompileKeepsInv ==
    ASSUME BuildInv, NEW t \in Targets, Compile(t), target' = t,
           UNCHANGED <<source, kills>>,
           Clean', dist' = [f \in {} |-> 0] \/ dist' = dist
    PROVE  BuildInv'
  <1>1. source \in Versions
    BY DEF BuildInv, BuildTypeOK
  <1>2. BuildTypeOK'
    <2>1. DOMAIN dist' \subseteq Files /\ \A f \in DOMAIN dist' : dist'[f] \in Versions
      BY DEF BuildInv, BuildTypeOK
    <2> QED
      BY <1>1, <2>1, AssetsType DEF BuildInv, BuildTypeOK, Compile
  <1>3. Underway'
    BY <1>1, BuildAssumption DEF Underway, Compile
  <1>4. Complete'
    BY DEF Complete, Compile
  <1> QED
    BY <1>2, <1>3, <1>4 DEF BuildInv

\* Writing the last file makes the build complete; another one leaves it under
\* way.
LEMMA WriteKeepsInv ==
    ASSUME BuildInv, NEW f \in todo, Write(f)
    PROVE  BuildInv'
  <1>1. /\ building \in Versions /\ built = None
        /\ todo \subseteq Assets(target, building)
        /\ \A g \in Assets(target, building) \ todo : g \in DOMAIN dist /\ dist[g] = building
    BY DEF BuildInv, Underway
  <1>2. f \in Files
    BY DEF BuildInv, BuildTypeOK
  <1>3. BuildTypeOK'
    BY <1>1, <1>2 DEF BuildInv, BuildTypeOK, Write
  <1>4. \A g \in Assets(target, building) \ todo' : g \in DOMAIN dist' /\ dist'[g] = building
    BY <1>1 DEF Write
  <1>5. Underway'
    BY <1>1, <1>4 DEF BuildInv, Underway, Write
  <1>8. Clean'
    BY <1>1, AssetsType DEF BuildInv, Clean, Write
  <1>9. target \in {"production", "development"}
    BY BuildAssumption DEF BuildInv, BuildTypeOK, Underway
  <1>6. ASSUME todo = {f} PROVE Complete'
    <2>1. todo' = {} /\ built' = building
      BY <1>6 DEF Write
    <2>2. \A g \in Assets(target, building) : InDist(g, building)'
      BY <1>4, <2>1 DEF InDist, Write
    <2>3. InDist(Page, built)' /\ (target = "development" => InDist(DevScript, built))'
      BY <1>1, <2>1, <2>2, AssetsType DEF InDist, Write
    <2>4. PageGz \in DOMAIN dist' => dist'[PageGz] = built'
      <3>1. CASE target = "production"
        BY <1>1, <2>1, <2>2, <3>1, AssetsType DEF InDist, Write
      <3>2. CASE target = "development"
        BY <1>8, <3>2 DEF Clean, Write
      <3> QED
        BY <1>9, <3>1, <3>2
    <2> QED
      BY <2>3, <2>4 DEF Complete
  <1>7. ASSUME todo # {f} PROVE Complete'
    BY <1>1, <1>7 DEF Complete, Write
  <1> QED
    BY <1>3, <1>5, <1>6, <1>7, <1>8 DEF BuildInv

LEMMA NextBuild == BuildInv /\ [BuildNext]_buildVars => BuildInv'
  <1> SUFFICES ASSUME BuildInv, [BuildNext]_buildVars PROVE BuildInv'
    OBVIOUS
  <1> USE BuildAssumption
  <1>1. ASSUME NEW t \in Targets, Start(t) PROVE BuildInv'
    <2>1. Clean'
      BY <1>1 DEF Start, Clean
    <2> QED
      BY <1>1, <2>1, CompileKeepsInv DEF Start
  <1>2. CASE Rebuild
    <2>1. target \in Targets /\ target' = target
      BY <1>2 DEF Rebuild, BuildInv, BuildTypeOK
    <2>2. Clean'
      BY <1>2 DEF BuildInv, Clean, Rebuild
    <2> QED
      BY <1>2, <2>1, <2>2, CompileKeepsInv DEF Rebuild
  <1>3. ASSUME NEW f \in todo, Write(f) PROVE BuildInv'
    BY <1>3, WriteKeepsInv
  <1>4. CASE Stop
    BY <1>4 DEF BuildInv, BuildTypeOK, Underway, Clean, Complete, InDist, Stop
  <1>5. CASE Edit
    BY <1>5 DEF BuildInv, BuildTypeOK, Underway, Clean, Complete, InDist, Edit, Versions
  <1>6. CASE UNCHANGED buildVars
    BY <1>6 DEF BuildInv, BuildTypeOK, Underway, Clean, Complete, InDist, buildVars
  <1> QED
    BY <1>1, <1>2, <1>3, <1>4, <1>5, <1>6 DEF BuildNext

LEMMA BuildInvariant == BuildSpec => []BuildInv
  BY InitBuild, NextBuild, PTL DEF BuildSpec

\* The volume, the build under way and the container keep their types.
THEOREM BuildTypeCorrect == BuildSpec => []BuildTypeOK
  <1>1. BuildInv => BuildTypeOK
    BY DEF BuildInv
  <1> QED
    BY <1>1, BuildInvariant, PTL

\* Once a build is written, and until the next one is begun, every browser gets
\* its page, compressed or not, and in development its script: nothing of an
\* earlier build is taken instead, whatever targets follow each other and
\* wherever the container is stopped.
THEOREM BuiltIsServed == BuildSpec => []PageBuilt
  <1>1. BuildInv => PageBuilt
    BY DEF BuildInv, Complete, PageBuilt, PageServed, ScriptServed, Served, InDist
  <1> QED
    BY <1>1, BuildInvariant, PTL
-----------------------------------------------------------------------------
(* A page of quizzes: its requests, however many quizzes and requests      *)
(* there are and whatever the student does.                                *)

\* What each request can be answered with.
ResponsesOf(kind) ==
    {r \in WebData((SUBSET Options) \cup (SUBSET Quizzes)) :
        /\ r # NotAsked
        /\ r.is = "Success" =>
              /\ kind # "begin"
              /\ kind \in {"submissions", "begun"} => r.value \subseteq Quizzes
              /\ kind = "questions" => r = Success({})
              /\ kind \in {"answers", "save"} => r.value \subseteq Options}

\* A request when the quizzes S have been started: what it is answered with, and
\* that only options of a quiz that has been started are saved.
TypedIn(r, S) ==
    /\ r.response \in ResponsesOf(r.kind)
    /\ r.kind \in {"submissions", "begun"} /\ r.response.is = "Success" => r.response.value \subseteq S
    /\ r.kind \in {"begun", "save"} => r.quiz \in S
    /\ r.kind = "save" => r.body \subseteq OptionsOf(r.quiz)

ListStarted == submissions.is = "Success" => submissions.value \subseteq started

TypesInv == QuizTypeOK /\ ListStarted /\ \A i \in InFlight : TypedIn(requests[i], started)

\* The states of RemoteData can be told from each other.
LEMMA RemoteData ==
    /\ NotAsked.is = "NotAsked" /\ Loading.is = "Loading" /\ Failure.is = "Failure"
    /\ \A x : Success(x).is = "Success" /\ Success(x).value = x
  BY DEF NotAsked, Loading, Failure, Success

\* Every option is one of a question of a quiz.
LEMMA OptionsHaveQuiz ==
    /\ \A o \in Options : QuestionOf[o] \in Questions /\ QuizOf[QuestionOf[o]] \in Quizzes
    /\ \A o \in Options : o \in Alternatives(o) /\ Alternatives(o) \subseteq Options
  BY PagesAssumption DEF QuizPageAssumption, Alternatives

\* There is room for the two requests that open a quiz.
LEMMA TwoUnused ==
    ASSUME NEW S, IsFiniteSet(S), Cardinality(S) >= 2
    PROVE  \E i \in S : S \ {i} # {}
  <1>1. S # {}
    BY FS_EmptySet
  <1>2. PICK i \in S : TRUE
    BY <1>1
  <1>3. Cardinality(S \ {i}) = Cardinality(S) - 1 /\ Cardinality(S) \in Nat
    BY FS_RemoveElement, FS_CardinalityType
  <1>4. S \ {i} # {}
    BY <1>3, FS_EmptySet
  <1> QED
    BY <1>4

\* A change of one place in the requests.
LEMMA OnePlace ==
    ASSUME requests \in [Slots -> Request \cup {Free}], NEW i \in Slots, NEW r,
           requests' = [requests EXCEPT ![i] = r]
    PROVE  /\ requests'[i] = r /\ \A j \in Slots \ {i} : requests'[j] = requests[j]
           /\ r = Free => InFlight' = InFlight \ {i}
           /\ r # Free => InFlight' = InFlight \cup {i}
           /\ r \in Request \cup {Free} => requests' \in [Slots -> Request \cup {Free}]
  BY DEF InFlight

LEMMA FreeIsNoRequest == Free \notin Request /\ Free.kind \notin Kinds
  BY DEF Free, Request, Kinds

\* A request that is answered stays in its place.
LEMMA AnswerPlace ==
    ASSUME QuizTypeOK, NEW i \in InFlight, NEW x \in WebData((SUBSET Options) \cup (SUBSET Quizzes)),
           Answer(i, x)
    PROVE  /\ requests' \in [Slots -> Request \cup {Free}] /\ InFlight' = InFlight
           /\ requests'[i].response = x /\ requests'[i].kind = requests[i].kind
           /\ requests'[i].quiz = requests[i].quiz /\ requests'[i].body = requests[i].body
           /\ \A j \in Slots \ {i} : requests'[j] = requests[j]
  <1> DEFINE r == [requests[i] EXCEPT !.response = x]
  <1>1. i \in Slots /\ requests[i] \in Request /\ requests \in [Slots -> Request \cup {Free}]
    BY DEF QuizTypeOK, InFlight
  <1>2. /\ r \in Request /\ r.response = x /\ r.kind = requests[i].kind
        /\ r.quiz = requests[i].quiz /\ r.body = requests[i].body
    BY <1>1 DEF Request
  <1>3. requests' = [requests EXCEPT ![i] = r]
    BY DEF Answer
  <1> HIDE DEF r
  <1>4. r # Free
    BY <1>2, FreeIsNoRequest
  <1>5. /\ requests'[i] = r /\ \A j \in Slots \ {i} : requests'[j] = requests[j]
        /\ InFlight' = InFlight \cup {i} /\ requests' \in [Slots -> Request \cup {Free}]
    BY <1>1, <1>2, <1>3, <1>4, OnePlace
  <1> QED
    BY <1>2, <1>5

LEMMA AnswerType ==
    ASSUME NEW A, A \subseteq Options \/ A \subseteq Quizzes
    PROVE  Success(A) \in WebData((SUBSET Options) \cup (SUBSET Quizzes))
  <1>1. A \in (SUBSET Options) \cup (SUBSET Quizzes)
    OBVIOUS
  <1> QED
    BY <1>1 DEF WebData

\* A request that is sent is one, and waits for its answer.
LEMMA AskType ==
    ASSUME NEW q \in Quizzes, NEW kind \in Kinds, NEW body \in SUBSET Options
    PROVE  /\ Ask(kind, q, body) \in Request /\ Ask(kind, q, body) # Free
           /\ Ask(kind, q, body).kind = kind /\ Ask(kind, q, body).quiz = q
           /\ Ask(kind, q, body).body = body /\ Ask(kind, q, body).response = Loading
           /\ Loading \in ResponsesOf(kind)
  <1>1. Ask(kind, q, body) \in Request /\ Loading \in ResponsesOf(kind)
    BY RemoteData DEF Ask, Request, ResponsesOf, WebData
  <1> QED
    BY <1>1, FreeIsNoRequest DEF Ask

\* A request that is sent goes where none was.
LEMMA SendPlace ==
    ASSUME QuizTypeOK, Unused # {}, NEW r \in Request, requests' = [requests EXCEPT ![First] = r]
    PROVE  \E i \in Slots \ InFlight :
              /\ requests' \in [Slots -> Request \cup {Free}] /\ InFlight' = InFlight \cup {i}
              /\ requests'[i] = r /\ \A j \in Slots \ {i} : requests'[j] = requests[j]
  <1>1. First \in Slots \ InFlight
    BY DEF First, Unused
  <1>2. r # Free
    BY FreeIsNoRequest
  <1> QED
    BY <1>1, <1>2, OnePlace DEF QuizTypeOK

\* The two requests that open a quiz go where none was.
LEMMA OpenPlaces ==
    ASSUME NEW q \in Quizzes, NEW rest \in [Slots -> Request \cup {Free}], TakeQuiz(q, rest)
    PROVE  /\ requests' \in [Slots -> Request \cup {Free}]
           /\ \E i, j \in Slots :
                 /\ i # j /\ rest[i] = Free /\ rest[j] = Free
                 /\ requests'[i] = Ask("questions", q, {}) /\ requests'[j] = Ask("answers", q, {})
                 /\ \A k \in Slots \ {i, j} : requests'[k] = rest[k]
  <1> DEFINE F == {k \in Slots : rest[k] = Free}
             i == CHOOSE k \in F : TRUE
             j == CHOOSE k \in {k \in Slots \ {i} : rest[k] = Free} : TRUE
             a == Ask("questions", q, {})
             b == Ask("answers", q, {})
  <1>1. Cardinality(F) >= 2 /\ requests' = [rest EXCEPT ![i] = a, ![j] = b]
    BY DEF TakeQuiz
  <1>2. IsFiniteSet(F)
    BY FS_Subset, PagesAssumption DEF QuizPageAssumption
  <1>3. PICK one \in F : F \ {one} # {}
    BY <1>1, <1>2, TwoUnused
  <1>4. i \in F
    BY <1>3
  <1>5. F \ {i} # {} /\ {k \in Slots \ {i} : rest[k] = Free} = F \ {i}
    BY <1>3, <1>4
  <1>6. j \in F \ {i}
    BY <1>5
  <1>7. a \in Request /\ b \in Request
    <2>1. {} \in SUBSET Options /\ {"questions", "answers"} \subseteq Kinds
      BY DEF Kinds
    <2> QED
      BY <2>1, AskType
  <1>8. i \in Slots /\ j \in Slots /\ i # j /\ rest[i] = Free /\ rest[j] = Free
    BY <1>4, <1>6
  <1> HIDE DEF F, i, j, a, b
  <1>9. /\ requests' \in [Slots -> Request \cup {Free}]
        /\ requests'[i] = a /\ requests'[j] = b
        /\ \A k \in Slots \ {i, j} : requests'[k] = rest[k]
    BY <1>1, <1>7, <1>8
  <1> QED
    BY <1>8, <1>9 DEF a, b

\* A request that is done with leaves the others as they are.
LEMMA DonePlace ==
    ASSUME QuizTypeOK, NEW i \in InFlight
    PROVE  /\ Done(i) \in [Slots -> Request \cup {Free}] /\ Done(i)[i] = Free
           /\ \A j \in Slots \ {i} : Done(i)[j] = requests[j]
           /\ requests' = Done(i) => InFlight' = InFlight \ {i}
  <1>1. i \in Slots /\ requests \in [Slots -> Request \cup {Free}]
    BY DEF QuizTypeOK, InFlight
  <1> QED
    BY <1>1 DEF Done, InFlight

\* What an answer that arrives is.
LEMMA ArrivedTyped ==
    ASSUME TypesInv, NEW i \in Slots, NEW kinds, Arrives(i, kinds)
    PROVE  /\ i \in InFlight /\ requests[i] \in Request /\ requests[i].kind \in kinds
           /\ requests[i].quiz \in Quizzes /\ TypedIn(requests[i], started)
           /\ \/ requests[i].response = Failure
              \/ requests[i].response.is = "Success"
                 /\ requests[i].response = Success(requests[i].response.value)
  <1>1. /\ i \in InFlight /\ requests[i] \in Request /\ requests[i].kind \in kinds
        /\ requests[i].quiz \in Quizzes /\ TypedIn(requests[i], started)
        /\ requests[i].response # Loading
    BY DEF Arrives, TypesInv, QuizTypeOK, InFlight, Request
  <1>2. requests[i].response \in ResponsesOf(requests[i].kind)
    BY <1>1 DEF TypedIn
  <1>3. \/ requests[i].response = Failure
        \/ \E x : requests[i].response = Success(x)
    BY <1>1, <1>2 DEF ResponsesOf, WebData
  <1> QED
    BY <1>1, <1>3, RemoteData

-----------------------------------------------------------------------------
(* The types, step by step.                                                *)

\* Requests that stay, are done with, or are typed, keep the types.
LEMMA TypesKept ==
    ASSUME TypesInv, QuizTypeOK', ListStarted', started \subseteq started',
           \A k \in Slots : \/ requests'[k] \in {requests[k], Free}
                            \/ TypedIn(requests'[k], started')
    PROVE  TypesInv'
  <1>1. ASSUME NEW k \in InFlight' PROVE TypedIn(requests[k], started)'
    <2>1. k \in Slots /\ requests'[k] # Free
      BY DEF InFlight
    <2>2. CASE requests'[k] = requests[k]
      <3>1. TypedIn(requests[k], started)
        BY <2>1, <2>2 DEF TypesInv, InFlight
      <3> QED
        BY <2>2, <3>1 DEF TypedIn
    <2> QED
      BY <2>1, <2>2
  <1> QED
    BY <1>1 DEF TypesInv

LEMMA ReadTypes ==
    ASSUME TypesInv, NEW i \in Slots, Read(i)
    PROVE  /\ TypesInv' /\ i \in InFlight /\ requests[i].response = Loading
           /\ InFlight' = InFlight /\ \A j \in Slots \ {i} : requests'[j] = requests[j]
           /\ requests'[i].kind = requests[i].kind /\ requests'[i].quiz = requests[i].quiz
           /\ requests'[i].body = requests[i].body
           /\ \/ /\ requests[i].kind \in {"submissions", "begun"}
                 /\ requests'[i].response = Success(started)
              \/ requests[i].kind = "questions" /\ requests'[i].response = Success({})
              \/ /\ requests[i].kind = "answers"
                 /\ requests'[i].response = Success(saved \cap OptionsOf(requests[i].quiz))
           /\ UNCHANGED <<started, saved, submissions, pendingBegin, pendingSubmit, quizQuestions,
                          quizAnswers, inputs, toggled>>
  <1> DEFINE r == requests[i]
             x == requests'[i].response
             W == WebData((SUBSET Options) \cup (SUBSET Quizzes))
             A == saved \cap OptionsOf(r.quiz)
  <1>1. /\ QuizTypeOK /\ i \in InFlight /\ r \in Request /\ TypedIn(r, started)
        /\ started \subseteq Quizzes /\ saved \subseteq Options /\ r.response = Loading
        /\ UNCHANGED <<started, saved, submissions, pendingBegin, pendingSubmit, quizQuestions,
                       quizAnswers, inputs, toggled>>
    BY DEF TypesInv, Read, Waiting, InFlight, QuizTypeOK, db, begins, answers
  <1>2. /\ \/ r.kind \in {"submissions", "begun"} /\ Answer(i, Success(started))
           \/ r.kind = "questions" /\ Answer(i, Success({}))
           \/ r.kind = "answers" /\ Answer(i, Success(A))
    BY DEF Read, Waiting
  <1>3. Success(started) \in W /\ Success({}) \in W /\ Success(A) \in W
    <2>1. {} \subseteq Options /\ A \subseteq Options
      BY <1>1
    <2> QED
      BY <1>1, <2>1, AnswerType
  <1>4. /\ requests' \in [Slots -> Request \cup {Free}] /\ InFlight' = InFlight
        /\ requests'[i].kind = r.kind /\ requests'[i].quiz = r.quiz /\ requests'[i].body = r.body
        /\ \A j \in Slots \ {i} : requests'[j] = requests[j]
        /\ \/ r.kind \in {"submissions", "begun"} /\ x = Success(started)
           \/ r.kind = "questions" /\ x = Success({})
           \/ r.kind = "answers" /\ x = Success(A)
    BY <1>1, <1>2, <1>3, AnswerPlace
  <1>5. x \in ResponsesOf(r.kind)
    <2>1. A \subseteq Options
      BY <1>1
    <2> QED
      BY <1>1, <1>3, <1>4, <2>1, RemoteData DEF ResponsesOf
  <1>6. TypedIn(requests'[i], started')
    BY <1>1, <1>4, <1>5, RemoteData DEF TypedIn
  <1>7. QuizTypeOK' /\ ListStarted'
    BY <1>1, <1>4 DEF QuizTypeOK, TypesInv, ListStarted
  <1>8. TypesInv'
    BY <1>1, <1>4, <1>6, <1>7, TypesKept
  <1> QED
    BY <1>1, <1>4, <1>8

LEMMA FailsTypes ==
    ASSUME TypesInv, NEW i \in Slots, Fails(i)
    PROVE  /\ TypesInv' /\ i \in InFlight
           /\ InFlight' = InFlight /\ \A j \in Slots \ {i} : requests'[j] = requests[j]
           /\ requests'[i].kind = requests[i].kind /\ requests'[i].quiz = requests[i].quiz
           /\ requests'[i].body = requests[i].body /\ requests'[i].response = Failure
           /\ UNCHANGED <<started, saved, submissions, pendingBegin, pendingSubmit, quizQuestions,
                          quizAnswers, inputs, toggled>>
  <1>1. /\ QuizTypeOK /\ i \in InFlight /\ TypedIn(requests[i], started) /\ Answer(i, Failure)
        /\ UNCHANGED <<started, saved, submissions, pendingBegin, pendingSubmit, quizQuestions,
                       quizAnswers, inputs, toggled>>
    BY DEF TypesInv, Fails, InFlight, db, begins, answers
  <1>2. Failure \in WebData((SUBSET Options) \cup (SUBSET Quizzes))
    BY DEF WebData
  <1>3. /\ requests' \in [Slots -> Request \cup {Free}] /\ InFlight' = InFlight
        /\ requests'[i].kind = requests[i].kind /\ requests'[i].quiz = requests[i].quiz
        /\ requests'[i].body = requests[i].body /\ requests'[i].response = Failure
        /\ \A j \in Slots \ {i} : requests'[j] = requests[j]
    BY <1>1, <1>2, AnswerPlace
  <1>4. Failure \in ResponsesOf(requests[i].kind)
    BY <1>2, RemoteData DEF ResponsesOf
  <1>5. TypedIn(requests'[i], started')
    BY <1>1, <1>3, <1>4, RemoteData DEF TypedIn
  <1>6. QuizTypeOK' /\ ListStarted'
    BY <1>1, <1>3 DEF QuizTypeOK, TypesInv, ListStarted
  <1>7. TypesInv'
    BY <1>1, <1>3, <1>5, <1>6, TypesKept
  <1> QED
    BY <1>1, <1>3, <1>7

\* A submission that cannot be inserted is a request that fails.
LEMMA InsertTypes ==
    ASSUME TypesInv, NEW i \in Slots, Insert(i)
    PROVE  /\ TypesInv' /\ i \in InFlight /\ requests[i].kind = "begin"
           /\ \/ Fails(i)
              \/ /\ InFlight' = InFlight /\ \A j \in Slots \ {i} : requests'[j] = requests[j]
                 /\ requests'[i].kind = "begun" /\ requests'[i].quiz = requests[i].quiz
                 /\ requests'[i].response = Loading
                 /\ started \subseteq started'
                 /\ UNCHANGED <<saved, submissions, pendingBegin, pendingSubmit, quizQuestions,
                                quizAnswers, inputs, toggled>>
  <1> DEFINE r == requests[i]
             q == r.quiz
  <1>1. /\ QuizTypeOK /\ i \in InFlight /\ r \in Request /\ TypedIn(r, started) /\ q \in Quizzes
        /\ r.kind = "begin" /\ r.response = Loading
        /\ UNCHANGED <<saved, submissions, pendingBegin, pendingSubmit, quizQuestions,
                       quizAnswers, inputs, toggled>>
    BY DEF TypesInv, Insert, Waiting, InFlight, QuizTypeOK, Request, begins, answers
  <1>2. CASE q \in started
    <2>1. Answer(i, Failure) /\ UNCHANGED started
      BY <1>2 DEF Insert
    <2>2. Fails(i)
      BY <1>1, <2>1, RemoteData DEF Fails, InFlight, db, begins, answers
    <2> QED
      BY <1>1, <2>2, FailsTypes
  <1>3. CASE q \notin started
    <2> DEFINE s == [r EXCEPT !.kind = "begun"]
    <2>1. started' = started \cup {q} /\ requests' = [requests EXCEPT ![i] = s]
      BY <1>3 DEF Insert
    <2>2. s \in Request /\ s.kind = "begun" /\ s.response = Loading /\ s.quiz = q
      BY <1>1 DEF Request, Kinds
    <2> HIDE DEF s
    <2>3. /\ requests'[i] = s /\ InFlight' = InFlight
          /\ requests' \in [Slots -> Request \cup {Free}]
          /\ \A j \in Slots \ {i} : requests'[j] = requests[j]
      <3>1. s # Free /\ requests \in [Slots -> Request \cup {Free}]
        BY <1>1, <2>2, FreeIsNoRequest DEF QuizTypeOK
      <3>2. InFlight' = InFlight \cup {i}
        BY <2>1, <3>1, OnePlace
      <3> QED
        BY <1>1, <2>1, <2>2, <3>1, <3>2, OnePlace
    <2>4. QuizTypeOK'
      <3>1. saved \subseteq {o \in Options : QuizOf[QuestionOf[o]] \in started'}
        <4>1. saved \subseteq {o \in Options : QuizOf[QuestionOf[o]] \in started}
          BY <1>1 DEF QuizTypeOK
        <4> QED
          BY <2>1, <4>1
      <3> QED
        BY <1>1, <2>1, <2>3, <3>1 DEF QuizTypeOK
    <2>5. ListStarted'
      BY <1>1, <2>1 DEF TypesInv, ListStarted
    <2>6. TypedIn(s, started')
      <3>1. Loading \in ResponsesOf("begun")
        BY RemoteData DEF ResponsesOf, WebData
      <3> QED
        BY <2>1, <2>2, <3>1, RemoteData DEF TypedIn
    <2>7. TypesInv'
      BY <2>1, <2>3, <2>4, <2>5, <2>6, TypesKept
    <2> QED
      BY <1>1, <2>1, <2>2, <2>3, <2>7
  <1> QED
    BY <1>2, <1>3

LEMMA SaveTypes ==
    ASSUME TypesInv, NEW i \in Slots, SaveQuiz(i)
    PROVE  /\ TypesInv' /\ i \in InFlight /\ requests[i].kind = "save"
           /\ requests[i].response = Loading /\ requests[i].body \subseteq OptionsOf(requests[i].quiz)
           /\ InFlight' = InFlight /\ \A j \in Slots \ {i} : requests'[j] = requests[j]
           /\ requests'[i].kind = "save" /\ requests'[i].quiz = requests[i].quiz
           /\ requests'[i].body = requests[i].body
           /\ requests'[i].response = Success(requests[i].body)
           /\ saved' = (saved \ OptionsOf(requests[i].quiz)) \cup requests[i].body
           /\ UNCHANGED <<started, submissions, pendingBegin, pendingSubmit, quizQuestions,
                          quizAnswers, inputs, toggled>>
  <1> DEFINE r == requests[i]
  <1>1. /\ QuizTypeOK /\ i \in InFlight /\ r \in Request /\ TypedIn(r, started)
        /\ r.kind = "save" /\ r.response = Loading /\ r.body \subseteq OptionsOf(r.quiz)
        /\ saved' = (saved \ OptionsOf(r.quiz)) \cup r.body /\ Answer(i, Success(r.body))
        /\ UNCHANGED <<started, submissions, pendingBegin, pendingSubmit, quizQuestions,
                       quizAnswers, inputs, toggled>>
    BY DEF TypesInv, SaveQuiz, Waiting, InFlight, QuizTypeOK, Request, begins, answers, TypedIn
  <1>2. r.body \subseteq Options
    BY <1>1 DEF OptionsOf
  <1>3. Success(r.body) \in WebData((SUBSET Options) \cup (SUBSET Quizzes))
    BY <1>2, AnswerType
  <1>4. /\ requests' \in [Slots -> Request \cup {Free}] /\ InFlight' = InFlight
        /\ requests'[i].kind = "save" /\ requests'[i].quiz = r.quiz /\ requests'[i].body = r.body
        /\ requests'[i].response = Success(r.body)
        /\ \A j \in Slots \ {i} : requests'[j] = requests[j]
    BY <1>1, <1>3, AnswerPlace
  <1>5. QuizTypeOK' /\ ListStarted'
    <2>1. saved' \subseteq {o \in Options : QuizOf[QuestionOf[o]] \in started}
      BY <1>1 DEF TypedIn, OptionsOf, QuizTypeOK
    <2> QED
      BY <1>1, <1>4, <2>1 DEF QuizTypeOK, TypesInv, ListStarted
  <1>6. TypedIn(requests'[i], started')
    <2>1. Success(r.body) \in ResponsesOf("save")
      BY <1>2, <1>3, RemoteData DEF ResponsesOf
    <2> QED
      BY <1>1, <1>4, <2>1 DEF TypedIn
  <1>7. TypesInv'
    BY <1>1, <1>4, <1>5, <1>6, TypesKept
  <1> QED
    BY <1>1, <1>4, <1>7

\* Opening a quiz sends two requests.
LEMMA OpenTypes ==
    ASSUME TypesInv, NEW q \in Quizzes, NEW rest \in [Slots -> Request \cup {Free}],
           \A k \in Slots : rest[k] \in {requests[k], Free}, TakeQuiz(q, rest),
           UNCHANGED <<started, saved>>,
           submissions' \in WebData(SUBSET Quizzes), ListStarted',
           pendingBegin' \in [Quizzes -> {NotAsked, Loading, Failure}]
    PROVE  TypesInv'
  <1>1. PICK i, j \in Slots :
           /\ requests'[i] = Ask("questions", q, {}) /\ requests'[j] = Ask("answers", q, {})
           /\ \A k \in Slots \ {i, j} : requests'[k] = rest[k]
    BY OpenPlaces
  <1>2. requests' \in [Slots -> Request \cup {Free}]
    BY OpenPlaces
  <1>3. TypedIn(requests'[i], started') /\ TypedIn(requests'[j], started')
    <2>1. {} \in SUBSET Options /\ {"questions", "answers"} \subseteq Kinds
      BY DEF Kinds
    <2> QED
      BY <1>1, <2>1, AskType, RemoteData DEF TypedIn
  <1>4. QuizTypeOK'
    <2>1. /\ quizQuestions' = [quizQuestions EXCEPT ![q] = Loading]
          /\ quizAnswers' = [quizAnswers EXCEPT ![q] = Loading]
          /\ UNCHANGED <<pendingSubmit, inputs, toggled>>
      BY DEF TakeQuiz
    <2>2. Loading \in WebData(SUBSET Options)
      BY DEF WebData
    <2> QED
      BY <1>2, <2>1, <2>2 DEF QuizTypeOK, TypesInv
  <1>5. \A k \in Slots : requests'[k] \in {requests[k], Free} \/ TypedIn(requests'[k], started')
    BY <1>1, <1>3
  <1> QED
    BY <1>4, <1>5, TypesKept

LEMMA StudentTypes ==
    ASSUME TypesInv, Student
    PROVE  TypesInv'
  <1>1. /\ QuizTypeOK /\ ListStarted /\ requests \in [Slots -> Request \cup {Free}]
        /\ submissions \in WebData(SUBSET Quizzes) /\ inputs \subseteq Options /\ toggled \subseteq Options
        /\ pendingBegin \in [Quizzes -> {NotAsked, Loading, Failure}]
    BY DEF TypesInv, QuizTypeOK
  <1>2. ASSUME NEW q \in Quizzes, OnBeginQuiz(q) PROVE TypesInv'
    <2> DEFINE r == Ask("begin", q, {})
    <2>1. r \in Request /\ TypedIn(r, started)
      <3>1. {} \in SUBSET Options /\ "begin" \in Kinds
        BY DEF Kinds
      <3> QED
        BY <3>1, AskType, RemoteData DEF TypedIn
    <2>2. /\ Unused # {} /\ requests' = [requests EXCEPT ![First] = r]
          /\ pendingBegin' = [pendingBegin EXCEPT ![q] = Loading]
          /\ UNCHANGED <<started, saved, submissions, pendingSubmit, quizQuestions, quizAnswers,
                         inputs, toggled>>
      BY <1>2 DEF OnBeginQuiz, db, answers
    <2> HIDE DEF r
    <2>3. PICK i \in Slots : /\ requests' \in [Slots -> Request \cup {Free}] /\ requests'[i] = r
                             /\ \A j \in Slots \ {i} : requests'[j] = requests[j]
      BY <1>1, <2>1, <2>2, SendPlace
    <2>4. QuizTypeOK' /\ ListStarted'
      BY <1>1, <2>2, <2>3 DEF QuizTypeOK, ListStarted
    <2> QED
      BY <2>1, <2>2, <2>3, <2>4, TypesKept
  <1>3. ASSUME NEW q \in Quizzes, EditQuiz(q) PROVE TypesInv'
    <2>1. TakeQuiz(q, requests) /\ UNCHANGED <<started, saved, submissions, pendingBegin>>
      BY <1>3 DEF EditQuiz, db, begins
    <2>2. ListStarted'
      BY <1>1, <2>1 DEF ListStarted
    <2> QED
      BY <1>1, <2>1, <2>2, OpenTypes
  <1>4. ASSUME NEW q \in Quizzes, OnSubmitQuizAnswers(q) PROVE TypesInv'
    <2> DEFINE A == inputs \cap OptionsOf(q)
               r == Ask("save", q, A)
    <2>1. q \in started
      BY <1>1, <1>4 DEF OnSubmitQuizAnswers, FormShown, Shown, ListStarted
    <2>2. r \in Request /\ TypedIn(r, started)
      <3>1. A \in SUBSET Options /\ A \subseteq OptionsOf(q) /\ "save" \in Kinds
        BY <1>1 DEF Kinds
      <3> QED
        BY <2>1, <3>1, AskType, RemoteData DEF TypedIn
    <2>3. /\ Unused # {} /\ requests' = [requests EXCEPT ![First] = r]
          /\ pendingSubmit' = [pendingSubmit EXCEPT ![q] = Loading]
          /\ UNCHANGED <<started, saved, submissions, pendingBegin, quizQuestions, quizAnswers,
                         inputs, toggled>>
      BY <1>4 DEF OnSubmitQuizAnswers, db, begins
    <2> HIDE DEF r
    <2>4. PICK i \in Slots : /\ requests' \in [Slots -> Request \cup {Free}] /\ requests'[i] = r
                             /\ \A j \in Slots \ {i} : requests'[j] = requests[j]
      BY <1>1, <2>2, <2>3, SendPlace
    <2>5. QuizTypeOK' /\ ListStarted'
      BY <1>1, <2>3, <2>4 DEF QuizTypeOK, ListStarted
    <2> QED
      BY <2>2, <2>3, <2>4, <2>5, TypesKept
  <1>5. ASSUME NEW o \in Options, OnToggleQuizQuestionOption(o) \/ OnSelectQuizQuestionOption(o)
        PROVE  TypesInv'
    <2>1. UNCHANGED <<started, saved, requests, submissions, pendingBegin, pendingSubmit,
                      quizQuestions, quizAnswers>>
      BY <1>5 DEF OnToggleQuizQuestionOption, OnSelectQuizQuestionOption, db, begins
    <2>2. inputs' \subseteq Options /\ toggled' \subseteq Options
      BY <1>1, <1>5, OptionsHaveQuiz DEF OnToggleQuizQuestionOption, OnSelectQuizQuestionOption
    <2>3. QuizTypeOK' /\ ListStarted'
      BY <1>1, <2>1, <2>2 DEF QuizTypeOK, ListStarted
    <2> QED
      BY <2>1, <2>3, TypesKept
  <1> QED
    BY <1>2, <1>3, <1>4, <1>5 DEF Student

\* A response is typed for the part of the page it goes to.
LEMMA ReceiveTypes ==
    ASSUME TypesInv, NEW i \in Slots, Receive(i)
    PROVE  TypesInv'
  <1> DEFINE r == requests[i]
             q == r.quiz
             x == r.response
  <1>1. /\ QuizTypeOK /\ ListStarted /\ submissions \in WebData(SUBSET Quizzes)
        /\ pendingBegin \in [Quizzes -> {NotAsked, Loading, Failure}]
    BY DEF TypesInv, QuizTypeOK
  <1>2. /\ i \in InFlight /\ r \in Request /\ q \in Quizzes /\ TypedIn(r, started)
        /\ x \in ResponsesOf(r.kind)
        /\ \/ x = Failure
           \/ x.is = "Success" /\ x = Success(x.value)
    <2>1. \E kinds : Arrives(i, kinds)
      BY DEF Receive, OnFetchQuizSubmissions, OnBeginQuizComplete, OnFetchQuizQuestions,
         OnFetchQuizAnswers, OnSubmitQuizAnswersComplete
    <2> QED
      BY <2>1, ArrivedTyped DEF TypedIn
  <1>3. /\ Done(i) \in [Slots -> Request \cup {Free}]
        /\ \A k \in Slots : Done(i)[k] \in {requests[k], Free}
    BY <1>1, <1>2, DonePlace
  <1>4. CASE OnFetchQuizSubmissions(i)
    <2>1. /\ submissions' = x /\ requests' = Done(i) /\ r.kind = "submissions"
          /\ UNCHANGED <<started, saved, pendingBegin, pendingSubmit, quizQuestions, quizAnswers,
                         inputs, toggled>>
      BY <1>4 DEF OnFetchQuizSubmissions, Arrives, db, answers
    <2>2. x \in WebData(SUBSET Quizzes) /\ (x.is = "Success" => x.value \subseteq started)
      <3>1. x.is = "Success" => x.value \in SUBSET Quizzes
        BY <1>2, <2>1 DEF ResponsesOf
      <3> QED
        BY <1>2, <2>1, <3>1, RemoteData DEF TypedIn, WebData
    <2>3. QuizTypeOK' /\ ListStarted'
      BY <1>1, <1>3, <2>1, <2>2 DEF QuizTypeOK, ListStarted
    <2> QED
      BY <1>3, <2>1, <2>3, TypesKept
  <1>5. CASE OnBeginQuizComplete(i)
    <2>1. /\ TakeQuiz(q, Done(i)) /\ UNCHANGED <<started, saved>> /\ r.kind \in {"begin", "begun"}
          /\ IF x.is = "Success"
             THEN pendingBegin' = [pendingBegin EXCEPT ![q] = NotAsked] /\ submissions' = x
             ELSE pendingBegin' = [pendingBegin EXCEPT ![q] = x] /\ UNCHANGED submissions
      BY <1>5 DEF OnBeginQuizComplete, Arrives, db
    <2>2. x.is = "Success" => x.value \in SUBSET Quizzes /\ x.value \subseteq started
      BY <1>2, <2>1 DEF ResponsesOf, TypedIn
    <2>3. submissions' \in WebData(SUBSET Quizzes) /\ ListStarted'
      BY <1>1, <1>2, <2>1, <2>2, RemoteData DEF WebData, ListStarted
    <2>4. pendingBegin' \in [Quizzes -> {NotAsked, Loading, Failure}]
      BY <1>1, <1>2, <2>1, RemoteData
    <2> QED
      BY <1>2, <1>3, <2>1, <2>3, <2>4, OpenTypes
  <1>6. CASE OnFetchQuizQuestions(i)
    <2>1. /\ quizQuestions' = [quizQuestions EXCEPT ![q] = x] /\ requests' = Done(i)
          /\ r.kind = "questions"
          /\ UNCHANGED <<started, saved, submissions, pendingBegin, pendingSubmit, quizAnswers,
                         inputs, toggled>>
      BY <1>6 DEF OnFetchQuizQuestions, Arrives, db, begins
    <2>2. x \in {Failure, Success({})}
      BY <1>2, <2>1 DEF ResponsesOf
    <2>3. QuizTypeOK' /\ ListStarted'
      BY <1>1, <1>3, <2>1, <2>2 DEF QuizTypeOK, ListStarted
    <2> QED
      BY <1>3, <2>1, <2>3, TypesKept
  <1>7. CASE OnFetchQuizAnswers(i)
    <2>1. /\ quizAnswers' = [quizAnswers EXCEPT ![q] = x] /\ requests' = Done(i)
          /\ r.kind = "answers"
          /\ IF x.is = "Success"
             THEN inputs' = x.value /\ toggled' = toggled \ OptionsOf(q)
             ELSE UNCHANGED <<inputs, toggled>>
          /\ UNCHANGED <<started, saved, submissions, pendingBegin, pendingSubmit, quizQuestions>>
      BY <1>7 DEF OnFetchQuizAnswers, Arrives, db, begins
    <2>2. x.is = "Success" => x.value \in SUBSET Options
      BY <1>2, <2>1 DEF ResponsesOf
    <2>3. x \in WebData(SUBSET Options)
      BY <1>2, <2>2 DEF WebData
    <2>4. inputs' \subseteq Options /\ toggled' \subseteq Options
      BY <1>1, <2>1, <2>2 DEF QuizTypeOK
    <2>5. QuizTypeOK' /\ ListStarted'
      BY <1>1, <1>3, <2>1, <2>3, <2>4 DEF QuizTypeOK, ListStarted
    <2> QED
      BY <1>3, <2>1, <2>5, TypesKept
  <1>8. CASE OnSubmitQuizAnswersComplete(i)
    <2>1. /\ quizAnswers' = [quizAnswers EXCEPT ![q] = x] /\ requests' = Done(i)
          /\ r.kind = "save"
          /\ pendingSubmit' = [pendingSubmit EXCEPT ![q] = IF x.is = "Success" THEN NotAsked ELSE x]
          /\ UNCHANGED <<started, saved, submissions, pendingBegin, quizQuestions, inputs, toggled>>
      BY <1>8 DEF OnSubmitQuizAnswersComplete, Arrives, db, begins
    <2>2. x.is = "Success" => x.value \in SUBSET Options
      BY <1>2, <2>1 DEF ResponsesOf
    <2>3. /\ x \in WebData(SUBSET Options)
          /\ (IF x.is = "Success" THEN NotAsked ELSE x) \in {NotAsked, Failure}
      BY <1>2, <2>2, RemoteData DEF WebData
    <2>4. QuizTypeOK' /\ ListStarted'
      BY <1>1, <1>3, <2>1, <2>3 DEF QuizTypeOK, ListStarted
    <2> QED
      BY <1>3, <2>1, <2>4, TypesKept
  <1> QED
    BY <1>4, <1>5, <1>6, <1>7, <1>8 DEF Receive

LEMMA InitTypes == Init => TypesInv
  <1> DEFINE i == CHOOSE k \in Slots : TRUE
             p == CHOOSE q \in Quizzes : TRUE
             r == Ask("submissions", p, {})
  <1> SUFFICES ASSUME Init PROVE TypesInv
    OBVIOUS
  <1>1. /\ started \subseteq Quizzes /\ saved \subseteq {o \in Options : QuizOf[QuestionOf[o]] \in started}
        /\ requests = [[j \in Slots |-> Free] EXCEPT ![i] = r]
        /\ submissions = Loading /\ inputs = {} /\ toggled = {}
        /\ pendingBegin = [q \in Quizzes |-> NotAsked] /\ pendingSubmit = [q \in Quizzes |-> NotAsked]
        /\ quizQuestions = [q \in Quizzes |-> NotAsked] /\ quizAnswers = [q \in Quizzes |-> NotAsked]
    BY DEF Init
  <1>2. r \in Request /\ TypedIn(r, started)
    <2>1. p \in Quizzes /\ {} \in SUBSET Options /\ "submissions" \in Kinds
      BY PagesAssumption DEF QuizPageAssumption, Kinds
    <2> QED
      BY <2>1, AskType, RemoteData DEF TypedIn
  <1> HIDE DEF i, r
  <1>3. /\ requests \in [Slots -> Request \cup {Free}]
        /\ \A j \in InFlight : requests[j] = r
    BY <1>1, <1>2 DEF InFlight
  <1>4. QuizTypeOK
    BY <1>1, <1>3 DEF QuizTypeOK, WebData
  <1> QED
    BY <1>1, <1>2, <1>3, <1>4, RemoteData DEF TypesInv, ListStarted

LEMMA NextTypes == TypesInv /\ [Next]_vars => TypesInv'
  <1> SUFFICES ASSUME TypesInv, [Next]_vars PROVE TypesInv'
    OBVIOUS
  <1>1. ASSUME NEW i \in Slots, Serve(i) PROVE TypesInv'
    BY <1>1, ReadTypes, InsertTypes, SaveTypes DEF Serve
  <1>2. CASE UNCHANGED vars
    <2>1. UNCHANGED <<started, saved, requests, submissions, pendingBegin, pendingSubmit,
                      quizQuestions, quizAnswers, inputs, toggled>>
      BY <1>2 DEF vars, db, begins, answers
    <2>2. QuizTypeOK' /\ ListStarted'
      BY <2>1 DEF TypesInv, QuizTypeOK, ListStarted
    <2> QED
      BY <2>1, <2>2, TypesKept
  <1> QED
    BY <1>1, <1>2, StudentTypes, FailsTypes, ReceiveTypes DEF Next

LEMMA TypesInvariant == Spec => []TypesInv
  BY InitTypes, NextTypes, PTL DEF Spec

\* The tables, the requests in flight and the page's model keep their types,
\* in whatever order requests are carried out and answered.
THEOREM QuizTypeCorrect == Spec => []QuizTypeOK
  <1>1. TypesInv => QuizTypeOK
    BY DEF TypesInv
  <1> QED
    BY <1>1, TypesInvariant, PTL

-----------------------------------------------------------------------------
(* What is "loading" waits for a request.                                  *)

Stays(k) == k \in InFlight' /\ requests'[k] = requests[k]

\* A request that stays is still waited for.
LEMMA SentStays ==
    ASSUME NEW q, NEW kinds, Sent(q, kinds),
           \A k \in Of(q) : requests[k].kind \in kinds => Stays(k)
    PROVE  Sent(q, kinds)'
  BY DEF Sent, Of, Stays

\* Carrying out a request, or losing its answer, leaves it in flight.
LEMMA AwaitedThrough ==
    ASSUME LoadingAwaited, InFlight' = InFlight, NEW i \in InFlight, InFlight \subseteq Slots,
           \A j \in Slots \ {i} : requests'[j] = requests[j], requests'[i].quiz = requests[i].quiz,
           \/ requests'[i].kind = requests[i].kind
           \/ requests[i].kind = "begin" /\ requests'[i].kind = "begun",
           UNCHANGED <<submissions, pendingBegin, pendingSubmit, quizQuestions, quizAnswers>>
    PROVE  LoadingAwaited'
  <1>1. ASSUME NEW q, NEW kinds, Sent(q, kinds), "begin" \in kinds => "begun" \in kinds
        PROVE  Sent(q, kinds)'
    BY <1>1 DEF Sent, Of
  <1>2. ASSUME NEW j \in InFlight, requests[j].kind = "submissions"
        PROVE  j \in InFlight' /\ requests'[j].kind = "submissions"
    BY <1>2
  <1> QED
    BY <1>1, <1>2 DEF LoadingAwaited

\* So does sending one, which is then waited for.
LEMMA AwaitedWithMore ==
    ASSUME TypesInv, NEW i \in Slots \ InFlight, NEW q \in Quizzes, InFlight' = InFlight \cup {i},
           \A j \in Slots \ {i} : requests'[j] = requests[j]
    PROVE  /\ \A p, kinds : Sent(p, kinds) => Sent(p, kinds)'
           /\ \A j \in InFlight : Stays(j)
           /\ \A kinds : requests'[i].quiz = q /\ requests'[i].kind \in kinds => Sent(q, kinds)'
  <1>1. \A j \in InFlight : Stays(j)
    BY DEF Stays, InFlight
  <1>2. ASSUME NEW p, NEW kinds, Sent(p, kinds) PROVE Sent(p, kinds)'
    <2>1. \A k \in Of(p) : Stays(k)
      BY <1>1 DEF Of
    <2> QED
      BY <1>2, <2>1, SentStays
  <1>3. ASSUME NEW kinds, requests'[i].quiz = q, requests'[i].kind \in kinds PROVE Sent(q, kinds)'
    BY <1>3 DEF Sent, Of
  <1> QED
    BY <1>1, <1>2, <1>3

\* Opening a quiz sends both requests it then waits for; what is there stays,
\* but for the request the opening answers.
LEMMA AwaitedOpen ==
    ASSUME TypesInv, NEW q \in Quizzes, NEW rest \in [Slots -> Request \cup {Free}], TakeQuiz(q, rest),
           NEW S, \A k \in Slots \ S : rest[k] = requests[k]
    PROVE  /\ Sent(q, {"questions"})' /\ Sent(q, {"answers"})'
           /\ \A k \in InFlight \ S : Stays(k)
           /\ UNCHANGED pendingSubmit
           /\ \A p \in Quizzes \ {q} : /\ quizQuestions'[p] = quizQuestions[p]
                                      /\ quizAnswers'[p] = quizAnswers[p]
  <1>1. PICK i, j \in Slots :
           /\ i # j /\ rest[i] = Free /\ rest[j] = Free
           /\ requests'[i] = Ask("questions", q, {}) /\ requests'[j] = Ask("answers", q, {})
           /\ \A k \in Slots \ {i, j} : requests'[k] = rest[k]
    BY OpenPlaces
  <1>2. /\ requests'[i] # Free /\ requests'[i].quiz = q /\ requests'[i].kind = "questions"
        /\ requests'[j] # Free /\ requests'[j].quiz = q /\ requests'[j].kind = "answers"
    <2>1. {} \in SUBSET Options /\ {"questions", "answers"} \subseteq Kinds
      BY DEF Kinds
    <2> QED
      BY <1>1, <2>1, AskType
  <1>3. Sent(q, {"questions"})' /\ Sent(q, {"answers"})'
    BY <1>2 DEF Sent, Of, InFlight
  <1>4. \A k \in InFlight \ S : Stays(k)
    BY <1>1 DEF InFlight, Stays
  <1>5. /\ UNCHANGED pendingSubmit
        /\ quizQuestions' = [quizQuestions EXCEPT ![q] = Loading]
        /\ quizAnswers' = [quizAnswers EXCEPT ![q] = Loading]
    BY DEF TakeQuiz
  <1>6. /\ quizQuestions \in [Quizzes -> {NotAsked, Loading, Failure, Success({})}]
        /\ quizAnswers \in [Quizzes -> WebData(SUBSET Options)]
    BY DEF TypesInv, QuizTypeOK
  <1> QED
    BY <1>3, <1>4, <1>5, <1>6

LEMMA StudentAwaits ==
    ASSUME TypesInv, LoadingAwaited, Student
    PROVE  LoadingAwaited'
  <1>1. /\ QuizTypeOK /\ requests \in [Slots -> Request \cup {Free}] /\ InFlight \subseteq Slots
    BY DEF TypesInv, QuizTypeOK, InFlight
  <1>2. ASSUME NEW q \in Quizzes, OnBeginQuiz(q) PROVE LoadingAwaited'
    <2> DEFINE r == Ask("begin", q, {})
    <2>1. /\ Unused # {} /\ requests' = [requests EXCEPT ![First] = r] /\ r \in Request
          /\ r.kind = "begin" /\ r.quiz = q
          /\ pendingBegin' = [pendingBegin EXCEPT ![q] = Loading]
          /\ UNCHANGED <<submissions, pendingSubmit, quizQuestions, quizAnswers>>
      <3>1. {} \in SUBSET Options /\ "begin" \in Kinds
        BY DEF Kinds
      <3> QED
        BY <1>2, <3>1, AskType DEF OnBeginQuiz, answers
    <2> HIDE DEF r
    <2>2. PICK i \in Slots \ InFlight :
              /\ InFlight' = InFlight \cup {i} /\ requests'[i] = r
              /\ \A j \in Slots \ {i} : requests'[j] = requests[j]
      BY <1>1, <2>1, SendPlace
    <2>3. /\ \A p, kinds : Sent(p, kinds) => Sent(p, kinds)'
          /\ \A j \in InFlight : Stays(j)
      BY <1>1, <2>2, AwaitedWithMore
    <2>4. Sent(q, {"begin", "begun"})'
      <3>1. requests'[i].quiz = q /\ requests'[i].kind \in {"begin", "begun"}
        BY <2>1, <2>2
      <3> QED
        BY <1>1, <2>2, <3>1, AwaitedWithMore
    <2>5. \A p \in Quizzes : pendingBegin'[p] = pendingBegin[p] \/ p = q
      BY <2>1 DEF TypesInv, QuizTypeOK
    <2> QED
      BY <2>1, <2>3, <2>4, <2>5 DEF LoadingAwaited, Stays
  <1>3. ASSUME NEW q \in Quizzes, EditQuiz(q) PROVE LoadingAwaited'
    <2>1. TakeQuiz(q, requests) /\ UNCHANGED <<submissions, pendingBegin>>
      BY <1>3 DEF EditQuiz, begins
    <2>2. /\ Sent(q, {"questions"})' /\ Sent(q, {"answers"})'
          /\ \A k \in InFlight : Stays(k)
          /\ UNCHANGED pendingSubmit
          /\ \A p \in Quizzes \ {q} : /\ quizQuestions'[p] = quizQuestions[p]
                                      /\ quizAnswers'[p] = quizAnswers[p]
      <3>1. \A k \in Slots \ {} : requests[k] = requests[k]
        OBVIOUS
      <3> QED
        BY <1>1, <2>1, <3>1, AwaitedOpen
    <2>3. \A p, kinds : Sent(p, kinds) => Sent(p, kinds)'
      BY <2>2, SentStays DEF Of
    <2> QED
      BY <2>1, <2>2, <2>3 DEF LoadingAwaited, Stays
  <1>4. ASSUME NEW q \in Quizzes, OnSubmitQuizAnswers(q) PROVE LoadingAwaited'
    <2> DEFINE A == inputs \cap OptionsOf(q)
               r == Ask("save", q, A)
    <2>1. /\ Unused # {} /\ requests' = [requests EXCEPT ![First] = r] /\ r \in Request
          /\ r.kind = "save" /\ r.quiz = q
          /\ pendingSubmit' = [pendingSubmit EXCEPT ![q] = Loading]
          /\ UNCHANGED <<submissions, pendingBegin, quizQuestions, quizAnswers>>
      <3>1. A \in SUBSET Options /\ "save" \in Kinds
        BY <1>1 DEF QuizTypeOK, Kinds
      <3> QED
        BY <1>4, <3>1, AskType DEF OnSubmitQuizAnswers, begins
    <2> HIDE DEF r
    <2>2. PICK i \in Slots \ InFlight :
              /\ InFlight' = InFlight \cup {i} /\ requests'[i] = r
              /\ \A j \in Slots \ {i} : requests'[j] = requests[j]
      BY <1>1, <2>1, SendPlace
    <2>3. /\ \A p, kinds : Sent(p, kinds) => Sent(p, kinds)'
          /\ \A j \in InFlight : Stays(j)
      BY <2>2, AwaitedWithMore
    <2>4. Sent(q, {"save"})'
      BY <2>1, <2>2, AwaitedWithMore
    <2>5. \A p \in Quizzes : pendingSubmit'[p] = pendingSubmit[p] \/ p = q
      BY <2>1 DEF TypesInv, QuizTypeOK
    <2> QED
      BY <2>1, <2>3, <2>4, <2>5 DEF LoadingAwaited, Stays
  <1>5. ASSUME NEW o \in Options, OnToggleQuizQuestionOption(o) \/ OnSelectQuizQuestionOption(o)
        PROVE  LoadingAwaited'
    <2>1. UNCHANGED <<requests, submissions, pendingBegin, pendingSubmit, quizQuestions, quizAnswers>>
      BY <1>5 DEF OnToggleQuizQuestionOption, OnSelectQuizQuestionOption, db, begins
    <2> QED
      BY <2>1 DEF LoadingAwaited, Sent, Of, InFlight
  <1> QED
    BY <1>2, <1>3, <1>4, <1>5 DEF Student

\* A response is the end of what it was waited for with.
LEMMA ReceiveAwaits ==
    ASSUME TypesInv, LoadingAwaited, NEW i \in Slots, Receive(i)
    PROVE  LoadingAwaited'
  <1> DEFINE r == requests[i]
             x == r.response
  <1>1. QuizTypeOK /\ InFlight \subseteq Slots
    BY DEF TypesInv, InFlight
  <1>2. /\ i \in InFlight /\ r \in Request /\ r.quiz \in Quizzes
        /\ x # Loading /\ (x.is # "Success" => x = Failure)
    <2>1. \E kinds : Arrives(i, kinds)
      BY DEF Receive, OnFetchQuizSubmissions, OnBeginQuizComplete, OnFetchQuizQuestions,
         OnFetchQuizAnswers, OnSubmitQuizAnswersComplete
    <2> QED
      BY <2>1, ArrivedTyped, RemoteData
  <1> PICK q \in Quizzes : r.quiz = q
    BY <1>2
  <1>3. /\ Done(i) \in [Slots -> Request \cup {Free}]
        /\ \A k \in Slots \ {i} : Done(i)[k] = requests[k]
        /\ requests' = Done(i) => \A k \in InFlight \ {i} : Stays(k)
    BY <1>1, <1>2, DonePlace DEF Stays
  \* What waits for other requests still does.
  <1>4. ASSUME \A k \in InFlight \ {i} : Stays(k), NEW p, NEW kinds, Sent(p, kinds),
               p # q \/ r.kind \notin kinds
        PROVE  Sent(p, kinds)'
    BY <1>4, SentStays DEF Of
  <1>5. ASSUME \A k \in InFlight \ {i} : Stays(k), r.kind # "submissions", submissions = Loading
        PROVE  \E k \in InFlight' : requests'[k].kind = "submissions"
    BY <1>5 DEF LoadingAwaited, Stays
  <1>6. CASE OnFetchQuizSubmissions(i)
    <2>1. /\ submissions' = x /\ requests' = Done(i) /\ r.kind = "submissions"
          /\ UNCHANGED <<pendingBegin, pendingSubmit, quizQuestions, quizAnswers>>
      BY <1>6 DEF OnFetchQuizSubmissions, Arrives, db, answers
    <2> QED
      BY <1>2, <1>3, <1>4, <2>1 DEF LoadingAwaited
  <1>7. CASE OnBeginQuizComplete(i)
    <2>1. /\ TakeQuiz(q, Done(i)) /\ r.kind \in {"begin", "begun"}
          /\ \/ pendingBegin' = [pendingBegin EXCEPT ![q] = NotAsked] /\ submissions'.is = "Success"
             \/ pendingBegin' = [pendingBegin EXCEPT ![q] = Failure] /\ UNCHANGED submissions
      BY <1>2, <1>7 DEF OnBeginQuizComplete, Arrives
    <2>2. /\ Sent(q, {"questions"})' /\ Sent(q, {"answers"})'
          /\ \A k \in InFlight \ {i} : Stays(k)
          /\ UNCHANGED pendingSubmit
          /\ \A p \in Quizzes \ {q} : /\ quizQuestions'[p] = quizQuestions[p]
                                      /\ quizAnswers'[p] = quizAnswers[p]
      BY <1>2, <1>3, <2>1, AwaitedOpen
    <2>3. /\ pendingBegin'[q] # Loading
          /\ \A p \in Quizzes \ {q} : pendingBegin'[p] = pendingBegin[p]
      BY <1>1, <1>2, <2>1, RemoteData DEF QuizTypeOK
    <2>4. submissions' = Loading => submissions = Loading
      BY <2>1, RemoteData
    <2>5. r.kind # "submissions"
      BY <2>1
    <2>6. submissions' = Loading => \E k \in InFlight' : requests'[k].kind = "submissions"
      BY <1>5, <2>2, <2>4, <2>5
    <2>7. ASSUME NEW p \in Quizzes \ {q}
          PROVE  /\ pendingBegin'[p] = Loading => Sent(p, {"begin", "begun"})'
                 /\ pendingSubmit'[p] = Loading => Sent(p, {"save"})'
                 /\ quizQuestions'[p] = Loading => Sent(p, {"questions"})'
                 /\ quizAnswers'[p] = Loading => Sent(p, {"answers"})'
      BY <1>4, <2>2, <2>3, <2>7 DEF LoadingAwaited
    <2>8. pendingSubmit'[q] = Loading => Sent(q, {"save"})'
      BY <1>2, <1>4, <2>1, <2>2 DEF LoadingAwaited
    <2> QED
      BY <2>2, <2>3, <2>6, <2>7, <2>8 DEF LoadingAwaited
  <1>8. CASE OnFetchQuizQuestions(i)
    <2>1. /\ quizQuestions' = [quizQuestions EXCEPT ![q] = x] /\ requests' = Done(i)
          /\ r.kind = "questions"
          /\ UNCHANGED <<submissions, pendingBegin, pendingSubmit, quizAnswers>>
      BY <1>8 DEF OnFetchQuizQuestions, Arrives, begins
    <2>2. /\ quizQuestions'[q] # Loading
          /\ \A p \in Quizzes \ {q} : quizQuestions'[p] = quizQuestions[p]
      BY <1>1, <1>2, <2>1 DEF QuizTypeOK
    <2> QED
      BY <1>3, <1>4, <1>5, <2>1, <2>2 DEF LoadingAwaited
  <1>9. CASE OnFetchQuizAnswers(i)
    <2>1. /\ quizAnswers' = [quizAnswers EXCEPT ![q] = x] /\ requests' = Done(i)
          /\ r.kind = "answers"
          /\ UNCHANGED <<submissions, pendingBegin, pendingSubmit, quizQuestions>>
      BY <1>9 DEF OnFetchQuizAnswers, Arrives, begins
    <2>2. /\ quizAnswers'[q] # Loading
          /\ \A p \in Quizzes \ {q} : quizAnswers'[p] = quizAnswers[p]
      BY <1>1, <1>2, <2>1 DEF QuizTypeOK
    <2> QED
      BY <1>3, <1>4, <1>5, <2>1, <2>2 DEF LoadingAwaited
  <1>10. CASE OnSubmitQuizAnswersComplete(i)
    <2>1. /\ quizAnswers' = [quizAnswers EXCEPT ![q] = x] /\ requests' = Done(i)
          /\ r.kind = "save"
          /\ pendingSubmit' = [pendingSubmit EXCEPT ![q] = IF x.is = "Success" THEN NotAsked ELSE x]
          /\ UNCHANGED <<submissions, pendingBegin, quizQuestions>>
      BY <1>10 DEF OnSubmitQuizAnswersComplete, Arrives, begins
    <2>2. /\ quizAnswers'[q] # Loading /\ pendingSubmit'[q] # Loading
          /\ \A p \in Quizzes \ {q} : /\ quizAnswers'[p] = quizAnswers[p]
                                     /\ pendingSubmit'[p] = pendingSubmit[p]
      BY <1>1, <1>2, <2>1, RemoteData DEF QuizTypeOK
    <2> QED
      BY <1>3, <1>4, <1>5, <2>1, <2>2 DEF LoadingAwaited
  <1> QED
    BY <1>6, <1>7, <1>8, <1>9, <1>10 DEF Receive

LEMMA NextAwaits == TypesInv /\ LoadingAwaited /\ [Next]_vars => LoadingAwaited'
  <1> SUFFICES ASSUME TypesInv, LoadingAwaited, [Next]_vars PROVE LoadingAwaited'
    OBVIOUS
  <1>1. InFlight \subseteq Slots
    BY DEF InFlight
  <1>2. ASSUME NEW i \in Slots, Read(i) \/ SaveQuiz(i) \/ Fails(i) PROVE LoadingAwaited'
    <2>1. CASE Read(i)
      BY <1>1, <2>1, ReadTypes, AwaitedThrough
    <2>2. CASE SaveQuiz(i)
      BY <1>1, <2>2, SaveTypes, AwaitedThrough
    <2>3. CASE Fails(i)
      BY <1>1, <2>3, FailsTypes, AwaitedThrough
    <2> QED
      BY <1>2, <2>1, <2>2, <2>3
  <1>3. ASSUME NEW i \in Slots, Insert(i) PROVE LoadingAwaited'
    BY <1>1, <1>2, <1>3, InsertTypes, AwaitedThrough
  <1>4. CASE UNCHANGED vars
    BY <1>4 DEF vars, begins, answers, LoadingAwaited, Sent, Of, InFlight
  <1> QED
    BY <1>2, <1>3, <1>4, StudentAwaits, ReceiveAwaits DEF Next, Serve

\* A greyed-out button, or a part that is "loading", waits for a request that is
\* in flight, however many quizzes she opens at once.
THEOREM LoadingIsAwaited == Spec => []LoadingAwaited
  <1>1. Init => LoadingAwaited
    <2> SUFFICES ASSUME Init PROVE LoadingAwaited
      OBVIOUS
    <2> DEFINE i == CHOOSE k \in Slots : TRUE
               r == Ask("submissions", CHOOSE q \in Quizzes : TRUE, {})
    <2>1. /\ requests = [[j \in Slots |-> Free] EXCEPT ![i] = r]
          /\ pendingBegin = [q \in Quizzes |-> NotAsked] /\ pendingSubmit = [q \in Quizzes |-> NotAsked]
          /\ quizQuestions = [q \in Quizzes |-> NotAsked] /\ quizAnswers = [q \in Quizzes |-> NotAsked]
      BY DEF Init
    <2>2. r # Free /\ r.kind = "submissions" /\ i \in Slots
      BY PagesAssumption DEF QuizPageAssumption, Ask, Free
    <2> HIDE DEF i, r
    <2>3. i \in InFlight /\ requests[i].kind = "submissions"
      BY <2>1, <2>2 DEF InFlight
    <2> QED
      BY <2>1, <2>3, RemoteData DEF LoadingAwaited
  <1> QED
    BY <1>1, NextAwaits, TypesInvariant, PTL DEF Spec
-----------------------------------------------------------------------------
(* The marks on a page of several quizzes, each opened when nothing of it is  *)
(* in flight and begun when no other is being begun.                          *)

SavedTo(q) == saved \cap OptionsOf(q)

\* What is in flight of a quiz finds the page waiting for it, and brings what
\* is still saved.
Carries(r, q) ==
    /\ r.kind \in {"begin", "begun"} => ~ Shown(q, submissions)
    /\ r.kind = "questions" => quizQuestions[q] = Loading
    /\ r.kind = "answers" => quizAnswers[q] = Loading
    /\ r.kind = "save" => pendingSubmit[q] = Loading
    /\ r.kind \in {"answers", "save"} /\ r.response.is = "Success" => r.response.value = SavedTo(q)

MarksOf(q) ==
    /\ \A i, j \in Of(q) :
          i # j => {requests[i].kind, requests[j].kind} = {"questions", "answers"}
    /\ \A i \in Of(q) : Carries(requests[i], q)
    /\ submissions.is = "Success" /\ ~ Shown(q, submissions) /\ pendingBegin[q] = NotAsked
          => Of(q) = {}
    /\ quizAnswers[q].is = "Success" /\ ~ Sent(q, {"save"}) => quizAnswers[q].value = SavedTo(q)

\* The list of submissions is asked for once at a time, and only grows.
AsksForList(r) == r.kind \in {"submissions", "begin", "begun"}

Listing ==
    /\ \A i, j \in InFlight : AsksForList(requests[i]) /\ AsksForList(requests[j]) => i = j
    /\ \A i \in InFlight :
          /\ requests[i].kind = "submissions" <=> submissions = Loading
          /\ requests[i].kind # "submissions" => submissions.is = "Success"
          /\ requests[i].kind = "begun" /\ requests[i].response.is = "Success" =>
                submissions.value \cup {requests[i].quiz} \subseteq requests[i].response.value

MarksInv == Listing /\ \A q \in Quizzes : MarksOf(q)

\* Slots that have, and get, no request of a quiz.
LEMMA OtherQuiz ==
    ASSUME NEW q, NEW S, \A k \in Slots \ S : requests'[k] = requests[k],
           \A k \in S : /\ requests[k] = Free \/ requests[k].quiz # q
                        /\ requests'[k] = Free \/ requests'[k].quiz # q
    PROVE  Of(q)' = Of(q) /\ \A k \in Of(q) : requests'[k] = requests[k]
  <1>1. \A k : k \in Of(q) => k \in Of(q)' /\ requests'[k] = requests[k]
    BY DEF Of, InFlight
  <1>2. \A k : k \in Of(q)' => k \in Of(q)
    BY DEF Of, InFlight
  <1> QED
    BY <1>1, <1>2

\* A save writes the options of its own quiz.
LEMMA SavedApart ==
    ASSUME NEW p, NEW B, B \subseteq OptionsOf(p), saved' = (saved \ OptionsOf(p)) \cup B
    PROVE  SavedTo(p)' = B /\ \A q : q # p => SavedTo(q)' = SavedTo(q)
  <1>1. \A q : OptionsOf(q)' = OptionsOf(q)
    BY DEF OptionsOf
  <1>2. \A q : q # p => OptionsOf(q) \cap OptionsOf(p) = {}
    BY DEF OptionsOf
  <1> QED
    BY <1>1, <1>2 DEF SavedTo

\* A quiz that a step is not about.
LEMMA Elsewhere ==
    ASSUME NEW q, MarksOf(q), Of(q)' = Of(q), \A k \in Of(q) : requests'[k] = requests[k],
           SavedTo(q)' = SavedTo(q),
           quizQuestions'[q] = quizQuestions[q], quizAnswers'[q] = quizAnswers[q],
           pendingSubmit'[q] = pendingSubmit[q], pendingBegin'[q] = pendingBegin[q],
           \/ submissions' = submissions
           \/ /\ submissions.is = "Success" /\ (Shown(q, submissions) => Shown(q, submissions'))
              /\ \A k \in Of(q) : ~ AsksForList(requests[k])
    PROVE  MarksOf(q)'
  <1>1. Sent(q, {"save"})' = Sent(q, {"save"})
    BY DEF Sent
  <1>2. \A i \in Of(q) : Carries(requests[i], q)'
    BY DEF MarksOf, Carries, AsksForList
  <1>3. submissions'.is = "Success" /\ ~ Shown(q, submissions') /\ pendingBegin'[q] = NotAsked
           => Of(q) = {}
    BY DEF MarksOf, Shown
  <1> QED
    BY <1>1, <1>2, <1>3 DEF MarksOf

LEMMA FitsAll ==
    ASSUME NEW p \in Quizzes, MarksOf(p)', \A q \in Quizzes \ {p} : MarksOf(q)', Listing'
    PROVE  MarksInv'
  BY DEF MarksInv

\* A request that is carried out, or fails, stays with the page waiting for it.
LEMMA ServedMarks ==
    ASSUME MarksInv, NEW i \in InFlight, NEW p \in Quizzes, requests[i].quiz = p,
           InFlight' = InFlight, \A j \in Slots \ {i} : requests'[j] = requests[j],
           requests'[i].quiz = p,
           \/ requests'[i].kind = requests[i].kind
           \/ requests[i].kind = "begin" /\ requests'[i].kind = "begun",
           UNCHANGED <<submissions, pendingBegin, pendingSubmit, quizQuestions, quizAnswers>>,
           \A q \in Quizzes \ {p} : SavedTo(q)' = SavedTo(q),
           requests[i].kind = "save" \/ SavedTo(p)' = SavedTo(p),
           requests'[i].kind \in {"answers", "save"} /\ requests'[i].response.is = "Success" =>
              requests'[i].response.value = SavedTo(p)',
           requests'[i].kind = "begun" /\ requests'[i].response.is = "Success" =>
              submissions.value \cup {p} \subseteq requests'[i].response.value
    PROVE  MarksInv'
  <1>1. InFlight \subseteq Slots /\ MarksOf(p) /\ i \in Of(p)
    BY DEF MarksInv, InFlight, Of
  <1>2. ASSUME NEW q \in Quizzes \ {p} PROVE MarksOf(q)'
    <2>1. Of(q)' = Of(q) /\ \A k \in Of(q) : requests'[k] = requests[k]
      BY <1>1 DEF Of
    <2> QED
      BY <1>2, <2>1, Elsewhere DEF MarksInv
  <1>3. Of(p)' = Of(p)
    BY <1>1 DEF Of
  <1>4. MarksOf(p)'
    <2>1. \A k \in Of(p) \ {i} : requests'[k] = requests[k]
      BY <1>1 DEF Of
    <2>2. ASSUME NEW k, NEW l, k \in Of(p), l \in Of(p), k # l
          PROVE  {requests'[k].kind, requests'[l].kind} = {"questions", "answers"}
      BY <1>1, <2>1, <2>2 DEF MarksOf
    <2>3. ASSUME NEW k \in Of(p) PROVE Carries(requests[k], p)'
      <3>1. Carries(requests[k], p) /\ Carries(requests[i], p)
        BY <1>1, <2>3 DEF MarksOf
      <3>2. CASE k = i
        BY <3>1, <3>2 DEF Carries
      <3>3. CASE k # i
        <4>1. requests[i].kind # "save"
          BY <1>1, <2>3, <3>3 DEF MarksOf
        <4> QED
          BY <2>1, <3>1, <3>3, <4>1 DEF Carries
      <3> QED
        BY <3>2, <3>3
    <2>4. quizAnswers[p].is = "Success" /\ ~ Sent(p, {"save"})' => quizAnswers[p].value = SavedTo(p)'
      <3>1. Sent(p, {"save"})' = Sent(p, {"save"})
        BY <1>3, <2>1 DEF Sent
      <3>2. requests[i].kind = "save" => Sent(p, {"save"})
        BY <1>1 DEF Sent
      <3> QED
        BY <1>1, <3>1, <3>2 DEF MarksOf
    <2> QED
      BY <1>1, <1>3, <2>2, <2>3, <2>4 DEF MarksOf
  <1>5. Listing'
    <2>1. \A k \in InFlight \ {i} : requests'[k] = requests[k]
      BY <1>1
    <2> QED
      BY <2>1 DEF MarksInv, Listing, AsksForList
  <1> QED
    BY <1>2, <1>4, <1>5, FitsAll

LEMMA SavedSame == saved' = saved => \A q : SavedTo(q)' = SavedTo(q)
  BY DEF SavedTo, OptionsOf

LEMMA HasQuiz ==
    ASSUME TypesInv, NEW i \in InFlight
    PROVE  requests[i] \in Request /\ requests[i].quiz \in Quizzes /\ TypedIn(requests[i], started)
  BY DEF TypesInv, QuizTypeOK, InFlight, Request

LEMMA ServeMarks ==
    ASSUME TypesInv, MarksInv, NEW i \in Slots, Serve(i) \/ Fails(i)
    PROVE  MarksInv'
  <1>1. CASE Fails(i)
    <2>1. PICK p \in Quizzes : requests[i].quiz = p /\ i \in InFlight
      BY <1>1, FailsTypes, HasQuiz
    <2>2. saved' = saved
      BY <1>1, FailsTypes
    <2> QED
      BY <1>1, <2>1, <2>2, FailsTypes, SavedSame, RemoteData, ServedMarks
  <1>2. CASE Read(i)
    <2>1. PICK p \in Quizzes : requests[i].quiz = p /\ i \in InFlight /\ TypedIn(requests[i], started)
      BY <1>2, ReadTypes, HasQuiz
    <2>2. /\ InFlight' = InFlight /\ \A j \in Slots \ {i} : requests'[j] = requests[j]
          /\ requests'[i].kind = requests[i].kind /\ requests'[i].quiz = p
          /\ \/ /\ requests[i].kind \in {"submissions", "begun"}
                /\ requests'[i].response = Success(started)
             \/ requests[i].kind = "questions" /\ requests'[i].response = Success({})
             \/ /\ requests[i].kind = "answers"
                /\ requests'[i].response = Success(SavedTo(p))
          /\ UNCHANGED <<saved, submissions, pendingBegin, pendingSubmit, quizQuestions, quizAnswers>>
      BY <1>2, <2>1, ReadTypes DEF SavedTo
    <2>3. requests'[i].kind \in {"answers", "save"} /\ requests'[i].response.is = "Success" =>
              requests'[i].response.value = SavedTo(p)'
      BY <2>2, SavedSame, RemoteData
    <2>4. requests'[i].kind = "begun" /\ requests'[i].response.is = "Success" =>
              submissions.value \cup {p} \subseteq requests'[i].response.value
      <3>1. requests[i].kind = "begun" => submissions.is = "Success" /\ p \in started
        BY <2>1 DEF TypedIn, MarksInv, Listing
      <3>2. submissions.is = "Success" => submissions.value \subseteq started
        BY DEF TypesInv, ListStarted
      <3>3. requests[i].kind = "begun" => requests'[i].response = Success(started)
        BY <2>2
      <3> QED
        BY <2>2, <3>1, <3>2, <3>3, RemoteData
    <2> QED
      BY <2>1, <2>2, <2>3, <2>4, SavedSame, ServedMarks
  <1>3. CASE Insert(i)
    <2>1. CASE Fails(i)
      BY <1>1, <2>1
    <2>2. CASE ~ Fails(i)
      <3>1. PICK p \in Quizzes : requests[i].quiz = p /\ i \in InFlight
        BY <1>3, InsertTypes, HasQuiz
      <3>2. saved' = saved
        BY <1>3, <2>2, InsertTypes
      <3> QED
        BY <1>3, <2>2, <3>1, <3>2, InsertTypes, SavedSame, RemoteData, ServedMarks
    <2> QED
      BY <2>1, <2>2
  <1>4. CASE SaveQuiz(i)
    <2>1. PICK p \in Quizzes : requests[i].quiz = p /\ i \in InFlight
      BY <1>4, SaveTypes, HasQuiz
    <2>2. PICK B : requests[i].body = B /\ B \subseteq OptionsOf(p)
      BY <1>4, <2>1, SaveTypes
    <2>3. SavedTo(p)' = B /\ \A q : q # p => SavedTo(q)' = SavedTo(q)
      BY <1>4, <2>1, <2>2, SaveTypes, SavedApart
    <2> QED
      BY <1>4, <2>1, <2>2, <2>3, SaveTypes, RemoteData, ServedMarks
  <1> QED
    BY <1>1, <1>2, <1>3, <1>4 DEF Serve

\* Sending one request of a quiz that has none in flight.
LEMMA SendMarks ==
    ASSUME MarksInv, NEW p \in Quizzes, Of(p) = {}, NEW i \in Slots \ InFlight, NEW r,
           r # Free, r.quiz = p, r.response = Loading, r.kind # "submissions",
           InFlight' = InFlight \cup {i}, requests'[i] = r,
           \A j \in Slots \ {i} : requests'[j] = requests[j],
           UNCHANGED <<saved, submissions, quizQuestions, quizAnswers>>, submissions.is = "Success",
           \A q \in Quizzes \ {p} : /\ pendingBegin'[q] = pendingBegin[q]
                                    /\ pendingSubmit'[q] = pendingSubmit[q],
           Carries(r, p)', Shown(p, submissions) \/ pendingBegin'[p] # NotAsked,
           AsksForList(r) => \A j \in InFlight : ~ AsksForList(requests[j])
    PROVE  MarksInv'
  <1>1. InFlight \subseteq Slots /\ MarksOf(p)
    BY DEF MarksInv, InFlight
  <1>2. ASSUME NEW q \in Quizzes \ {p} PROVE MarksOf(q)'
    <2>1. Of(q)' = Of(q) /\ \A k \in Of(q) : requests'[k] = requests[k]
      BY <1>1 DEF Of
    <2> QED
      BY <1>2, <2>1, SavedSame, Elsewhere DEF MarksInv
  <1>3. Of(p)' = {i}
    BY <1>1 DEF Of
  <1>4. MarksOf(p)'
    <2>1. quizAnswers[p].is = "Success" => quizAnswers[p].value = SavedTo(p)
      BY <1>1 DEF MarksOf, Sent
    <2>2. submissions.is = "Success" /\ ~ Shown(p, submissions') /\ pendingBegin'[p] = NotAsked
             => Of(p)' = {}
      BY DEF Shown
    <2> QED
      BY <1>3, <2>1, <2>2, SavedSame DEF MarksOf
  <1>5. Listing'
    <2>1. \A k \in InFlight : requests'[k] = requests[k]
      BY <1>1
    <2>2. submissions # Loading
      BY RemoteData
    <2> QED
      BY <2>1, <2>2, RemoteData DEF MarksInv, Listing, AsksForList
  <1> QED
    BY <1>2, <1>4, <1>5, FitsAll

\* Opening a quiz when nothing of it is in flight but what has been answered.
LEMMA OpenMarks ==
    ASSUME TypesInv, MarksInv, NEW p \in Quizzes, NEW rest \in [Slots -> Request \cup {Free}],
           TakeQuiz(p, rest),
           \A k \in Slots : \/ rest[k] = requests[k] /\ (requests[k] = Free \/ requests[k].quiz # p)
                            \/ rest[k] = Free /\ requests[k].quiz = p,
           saved' = saved, submissions.is = "Success", submissions'.is = "Success",
           \/ submissions' = submissions
           \/ /\ \A q : Shown(q, submissions) => Shown(q, submissions')
              /\ \A k \in Slots : rest[k] # Free => ~ AsksForList(rest[k]),
           \A q \in Quizzes \ {p} : pendingBegin'[q] = pendingBegin[q],
           Shown(p, submissions') \/ pendingBegin'[p] # NotAsked
    PROVE  MarksInv'
  <1>1. PICK i, j \in Slots :
           /\ i # j /\ rest[i] = Free /\ rest[j] = Free
           /\ requests'[i] = Ask("questions", p, {}) /\ requests'[j] = Ask("answers", p, {})
           /\ \A k \in Slots \ {i, j} : requests'[k] = rest[k]
    BY OpenPlaces
  <1>2. /\ requests'[i] # Free /\ requests'[i].quiz = p /\ requests'[i].kind = "questions"
        /\ requests'[j] # Free /\ requests'[j].quiz = p /\ requests'[j].kind = "answers"
        /\ requests'[i].response = Loading /\ requests'[j].response = Loading
    <2>1. {} \in SUBSET Options /\ {"questions", "answers"} \subseteq Kinds
      BY DEF Kinds
    <2> QED
      BY <1>1, <2>1, AskType
  <1>3. /\ UNCHANGED pendingSubmit /\ quizQuestions'[p] = Loading /\ quizAnswers'[p] = Loading
        /\ \A q \in Quizzes \ {p} : /\ quizQuestions'[q] = quizQuestions[q]
                                    /\ quizAnswers'[q] = quizAnswers[q]
    <2>1. /\ UNCHANGED pendingSubmit
          /\ quizQuestions' = [quizQuestions EXCEPT ![p] = Loading]
          /\ quizAnswers' = [quizAnswers EXCEPT ![p] = Loading]
      BY DEF TakeQuiz
    <2>2. /\ quizQuestions \in [Quizzes -> {NotAsked, Loading, Failure, Success({})}]
          /\ quizAnswers \in [Quizzes -> WebData(SUBSET Options)]
      BY DEF TypesInv, QuizTypeOK
    <2> QED
      BY <2>1, <2>2
  \* What is in flight afterwards: the two requests, and what was there of others.
  <1>4. \A k \in InFlight' \ {i, j} : /\ k \in InFlight /\ requests'[k] = requests[k]
                                      /\ rest[k] = requests[k] /\ rest[k] # Free
                                      /\ requests[k].quiz # p
    BY <1>1 DEF InFlight
  <1>5. \A k \in InFlight : requests[k].quiz # p => k \in InFlight' /\ k \notin {i, j}
    BY <1>1 DEF InFlight
  <1>6. ASSUME NEW q \in Quizzes \ {p} PROVE MarksOf(q)'
    <2>1. Of(q)' = Of(q) /\ \A k \in Of(q) : requests'[k] = requests[k]
      BY <1>2, <1>4, <1>5 DEF Of
    <2>2. \/ submissions' = submissions
          \/ /\ Shown(q, submissions) => Shown(q, submissions')
             /\ \A k \in Of(q) : ~ AsksForList(requests[k])
      BY <1>4, <1>5 DEF Of, InFlight
    <2> QED
      BY <1>3, <1>6, <2>1, <2>2, SavedSame, Elsewhere DEF MarksInv
  <1>7. Of(p)' = {i, j}
    BY <1>1, <1>2, <1>4 DEF Of, InFlight
  <1>8. MarksOf(p)'
    <2>1. Carries(requests[i], p)' /\ Carries(requests[j], p)'
      BY <1>2, <1>3, RemoteData DEF Carries
    <2>2. submissions'.is = "Success" /\ ~ Shown(p, submissions)' /\ pendingBegin'[p] = NotAsked
             => Of(p)' = {}
      BY DEF Shown
    <2> QED
      BY <1>2, <1>3, <1>7, <2>1, <2>2, RemoteData DEF MarksOf
  <1>9. Listing'
    <2>1. submissions # Loading /\ submissions' # Loading
      BY RemoteData
    <2>2. ~ AsksForList(requests'[i]) /\ ~ AsksForList(requests'[j])
      BY <1>2 DEF AsksForList
    <2>3. \A k \in InFlight' \ {i, j} : requests'[k].kind # "submissions"
      BY <1>4, <2>1 DEF MarksInv, Listing
    <2>4. ASSUME NEW k \in InFlight', NEW l \in InFlight',
                 AsksForList(requests'[k]), AsksForList(requests'[l])
          PROVE  k = l
      BY <1>4, <2>2, <2>4 DEF MarksInv, Listing
    <2>5. ASSUME NEW k \in InFlight', requests'[k].kind = "begun", requests'[k].response.is = "Success"
          PROVE  submissions'.value \cup {requests'[k].quiz} \subseteq requests'[k].response.value
      <3>1. k \notin {i, j} /\ AsksForList(requests'[k])
        BY <1>2, <2>5 DEF AsksForList
      <3>2. submissions' = submissions
        BY <1>4, <3>1, <2>5 DEF InFlight
      <3> QED
        BY <1>4, <2>5, <3>1, <3>2 DEF MarksInv, Listing
    <2>6. \A k \in InFlight' : requests'[k].kind # "submissions"
      BY <1>2, <2>3
    <2> QED
      BY <2>1, <2>4, <2>5, <2>6 DEF Listing
  <1> QED
    BY <1>6, <1>8, <1>9, FitsAll

LEMMA BeginMarks ==
    ASSUME Patient, TypesInv, MarksInv, NEW p \in Quizzes, OnBeginQuiz(p)
    PROVE  MarksInv'
  <1>1. QuizTypeOK /\ MarksOf(p) /\ Listing
    BY DEF TypesInv, MarksInv
  <1>2. PICK r \in Request : r = Ask("begin", p, {})
    <2>1. {} \in SUBSET Options /\ "begin" \in Kinds
      BY DEF Kinds
    <2> QED
      BY <2>1, AskType
  <1>3. r # Free /\ r.kind = "begin" /\ r.quiz = p /\ r.response = Loading
    BY <1>2, FreeIsNoRequest DEF Ask
  <1>4. /\ submissions.is = "Success" /\ ~ Shown(p, submissions) /\ pendingBegin[p] = NotAsked
        /\ \A i \in InFlight : requests[i].kind \notin {"begin", "begun"}
        /\ Unused # {} /\ requests' = [requests EXCEPT ![First] = r]
        /\ pendingBegin' = [pendingBegin EXCEPT ![p] = Loading]
        /\ UNCHANGED <<saved, submissions, pendingSubmit, quizQuestions, quizAnswers>>
    BY <1>2 DEF OnBeginQuiz, Shown, db, answers
  <1>5. PICK i \in Slots \ InFlight :
            /\ InFlight' = InFlight \cup {i} /\ requests'[i] = r
            /\ \A j \in Slots \ {i} : requests'[j] = requests[j]
    BY <1>1, <1>4, SendPlace
  <1>6. Of(p) = {}
    BY <1>1, <1>4 DEF MarksOf
  <1>7. \A j \in InFlight : ~ AsksForList(requests[j])
    BY <1>1, <1>4, RemoteData DEF Listing, AsksForList
  <1>8. /\ pendingBegin'[p] # NotAsked
        /\ \A q \in Quizzes \ {p} : pendingBegin'[q] = pendingBegin[q]
    BY <1>1, <1>4, RemoteData DEF QuizTypeOK
  <1>9. Carries(r, p)'
    BY <1>3, <1>4 DEF Carries, Shown
  <1> QED
    BY <1>3, <1>4, <1>5, <1>6, <1>7, <1>8, <1>9, SendMarks

LEMMA SubmitMarks ==
    ASSUME TypesInv, MarksInv, NEW p \in Quizzes, OnSubmitQuizAnswers(p)
    PROVE  MarksInv'
  <1>1. QuizTypeOK /\ MarksOf(p) /\ Listing
    BY DEF TypesInv, MarksInv
  <1>2. PICK r \in Request : r = Ask("save", p, inputs \cap OptionsOf(p))
    <2>1. inputs \cap OptionsOf(p) \in SUBSET Options /\ "save" \in Kinds
      BY <1>1 DEF QuizTypeOK, Kinds
    <2> QED
      BY <2>1, AskType
  <1>3. r # Free /\ r.kind = "save" /\ r.quiz = p /\ r.response = Loading
    BY <1>2, FreeIsNoRequest DEF Ask
  <1>4. /\ FormShown(p) /\ pendingSubmit[p] # Loading
        /\ Unused # {} /\ requests' = [requests EXCEPT ![First] = r]
        /\ pendingSubmit' = [pendingSubmit EXCEPT ![p] = Loading]
        /\ UNCHANGED <<saved, submissions, pendingBegin, quizQuestions, quizAnswers>>
    BY <1>2 DEF OnSubmitQuizAnswers, db, begins
  <1>5. PICK i \in Slots \ InFlight :
            /\ InFlight' = InFlight \cup {i} /\ requests'[i] = r
            /\ \A j \in Slots \ {i} : requests'[j] = requests[j]
    BY <1>1, <1>4, SendPlace
  <1>6. submissions.is = "Success" /\ Shown(p, submissions)
    BY <1>4 DEF FormShown, Shown
  <1>7. Of(p) = {}
    <2>1. ASSUME NEW k \in Of(p) PROVE FALSE
      <3>1. /\ Carries(requests[k], p) /\ k \in InFlight /\ requests[k].kind \in Kinds
            /\ requests[k].kind # "submissions"
        BY <1>1, <1>6, <2>1, HasQuiz, RemoteData DEF MarksOf, Listing, Of, Request
      <3> QED
        BY <1>4, <1>6, <3>1, RemoteData DEF Carries, FormShown, Kinds
    <2> QED
      BY <2>1
  <1>8. /\ pendingSubmit'[p] = Loading
        /\ \A q \in Quizzes \ {p} : pendingSubmit'[q] = pendingSubmit[q]
    BY <1>1, <1>4 DEF QuizTypeOK
  <1>9. Carries(r, p)'
    BY <1>3, <1>8, RemoteData DEF Carries
  <1>10. ~ AsksForList(r)
    BY <1>3 DEF AsksForList
  <1> QED
    BY <1>3, <1>4, <1>5, <1>6, <1>7, <1>8, <1>9, <1>10, SendMarks

LEMMA EditMarks ==
    ASSUME Patient, TypesInv, MarksInv, NEW p \in Quizzes, EditQuiz(p)
    PROVE  MarksInv'
  <1>1. /\ requests \in [Slots -> Request \cup {Free}] /\ TakeQuiz(p, requests)
        /\ UNCHANGED <<saved, submissions, pendingBegin>> /\ Of(p) = {}
        /\ submissions.is = "Success" /\ Shown(p, submissions)
    BY DEF TypesInv, QuizTypeOK, EditQuiz, db, begins, Shown
  <1>2. \A k \in Slots : requests[k] = Free \/ requests[k].quiz # p
    BY <1>1 DEF Of, InFlight
  <1> QED
    BY <1>1, <1>2, OpenMarks

\* The answer to a request that opens or saves a quiz goes to that quiz.
LEMMA DoneMarks ==
    ASSUME TypesInv, MarksInv, NEW i \in InFlight, NEW p \in Quizzes, requests[i].quiz = p,
           NEW kind, requests[i].kind = kind, kind \in {"questions", "answers", "save"},
           requests' = Done(i), UNCHANGED <<saved, submissions, pendingBegin>>,
           \A q \in Quizzes \ {p} : /\ quizQuestions'[q] = quizQuestions[q]
                                    /\ quizAnswers'[q] = quizAnswers[q]
                                    /\ pendingSubmit'[q] = pendingSubmit[q],
           kind # "questions" => quizQuestions'[p] = quizQuestions[p],
           kind = "questions" => quizAnswers'[p] = quizAnswers[p],
           kind # "questions" => quizAnswers'[p] = requests[i].response
    PROVE  MarksInv'
  <1>1. /\ InFlight \subseteq Slots /\ MarksOf(p) /\ Listing /\ i \in Of(p)
        /\ InFlight' = InFlight \ {i} /\ \A k \in Slots \ {i} : requests'[k] = requests[k]
    BY DonePlace DEF MarksInv, InFlight, Of, TypesInv
  <1>2. ASSUME NEW q \in Quizzes \ {p} PROVE MarksOf(q)'
    <2>1. Of(q)' = Of(q) /\ \A k \in Of(q) : requests'[k] = requests[k]
      BY <1>1 DEF Of
    <2> QED
      BY <1>2, <2>1, SavedSame, Elsewhere DEF MarksInv
  <1>3. Of(p)' = Of(p) \ {i} /\ \A k \in Of(p) \ {i} : requests'[k] = requests[k]
    BY <1>1 DEF Of
  <1>4. MarksOf(p)'
    <2>1. ASSUME NEW k \in Of(p) \ {i} PROVE Carries(requests[k], p)'
      <3>1. Carries(requests[k], p) /\ {requests[k].kind, kind} = {"questions", "answers"}
        BY <1>1, <2>1 DEF MarksOf
      <3> QED
        BY <1>3, <2>1, <3>1, SavedSame DEF Carries
    <2>2. ~ (submissions.is = "Success" /\ ~ Shown(p, submissions) /\ pendingBegin[p] = NotAsked)
      BY <1>1 DEF MarksOf
    <2>3. quizAnswers'[p].is = "Success" /\ ~ Sent(p, {"save"})' => quizAnswers'[p].value = SavedTo(p)
      <3>1. CASE kind = "questions"
        <4>1. Sent(p, {"save"}) => Sent(p, {"save"})'
          BY <1>3, <3>1 DEF Sent
        <4> QED
          BY <1>1, <3>1, <4>1 DEF MarksOf
      <3>2. CASE kind # "questions"
        BY <1>1, <3>2 DEF MarksOf, Carries
      <3> QED
        BY <3>1, <3>2
    <2>4. \A k, l \in Of(p) \ {i} :
             k # l => {requests'[k].kind, requests'[l].kind} = {"questions", "answers"}
      BY <1>1, <1>3 DEF MarksOf
    <2>5. SavedTo(p)' = SavedTo(p) /\ Shown(p, submissions)' = Shown(p, submissions)
      BY SavedSame DEF Shown
    <2> QED
      BY <1>3, <2>1, <2>2, <2>3, <2>4, <2>5 DEF MarksOf
  <1>5. Listing'
    <2>1. \A k \in InFlight' : k \in InFlight /\ requests'[k] = requests[k]
      BY <1>1
    <2> QED
      BY <1>1, <2>1 DEF Listing
  <1> QED
    BY <1>2, <1>4, <1>5, FitsAll

\* A quiz that has been begun, or has not, is the only one of the list's in flight.
LEMMA BegunMarks ==
    ASSUME TypesInv, MarksInv, NEW i \in Slots, OnBeginQuizComplete(i)
    PROVE  MarksInv'
  <1>1. /\ i \in InFlight /\ requests[i] \in Request /\ requests[i].kind \in {"begin", "begun"}
        /\ requests[i].quiz \in Quizzes /\ TypedIn(requests[i], started)
        /\ requests[i].response = Failure \/ requests[i].response.is = "Success"
    BY ArrivedTyped DEF OnBeginQuizComplete
  <1>2. PICK p \in Quizzes : requests[i].quiz = p
    BY <1>1
  <1>3. /\ MarksOf(p) /\ Listing /\ QuizTypeOK /\ i \in Of(p) /\ submissions.is = "Success"
    BY <1>1, <1>2 DEF MarksInv, Of, TypesInv, Listing
  <1>4. /\ Done(i) \in [Slots -> Request \cup {Free}] /\ Done(i)[i] = Free
        /\ \A k \in Slots \ {i} : Done(i)[k] = requests[k]
    BY <1>1, <1>3, DonePlace
  <1>5. \A k \in Slots : \/ Done(i)[k] = requests[k] /\ (requests[k] = Free \/ requests[k].quiz # p)
                         \/ Done(i)[k] = Free /\ requests[k].quiz = p
    <2>1. ASSUME NEW k \in Of(p) PROVE k = i
      BY <1>1, <1>3, <2>1 DEF MarksOf
    <2> QED
      BY <1>2, <1>4, <2>1 DEF Of, InFlight
  <1>6. \A k \in Slots : Done(i)[k] # Free => ~ AsksForList(Done(i)[k])
    BY <1>1, <1>3, <1>4 DEF Listing, AsksForList, InFlight
  <1>7. /\ saved' = saved /\ TakeQuiz(p, Done(i))
        /\ IF requests[i].response.is = "Success"
           THEN /\ pendingBegin' = [pendingBegin EXCEPT ![p] = NotAsked]
                /\ submissions' = requests[i].response
           ELSE /\ pendingBegin' = [pendingBegin EXCEPT ![p] = requests[i].response]
                /\ UNCHANGED submissions
    BY <1>2 DEF OnBeginQuizComplete, db
  <1>8. \A q \in Quizzes \ {p} : pendingBegin'[q] = pendingBegin[q]
    BY <1>3, <1>7 DEF QuizTypeOK
  <1>9. CASE requests[i].response.is = "Success"
    <2>1. requests[i].kind = "begun"
      BY <1>1, <1>9 DEF TypedIn, ResponsesOf
    <2>2. submissions.value \cup {p} \subseteq submissions'.value /\ submissions'.is = "Success"
      BY <1>1, <1>2, <1>3, <1>7, <1>9, <2>1 DEF Listing
    <2>3. Shown(p, submissions') /\ \A q : Shown(q, submissions) => Shown(q, submissions')
      BY <2>2 DEF Shown
    <2> QED
      BY <1>3, <1>4, <1>5, <1>6, <1>7, <1>8, <2>2, <2>3, OpenMarks
  <1>10. CASE requests[i].response = Failure
    <2>1. pendingBegin'[p] = Failure /\ submissions' = submissions
      BY <1>3, <1>7, <1>10, RemoteData DEF QuizTypeOK
    <2> QED
      BY <1>3, <1>4, <1>5, <1>7, <1>8, <2>1, RemoteData, OpenMarks
  <1> QED
    BY <1>1, <1>9, <1>10

LEMMA ReceiveMarks ==
    ASSUME TypesInv, MarksInv, NEW i \in Slots, Receive(i)
    PROVE  MarksInv'
  <1>1. /\ quizQuestions \in [Quizzes -> {NotAsked, Loading, Failure, Success({})}]
        /\ quizAnswers \in [Quizzes -> WebData(SUBSET Options)]
        /\ pendingSubmit \in [Quizzes -> {NotAsked, Loading, Failure}] /\ QuizTypeOK
    BY DEF TypesInv, QuizTypeOK
  <1>2. CASE OnFetchQuizSubmissions(i)
    <2>1. /\ i \in InFlight /\ requests[i].kind = "submissions" /\ requests' = Done(i)
          /\ UNCHANGED <<saved, pendingBegin, pendingSubmit, quizQuestions, quizAnswers>>
      BY <1>2, ArrivedTyped DEF OnFetchQuizSubmissions, db, answers
    <2>2. \A k \in InFlight : k = i
      <3>1. submissions = Loading
        BY <2>1 DEF MarksInv, Listing
      <3> QED
        BY <2>1, <3>1 DEF MarksInv, Listing, AsksForList
    <2>3. InFlight' = {}
      BY <1>1, <2>1, <2>2, DonePlace
    <2>4. ASSUME NEW q \in Quizzes PROVE MarksOf(q)'
      <3>1. Of(q)' = {} /\ ~ Sent(q, {"save"})
        BY <2>1, <2>2, <2>3 DEF Of, Sent
      <3>2. MarksOf(q) /\ SavedTo(q)' = SavedTo(q)
        BY <2>1, SavedSame DEF MarksInv
      <3> QED
        BY <2>1, <3>1, <3>2 DEF MarksOf
    <2> QED
      BY <2>3, <2>4 DEF MarksInv, Listing
  <1>3. CASE OnFetchQuizQuestions(i)
    <2>1. PICK p \in Quizzes : requests[i].quiz = p /\ i \in InFlight /\ requests[i].kind = "questions"
      BY <1>3, ArrivedTyped DEF OnFetchQuizQuestions
    <2>2. /\ requests' = Done(i) /\ quizQuestions' = [quizQuestions EXCEPT ![p] = requests[i].response]
          /\ UNCHANGED <<saved, submissions, pendingBegin, pendingSubmit, quizAnswers>>
      BY <1>3, <2>1 DEF OnFetchQuizQuestions, db, begins
    <2>3. \A q \in Quizzes \ {p} : quizQuestions'[q] = quizQuestions[q]
      BY <1>1, <2>2
    <2> QED
      BY <2>1, <2>2, <2>3, DoneMarks
  <1>4. CASE OnFetchQuizAnswers(i)
    <2>1. PICK p \in Quizzes : requests[i].quiz = p /\ i \in InFlight /\ requests[i].kind = "answers"
      BY <1>4, ArrivedTyped DEF OnFetchQuizAnswers
    <2>2. /\ requests' = Done(i) /\ quizAnswers' = [quizAnswers EXCEPT ![p] = requests[i].response]
          /\ UNCHANGED <<saved, submissions, pendingBegin, pendingSubmit, quizQuestions>>
      BY <1>4, <2>1 DEF OnFetchQuizAnswers, db, begins
    <2>3. /\ quizAnswers'[p] = requests[i].response
          /\ \A q \in Quizzes \ {p} : quizAnswers'[q] = quizAnswers[q]
      BY <1>1, <2>2
    <2> QED
      BY <2>1, <2>2, <2>3, DoneMarks
  <1>5. CASE OnSubmitQuizAnswersComplete(i)
    <2>1. PICK p \in Quizzes : requests[i].quiz = p /\ i \in InFlight /\ requests[i].kind = "save"
      BY <1>5, ArrivedTyped DEF OnSubmitQuizAnswersComplete
    <2>2. /\ requests' = Done(i) /\ quizAnswers' = [quizAnswers EXCEPT ![p] = requests[i].response]
          /\ pendingSubmit' = [pendingSubmit EXCEPT ![p] =
                IF requests[i].response.is = "Success" THEN NotAsked ELSE requests[i].response]
          /\ UNCHANGED <<saved, submissions, pendingBegin, quizQuestions>>
      BY <1>5, <2>1 DEF OnSubmitQuizAnswersComplete, db, begins
    <2>3. /\ quizAnswers'[p] = requests[i].response
          /\ \A q \in Quizzes \ {p} : /\ quizAnswers'[q] = quizAnswers[q]
                                      /\ pendingSubmit'[q] = pendingSubmit[q]
      BY <1>1, <2>2
    <2> QED
      BY <2>1, <2>2, <2>3, DoneMarks
  <1> QED
    BY <1>2, <1>3, <1>4, <1>5, BegunMarks DEF Receive

LEMMA InitMarks == Init => MarksInv
  <1> DEFINE i == CHOOSE k \in Slots : TRUE
             r == Ask("submissions", CHOOSE q \in Quizzes : TRUE, {})
  <1> SUFFICES ASSUME Init PROVE MarksInv
    OBVIOUS
  <1>1. /\ requests = [[j \in Slots |-> Free] EXCEPT ![i] = r] /\ submissions = Loading
        /\ quizAnswers = [q \in Quizzes |-> NotAsked]
    BY DEF Init
  <1>2. r.kind = "submissions" /\ r.response = Loading
    BY DEF Ask
  <1> HIDE DEF i, r
  <1>3. \A j \in InFlight : j = i /\ requests[j] = r
    BY <1>1 DEF InFlight
  <1>4. Listing
    BY <1>1, <1>2, <1>3, RemoteData DEF Listing
  <1>5. ASSUME NEW q \in Quizzes PROVE MarksOf(q)
    BY <1>1, <1>2, <1>3, RemoteData DEF MarksOf, Of, Carries
  <1> QED
    BY <1>4, <1>5 DEF MarksInv

LEMMA NextMarks == Patient /\ TypesInv /\ MarksInv /\ [Next]_vars => MarksInv'
  <1> SUFFICES ASSUME Patient, TypesInv, MarksInv, [Next]_vars PROVE MarksInv'
    OBVIOUS
  <1>1. ASSUME UNCHANGED <<saved, requests, submissions, pendingBegin, pendingSubmit, quizQuestions,
                           quizAnswers>>
        PROVE  MarksInv'
    <2>1. ASSUME NEW q \in Quizzes PROVE MarksOf(q)'
      <3>1. Of(q)' = Of(q) /\ MarksOf(q)
        BY <1>1 DEF Of, InFlight, MarksInv
      <3> QED
        BY <1>1, <3>1, SavedSame, Elsewhere
    <2>2. Listing'
      BY <1>1 DEF MarksInv, Listing, InFlight
    <2> QED
      BY <2>1, <2>2 DEF MarksInv
  <1>2. CASE UNCHANGED vars
    BY <1>1, <1>2 DEF vars, db, begins, answers
  <1>3. CASE Student
    <2>1. ASSUME NEW o \in Options, OnToggleQuizQuestionOption(o) \/ OnSelectQuizQuestionOption(o)
          PROVE  MarksInv'
      BY <1>1, <2>1 DEF OnToggleQuizQuestionOption, OnSelectQuizQuestionOption, db, begins
    <2> QED
      BY <1>3, <2>1, BeginMarks, EditMarks, SubmitMarks DEF Student
  <1> QED
    BY <1>2, <1>3, ServeMarks, ReceiveMarks DEF Next

LEMMA MarksInvariant == Patient => (Spec => []MarksInv)
  <1>1. Patient /\ TypesInv /\ MarksInv /\ [Next]_vars => MarksInv'
    BY NextMarks
  <1> SUFFICES ASSUME Patient PROVE Spec => []MarksInv
    OBVIOUS
  <1>2. TypesInv /\ MarksInv /\ [Next]_vars => MarksInv'
    BY <1>1
  <1> QED
    BY <1>2, InitMarks, TypesInvariant, PTL DEF Spec

\* With nothing of a quiz in flight, its form marks the answers that are saved and
\* no others, however many quizzes are open in the tab.
THEOREM MarksAreTrue == Patient => (Spec => []LabelsTrue)
  <1> SUFFICES ASSUME Patient PROVE Spec => []LabelsTrue
    OBVIOUS
  <1>1. MarksInv => LabelsTrue
    <2> SUFFICES ASSUME MarksInv, NEW q \in Quizzes, FormShown(q), Of(q) = {}
                 PROVE  quizAnswers[q].value = saved \cap OptionsOf(q)
      BY DEF LabelsTrue
    <2>1. MarksOf(q)
      BY DEF MarksInv
    <2> QED
      BY <2>1 DEF MarksOf, Sent, FormShown, SavedTo
  <1> QED
    BY <1>1, MarksInvariant, PTL

\* A quiz that the page lists as started is in the table, whoever fetched the list
\* and in whatever order the answers come: "Edit quiz" opens no quiz that has not
\* been begun.
THEOREM ListedIsStarted == Spec => []ListStarted
  <1>1. TypesInv => ListStarted
    BY DEF TypesInv
  <1> QED
    BY <1>1, TypesInvariant, PTL
-----------------------------------------------------------------------------
(* A page of one quiz.                                                     *)

\* There is one quiz, which the student opens when nothing of it is in flight.
OneQuiz(q) ==
    Quizzes = {q} /\ Patient = TRUE

\* Two requests are in flight at once only when a quiz is opened.
Pairs ==
    \A i, j \in InFlight :
        i # j => {requests[i].kind, requests[j].kind} = {"questions", "answers"}

\* The options she has not changed are checked as A says.
Agree(A) == \A o \in Options \ toggled : o \in inputs <=> o \in A

\* What the page and the tables are like while a request is in flight: a save is
\* that of a form whose unchanged options are as they were saved, and until its
\* answer has come nobody opens the quiz or saves it again.
Pending(r) ==
    /\ r.response \in ResponsesOf(r.kind)
    /\ r.kind = "submissions" =>
          submissions = Loading /\ (r.response.is = "Success" => r.response.value \subseteq started)
    /\ r.kind \in {"begin", "begun"} => ~ Shown(r.quiz, submissions)
    /\ r.kind = "begun" =>
          r.quiz \in started /\ (r.response.is = "Success" => r.response.value = started)
    /\ r.kind = "questions" => quizQuestions[r.quiz] = Loading
    /\ r.kind = "answers" =>
          quizAnswers[r.quiz] = Loading /\ (r.response.is = "Success" => r.response.value = saved)
    /\ r.kind = "save" =>
          /\ pendingSubmit[r.quiz] = Loading /\ Shown(r.quiz, submissions) /\ r.quiz \in started
          /\ Agree(r.body)
          /\ r.response = Loading => saved \ r.body \subseteq toggled
          /\ r.response.is = "Success" => r.response.value = r.body /\ r.body = saved

\* The page between two answers.
Settled(q) ==
    /\ submissions.is = "Success" => submissions.value \subseteq started
    /\ submissions.is = "Success" /\ ~ Shown(q, submissions) /\ pendingBegin[q] = NotAsked
          => InFlight = {}
    /\ quizAnswers[q].is = "Success" =>
          /\ Agree(quizAnswers[q].value)
          /\ (\A i \in InFlight : requests[i].kind # "save") => quizAnswers[q].value = saved

QuizInv(q) ==
    QuizTypeOK /\ Pairs /\ (\A i \in InFlight : Pending(requests[i])) /\ Settled(q)

\* Every option is one of the quiz.
LEMMA AllOptions ==
    ASSUME NEW q, OneQuiz(q)
    PROVE  /\ OptionsOf(q) = Options
           /\ \A o \in Options : QuestionOf[o] \in Questions /\ QuizOf[QuestionOf[o]] = q
           /\ \A o \in Options : o \in Alternatives(o) /\ Alternatives(o) \subseteq Options
  BY PagesAssumption DEF OneQuiz, QuizPageAssumption, OptionsOf, Alternatives

\* A request that is answered stays in its place, and so do the others.
LEMMA AnswerPairs ==
    ASSUME QuizTypeOK, NEW i \in InFlight, NEW x \in WebData((SUBSET Options) \cup (SUBSET Quizzes)),
           Answer(i, x)
    PROVE  /\ requests' \in [Slots -> Request \cup {Free}] /\ InFlight' = InFlight
           /\ requests'[i].response = x /\ requests'[i].kind = requests[i].kind
           /\ requests'[i].quiz = requests[i].quiz /\ requests'[i].body = requests[i].body
           /\ \A j \in InFlight \ {i} : requests'[j] = requests[j]
           /\ Pairs => Pairs'
  <1>1. /\ requests' \in [Slots -> Request \cup {Free}] /\ InFlight' = InFlight
        /\ requests'[i].response = x /\ requests'[i].kind = requests[i].kind
        /\ requests'[i].quiz = requests[i].quiz /\ requests'[i].body = requests[i].body
        /\ \A j \in Slots \ {i} : requests'[j] = requests[j]
    BY AnswerPlace
  <1>2. InFlight \subseteq Slots
    BY DEF InFlight
  <1>3. Pairs => Pairs'
    BY <1>1, <1>2 DEF Pairs
  <1> QED
    BY <1>1, <1>2, <1>3

\* What the database and the network do to a request.
LEMMA ReadKeeps ==
    ASSUME NEW q, OneQuiz(q), QuizInv(q), NEW i \in Slots, Read(i)
    PROVE  QuizInv(q)'
  <1> DEFINE r == requests[i]
             x == requests'[i].response
             W == WebData((SUBSET Options) \cup (SUBSET Quizzes))
  <1>1. /\ QuizTypeOK /\ i \in InFlight /\ r \in Request /\ r.quiz = q /\ Pending(r)
        /\ started \subseteq Quizzes /\ saved \subseteq Options
    BY DEF QuizInv, Read, Waiting, InFlight, QuizTypeOK, Request, OneQuiz
  <1>2. /\ r.response = Loading /\ UNCHANGED <<started, saved, submissions, pendingBegin,
             pendingSubmit, quizQuestions, quizAnswers, inputs, toggled>>
        /\ \/ r.kind \in {"submissions", "begun"} /\ Answer(i, Success(started))
           \/ r.kind = "questions" /\ Answer(i, Success({}))
           \/ r.kind = "answers" /\ Answer(i, Success(saved))
    <2>1. saved \cap OptionsOf(q) = saved
      BY <1>1, AllOptions
    <2> QED
      BY <1>1, <2>1 DEF Read, Waiting, db, begins, answers
  <1>3. Success(started) \in W /\ Success({}) \in W /\ Success(saved) \in W
    <2>1. {} \subseteq Options
      OBVIOUS
    <2> QED
      BY <1>1, <2>1, AnswerType
  <1>4. /\ requests' \in [Slots -> Request \cup {Free}] /\ InFlight' = InFlight /\ Pairs'
        /\ requests'[i].kind = r.kind /\ requests'[i].quiz = q
        /\ \A j \in InFlight \ {i} : requests'[j] = requests[j]
        /\ \/ r.kind \in {"submissions", "begun"} /\ x = Success(started)
           \/ r.kind = "questions" /\ x = Success({})
           \/ r.kind = "answers" /\ x = Success(saved)
    BY <1>1, <1>2, <1>3, AnswerPairs DEF QuizInv
  <1>5. QuizTypeOK'
    BY <1>1, <1>2, <1>4 DEF QuizTypeOK
  <1>6. Pending(requests[i])'
    <2>1. x \in ResponsesOf(r.kind)
      BY <1>1, <1>3, <1>4, RemoteData DEF ResponsesOf
    <2> QED
      BY <1>1, <1>2, <1>4, <2>1, RemoteData DEF Pending, Shown
  <1>7. ASSUME NEW j \in InFlight \ {i} PROVE Pending(requests[j])'
    BY <1>2, <1>4, <1>7 DEF QuizInv, Pending, Agree, Shown
  <1>8. Settled(q)'
    <2>1. \A j \in InFlight : requests'[j].kind = requests[j].kind
      BY <1>4
    <2> QED
      BY <1>2, <1>4, <2>1 DEF QuizInv, Settled, Agree, Shown
  <1> QED
    BY <1>4, <1>5, <1>6, <1>7, <1>8 DEF QuizInv

LEMMA FailsKeeps ==
    ASSUME NEW q, OneQuiz(q), QuizInv(q), NEW i \in Slots, Fails(i)
    PROVE  QuizInv(q)'
  <1> DEFINE r == requests[i]
  <1>1. /\ QuizTypeOK /\ i \in InFlight /\ r \in Request /\ Pending(r) /\ Answer(i, Failure)
        /\ UNCHANGED <<started, saved, submissions, pendingBegin,
             pendingSubmit, quizQuestions, quizAnswers, inputs, toggled>>
    BY DEF QuizInv, Fails, InFlight, QuizTypeOK, db, begins, answers
  <1>2. Failure \in WebData((SUBSET Options) \cup (SUBSET Quizzes))
    BY DEF WebData
  <1>3. /\ requests' \in [Slots -> Request \cup {Free}] /\ InFlight' = InFlight /\ Pairs'
        /\ requests'[i].kind = r.kind /\ requests'[i].quiz = r.quiz /\ requests'[i].body = r.body
        /\ \A j \in InFlight \ {i} : requests'[j] = requests[j]
        /\ requests'[i].response = Failure
    BY <1>1, <1>2, AnswerPairs DEF QuizInv
  <1>4. QuizTypeOK'
    BY <1>1, <1>3 DEF QuizTypeOK
  <1>5. Pending(requests[i])'
    <2>1. Failure \in ResponsesOf(r.kind)
      BY <1>2, RemoteData DEF ResponsesOf
    <2> QED
      BY <1>1, <1>3, <2>1, RemoteData DEF Pending, Shown, Agree
  <1>6. ASSUME NEW j \in InFlight \ {i} PROVE Pending(requests[j])'
    BY <1>1, <1>3, <1>6 DEF QuizInv, Pending, Agree, Shown
  <1>7. Settled(q)'
    <2>1. \A j \in InFlight : requests'[j].kind = requests[j].kind
      BY <1>3
    <2> QED
      BY <1>1, <1>3, <2>1 DEF QuizInv, Settled, Agree, Shown
  <1> QED
    BY <1>3, <1>4, <1>5, <1>6, <1>7 DEF QuizInv

\* A request of these kinds is alone in flight.
LEMMA AloneInFlight ==
    ASSUME Pairs, NEW i \in InFlight, requests[i].kind \notin {"questions", "answers"}
    PROVE  InFlight = {i}
  BY DEF Pairs

LEMMA InsertKeeps ==
    ASSUME NEW q, OneQuiz(q), QuizInv(q), NEW i \in Slots, Insert(i)
    PROVE  QuizInv(q)'
  <1> DEFINE r == requests[i]
  <1>1. /\ QuizTypeOK /\ i \in InFlight /\ r \in Request /\ Pending(r) /\ r.quiz = q
        /\ r.kind = "begin" /\ r.response = Loading /\ InFlight = {i}
        /\ UNCHANGED <<saved, submissions, pendingBegin,
             pendingSubmit, quizQuestions, quizAnswers, inputs, toggled>>
    <2>1. i \in InFlight /\ r.kind = "begin" /\ Pairs
      BY DEF Insert, Waiting, InFlight, QuizInv
    <2> QED
      BY <2>1, AloneInFlight
      DEF QuizInv, Insert, Waiting, InFlight, QuizTypeOK, Request, OneQuiz, begins, answers
  <1>2. CASE q \in started
    <2>1. Answer(i, Failure) /\ UNCHANGED started
      BY <1>1, <1>2 DEF Insert
    <2>2. Fails(i)
      BY <1>1, <2>1, RemoteData DEF Fails, InFlight, db, begins, answers
    <2> QED
      BY <2>2, FailsKeeps
  <1>3. CASE q \notin started
    <2> DEFINE s == [r EXCEPT !.kind = "begun"]
    <2>1. started' = started \cup {q} /\ requests' = [requests EXCEPT ![i] = s]
      BY <1>1, <1>3 DEF Insert
    <2>2. s \in Request /\ s.kind = "begun" /\ s.response = Loading /\ s.quiz = q
      BY <1>1 DEF Request, Kinds
    <2> HIDE DEF s
    <2>3. /\ requests'[i] = s /\ InFlight' = {i} /\ requests' \in [Slots -> Request \cup {Free}]
      BY <1>1, <2>1, <2>2, OnePlace, FreeIsNoRequest DEF QuizTypeOK
    <2>4. QuizTypeOK'
      <3>1. saved \subseteq {o \in Options : QuizOf[QuestionOf[o]] \in started'}
        <4>1. saved \subseteq {o \in Options : QuizOf[QuestionOf[o]] \in started}
          BY <1>1 DEF QuizTypeOK
        <4> QED
          BY <2>1, <4>1
      <3> QED
        BY <1>1, <2>1, <2>3, <3>1 DEF QuizTypeOK, OneQuiz
    <2>5. Pairs'
      BY <2>3 DEF Pairs
    <2>6. Pending(requests[i])'
      <3>1. Loading \in ResponsesOf("begun")
        BY RemoteData DEF ResponsesOf, WebData
      <3> QED
        BY <1>1, <2>1, <2>2, <2>3, <3>1, RemoteData DEF Pending, Shown
    <2>7. Settled(q)'
      <3>1. submissions.is = "Success" => pendingBegin[q] # NotAsked \/ Shown(q, submissions)
        BY <1>1 DEF QuizInv, Settled
      <3> QED
        BY <1>1, <2>1, <2>2, <2>3, <3>1 DEF QuizInv, Settled, Agree, Shown
    <2> QED
      BY <2>3, <2>4, <2>5, <2>6, <2>7 DEF QuizInv
  <1> QED
    BY <1>2, <1>3

LEMMA SaveKeeps ==
    ASSUME NEW q, OneQuiz(q), QuizInv(q), NEW i \in Slots, SaveQuiz(i)
    PROVE  QuizInv(q)' /\ saved \ saved' \subseteq toggled
  <1> DEFINE r == requests[i]
  <1>1. /\ QuizTypeOK /\ i \in InFlight /\ r \in Request /\ Pending(r) /\ r.quiz = q
        /\ r.kind = "save" /\ r.response = Loading /\ InFlight = {i} /\ r.body \subseteq Options
        /\ UNCHANGED <<started, submissions, pendingBegin,
             pendingSubmit, quizQuestions, quizAnswers, inputs, toggled>>
    <2>1. i \in InFlight /\ r.kind = "save" /\ Pairs
      BY DEF SaveQuiz, Waiting, InFlight, QuizInv
    <2> QED
      BY <2>1, AloneInFlight
      DEF QuizInv, SaveQuiz, Waiting, InFlight, QuizTypeOK, Request, OneQuiz, begins, answers
  <1>2. saved' = r.body /\ Answer(i, Success(r.body))
    <2>1. saved \subseteq Options
      BY <1>1 DEF QuizTypeOK
    <2> QED
      BY <1>1, <2>1, AllOptions DEF SaveQuiz
  <1>3. Success(r.body) \in WebData((SUBSET Options) \cup (SUBSET Quizzes))
    BY <1>1 DEF WebData
  <1>4. /\ requests' \in [Slots -> Request \cup {Free}] /\ InFlight' = {i} /\ Pairs'
        /\ requests'[i].kind = "save" /\ requests'[i].quiz = q /\ requests'[i].body = r.body
        /\ requests'[i].response = Success(r.body)
    BY <1>1, <1>2, <1>3, AnswerPairs DEF QuizInv
  <1>5. QuizTypeOK'
    <2>1. saved' \subseteq {o \in Options : QuizOf[QuestionOf[o]] \in started}
      BY <1>1, <1>2, AllOptions DEF Pending
    <2> QED
      BY <1>1, <1>4, <2>1 DEF QuizTypeOK
  <1>6. Pending(requests[i])'
    <2>1. Success(r.body) \in ResponsesOf("save")
      BY <1>1, <1>3, RemoteData DEF ResponsesOf
    <2> QED
      BY <1>1, <1>2, <1>4, <2>1, RemoteData DEF Pending, Shown, Agree
  <1>7. Settled(q)'
    BY <1>1, <1>4 DEF QuizInv, Settled, Agree, Shown
  <1>8. saved \ saved' \subseteq toggled
    BY <1>1, <1>2 DEF Pending
  <1> QED
    BY <1>4, <1>5, <1>6, <1>7, <1>8 DEF QuizInv

\* A request that is sent when nothing is in flight.
LEMMA SendAlone ==
    ASSUME QuizTypeOK, InFlight = {}, Unused # {}, NEW r \in Request,
           requests' = [requests EXCEPT ![First] = r]
    PROVE  /\ requests' \in [Slots -> Request \cup {Free}] /\ Pairs'
           /\ \A k \in InFlight' : requests'[k] = r
  <1>1. First \in Slots
    BY DEF First, Unused
  <1>2. r # Free
    BY FreeIsNoRequest
  <1>3. /\ requests' \in [Slots -> Request \cup {Free}]
        /\ InFlight' = {} \cup {First} /\ requests'[First] = r
    BY <1>1, <1>2, OnePlace DEF QuizTypeOK
  <1>4. \A k \in InFlight' : k = First
    BY <1>3
  <1> QED
    BY <1>3, <1>4 DEF Pairs

\* Opening a quiz puts two requests in flight.
LEMMA TakeQuizSends ==
    ASSUME NEW q, OneQuiz(q), NEW rest \in [Slots -> Request \cup {Free}],
           \A k \in Slots : rest[k] = Free, TakeQuiz(q, rest)
    PROVE  /\ requests' \in [Slots -> Request \cup {Free}] /\ Pairs'
           /\ \A k \in InFlight' : requests'[k] \in {Ask("questions", q, {}), Ask("answers", q, {})}
  <1>1. q \in Quizzes /\ {} \in SUBSET Options /\ {"questions", "answers"} \subseteq Kinds
    BY DEF OneQuiz, Kinds
  <1>2. /\ Ask("questions", q, {}).kind = "questions" /\ Ask("answers", q, {}).kind = "answers"
    BY <1>1, AskType
  <1>3. requests' \in [Slots -> Request \cup {Free}]
    BY <1>1, OpenPlaces
  <1>4. PICK i, j \in Slots :
           /\ requests'[i] = Ask("questions", q, {}) /\ requests'[j] = Ask("answers", q, {})
           /\ \A k \in Slots \ {i, j} : requests'[k] = rest[k]
    BY <1>1, OpenPlaces
  <1>5. InFlight' \subseteq {i, j}
    BY <1>4 DEF InFlight
  <1> QED
    BY <1>2, <1>3, <1>4, <1>5 DEF Pairs

\* From a page with nothing else in flight, opening a quiz keeps the invariant.
LEMMA TakeQuizKeeps ==
    ASSUME NEW q, OneQuiz(q), QuizTypeOK, NEW rest \in [Slots -> Request \cup {Free}],
           \A k \in Slots : rest[k] = Free, TakeQuiz(q, rest), UNCHANGED <<started, saved>>,
           submissions' \in WebData(SUBSET Quizzes),
           pendingBegin' \in [Quizzes -> {NotAsked, Loading, Failure}],
           submissions'.is = "Success" => submissions'.value \subseteq started,
           submissions'.is = "Success" => Shown(q, submissions)' \/ pendingBegin'[q] # NotAsked
    PROVE  QuizInv(q)'
  <1>1. /\ requests' \in [Slots -> Request \cup {Free}] /\ Pairs'
        /\ \A k \in InFlight' : requests'[k] \in {Ask("questions", q, {}), Ask("answers", q, {})}
    BY TakeQuizSends
  <1>2. /\ quizQuestions' = [quizQuestions EXCEPT ![q] = Loading]
        /\ quizAnswers' = [quizAnswers EXCEPT ![q] = Loading]
        /\ UNCHANGED <<pendingSubmit, inputs, toggled>> /\ q \in Quizzes
    BY DEF TakeQuiz, OneQuiz
  <1>3. quizQuestions'[q] = Loading /\ quizAnswers'[q] = Loading
    BY <1>2 DEF QuizTypeOK
  <1>4. QuizTypeOK'
    <2>1. Loading \in WebData(SUBSET Options)
      BY DEF WebData
    <2> QED
      BY <1>1, <1>2, <2>1 DEF QuizTypeOK
  <1>5. ASSUME NEW k \in InFlight' PROVE Pending(requests[k])'
    <2>1. /\ requests'[k].kind \in {"questions", "answers"} /\ requests'[k].quiz = q
          /\ requests'[k].response = Loading /\ Loading \in ResponsesOf(requests'[k].kind)
      <3>1. {} \in SUBSET Options /\ {"questions", "answers"} \subseteq Kinds
        BY DEF Kinds
      <3> QED
        BY <1>1, <1>2, <1>5, <3>1, AskType
    <2> QED
      BY <1>3, <2>1, RemoteData DEF Pending
  <1>6. Settled(q)'
    BY <1>2, <1>3, RemoteData DEF Settled
  <1> QED
    BY <1>1, <1>4, <1>5, <1>6 DEF QuizInv

LEMMA EditKeeps ==
    ASSUME NEW q, OneQuiz(q), QuizInv(q), EditQuiz(q)
    PROVE  QuizInv(q)'
  <1>1. /\ QuizTypeOK /\ requests \in [Slots -> Request \cup {Free}] /\ TakeQuiz(q, requests)
        /\ UNCHANGED <<started, saved, submissions, pendingBegin>> /\ Shown(q, submissions)
        /\ submissions.is = "Success" => submissions.value \subseteq started
    BY DEF QuizInv, QuizTypeOK, EditQuiz, db, begins, Settled
  <1>2. \A k \in Slots : requests[k] = Free
    <2>1. Of(q) = {}
      BY DEF EditQuiz, OneQuiz
    <2> QED
      BY <1>1, <2>1 DEF Of, InFlight, Request, OneQuiz
  <1>3. submissions \in WebData(SUBSET Quizzes) /\ pendingBegin \in [Quizzes -> {NotAsked, Loading, Failure}]
    BY <1>1 DEF QuizTypeOK
  <1>4. Shown(q, submissions)'
    BY <1>1 DEF Shown
  <1> QED
    BY <1>1, <1>2, <1>3, <1>4, TakeQuizKeeps

LEMMA BeginKeeps ==
    ASSUME NEW q, OneQuiz(q), QuizInv(q), OnBeginQuiz(q)
    PROVE  QuizInv(q)'
  <1> DEFINE r == Ask("begin", q, {})
  <1>1. /\ QuizTypeOK /\ InFlight = {} /\ Unused # {} /\ q \in Quizzes
        /\ requests' = [requests EXCEPT ![First] = r]
        /\ ~ Shown(q, submissions) /\ pendingBegin' = [pendingBegin EXCEPT ![q] = Loading]
        /\ UNCHANGED <<started, saved, submissions, pendingSubmit, quizQuestions, quizAnswers,
                       inputs, toggled>>
    BY DEF QuizInv, OneQuiz, OnBeginQuiz, Settled, Shown, db, answers
  <1>2. r \in Request /\ r.kind = "begin" /\ r.quiz = q /\ r.response = Loading
        /\ Loading \in ResponsesOf("begin")
    <2>1. {} \in SUBSET Options /\ "begin" \in Kinds
      BY DEF Kinds
    <2> QED
      BY <1>1, <2>1, AskType
  <1> HIDE DEF r
  <1>3. /\ requests' \in [Slots -> Request \cup {Free}] /\ Pairs'
        /\ \A k \in InFlight' : requests'[k] = r
    BY <1>1, <1>2, SendAlone
  <1>4. QuizTypeOK'
    BY <1>1, <1>3 DEF QuizTypeOK
  <1>5. ASSUME NEW k \in InFlight' PROVE Pending(requests[k])'
    BY <1>1, <1>2, <1>3, <1>5, RemoteData DEF Pending, Shown
  <1>6. Settled(q)'
    <2>1. pendingBegin'[q] = Loading
      BY <1>1 DEF QuizTypeOK
    <2> QED
      BY <1>1, <1>2, <1>3, <2>1, RemoteData DEF QuizInv, Settled, Shown, Agree
  <1> QED
    BY <1>3, <1>4, <1>5, <1>6 DEF QuizInv

\* While the form of a quiz is shown, only a save of it can be in flight.
LEMMA FormInFlight ==
    ASSUME NEW q, OneQuiz(q), QuizInv(q), FormShown(q), NEW i \in InFlight
    PROVE  requests[i].kind = "save" /\ pendingSubmit[q] = Loading
  <1>1. requests[i] \in Request /\ requests[i].quiz = q /\ Pending(requests[i])
        /\ requests[i].kind \in Kinds
    BY DEF QuizInv, QuizTypeOK, InFlight, Request, OneQuiz
  <1> QED
    BY <1>1, RemoteData DEF Pending, FormShown, Shown, Kinds

LEMMA SubmitKeeps ==
    ASSUME NEW q, OneQuiz(q), QuizInv(q), OnSubmitQuizAnswers(q)
    PROVE  QuizInv(q)'
  <1> DEFINE r == Ask("save", q, inputs)
  <1>1. QuizTypeOK /\ inputs \subseteq Options /\ FormShown(q) /\ q \in Quizzes
        /\ inputs \cap OptionsOf(q) = inputs
    BY AllOptions DEF QuizInv, QuizTypeOK, OnSubmitQuizAnswers, OneQuiz
  <1>2. InFlight = {}
    BY FormInFlight DEF OnSubmitQuizAnswers
  <1>3. /\ Unused # {} /\ requests' = [requests EXCEPT ![First] = r]
        /\ pendingSubmit' = [pendingSubmit EXCEPT ![q] = Loading]
        /\ UNCHANGED <<started, saved, submissions, pendingBegin, quizQuestions, quizAnswers,
                       inputs, toggled>>
    BY <1>1 DEF OnSubmitQuizAnswers, db, begins
  <1>4. r \in Request /\ r.kind = "save" /\ r.quiz = q /\ r.response = Loading /\ r.body = inputs
        /\ Loading \in ResponsesOf("save")
    <2>1. inputs \in SUBSET Options /\ "save" \in Kinds
      BY <1>1 DEF Kinds
    <2> QED
      BY <1>1, <2>1, AskType
  <1> HIDE DEF r
  <1>5. /\ requests' \in [Slots -> Request \cup {Free}] /\ Pairs'
        /\ \A k \in InFlight' : requests'[k] = r
    BY <1>1, <1>2, <1>3, <1>4, SendAlone
  <1>6. QuizTypeOK'
    BY <1>1, <1>3, <1>5 DEF QuizTypeOK
  <1>7. ASSUME NEW k \in InFlight' PROVE Pending(requests[k])'
    <2>1. quizAnswers[q].is = "Success" /\ Agree(quizAnswers[q].value) /\ quizAnswers[q].value = saved
      BY <1>1, <1>2 DEF QuizInv, Settled, FormShown
    <2>2. saved \ inputs \subseteq toggled
      <3>1. saved \subseteq Options
        BY <1>1 DEF QuizTypeOK
      <3> QED
        BY <2>1, <3>1 DEF Agree
    <2>3. Shown(q, submissions)' /\ q \in started /\ pendingSubmit'[q] = Loading
      BY <1>1, <1>3 DEF QuizInv, Settled, FormShown, Shown, QuizTypeOK
    <2> QED
      BY <1>3, <1>4, <1>5, <1>7, <2>2, <2>3, RemoteData DEF Pending, Agree
  <1>8. Settled(q)'
    <2>1. Shown(q, submissions)
      BY <1>1 DEF FormShown
    <2> QED
      BY <1>2, <1>3, <1>4, <1>5, <2>1 DEF QuizInv, Settled, Shown, Agree
  <1> QED
    BY <1>5, <1>6, <1>7, <1>8 DEF QuizInv

\* Changing options notes them as changed.
LEMMA ToggleKeeps ==
    ASSUME NEW q, OneQuiz(q), QuizInv(q), NEW o \in Options,
           OnToggleQuizQuestionOption(o) \/ OnSelectQuizQuestionOption(o)
    PROVE  QuizInv(q)'
  <1>1. /\ QuizTypeOK /\ requests' = requests
        /\ UNCHANGED <<started, saved, submissions, pendingBegin, pendingSubmit, quizQuestions,
                       quizAnswers>>
    BY DEF QuizInv, OnToggleQuizQuestionOption, OnSelectQuizQuestionOption, db, begins
  <1>2. /\ inputs' \subseteq Options /\ toggled' \subseteq Options /\ toggled \subseteq toggled'
        /\ \A x \in Options \ toggled' : x \in inputs' <=> x \in inputs
    <2>1. o \in Alternatives(o) /\ Alternatives(o) \subseteq Options
      BY AllOptions
    <2> QED
      BY <1>1, <2>1 DEF QuizTypeOK, OnToggleQuizQuestionOption, OnSelectQuizQuestionOption
  <1>3. InFlight' = InFlight /\ Pairs'
    BY <1>1 DEF InFlight, QuizInv, Pairs
  <1>4. QuizTypeOK'
    BY <1>1, <1>2 DEF QuizTypeOK
  <1>5. \A A : Agree(A) => Agree(A)'
    BY <1>2 DEF Agree
  <1>6. ASSUME NEW i \in InFlight PROVE Pending(requests[i])'
    BY <1>1, <1>2, <1>5, <1>6 DEF QuizInv, Pending, Shown
  <1>7. Settled(q)'
    BY <1>1, <1>3, <1>5 DEF QuizInv, Settled, Shown
  <1> QED
    BY <1>3, <1>4, <1>6, <1>7 DEF QuizInv

\* A request that is done with is, but for those that open the quiz, the last.
LEMMA DoneAlone ==
    ASSUME QuizTypeOK, Pairs, NEW i \in InFlight
    PROVE  /\ Done(i) \in [Slots -> Request \cup {Free}]
           /\ requests' = Done(i) =>
                 /\ InFlight' = InFlight \ {i} /\ Pairs'
                 /\ \A j \in InFlight' : requests'[j] = requests[j]
           /\ requests[i].kind \notin {"questions", "answers"} => \A k \in Slots : Done(i)[k] = Free
  <1>1. /\ Done(i) \in [Slots -> Request \cup {Free}] /\ Done(i)[i] = Free
        /\ \A j \in Slots \ {i} : Done(i)[j] = requests[j]
        /\ requests' = Done(i) => InFlight' = InFlight \ {i}
    BY DonePlace
  <1>2. ASSUME requests' = Done(i)
        PROVE  Pairs' /\ \A j \in InFlight' : requests'[j] = requests[j]
    <2>1. InFlight' = InFlight \ {i} /\ \A j \in InFlight' : requests'[j] = requests[j]
      BY <1>1, <1>2 DEF InFlight
    <2> QED
      BY <2>1 DEF Pairs
  <1>3. ASSUME requests[i].kind \notin {"questions", "answers"}, NEW k \in Slots
        PROVE  Done(i)[k] = Free
    <2>1. InFlight = {i}
      BY <1>3, AloneInFlight
    <2> QED
      BY <1>1, <2>1 DEF InFlight
  <1> QED
    BY <1>1, <1>2, <1>3

\* What an arriving answer is.
LEMMA Arrived ==
    ASSUME NEW q, OneQuiz(q), QuizInv(q), NEW i \in Slots, NEW kinds, Arrives(i, kinds)
    PROVE  /\ i \in InFlight /\ requests[i] \in Request /\ requests[i].kind \in kinds
           /\ requests[i].quiz = q /\ Pending(requests[i])
           /\ \/ requests[i].response = Failure
              \/ requests[i].response.is = "Success"
                 /\ requests[i].response = Success(requests[i].response.value)
  <1>1. /\ i \in InFlight /\ requests[i] \in Request /\ requests[i].kind \in kinds
        /\ requests[i].quiz = q /\ Pending(requests[i]) /\ requests[i].response # Loading
    BY DEF Arrives, QuizInv, QuizTypeOK, InFlight, Request, OneQuiz
  <1>2. requests[i].response \in ResponsesOf(requests[i].kind)
    BY <1>1 DEF Pending
  <1>3. \/ requests[i].response = Failure
        \/ \E x : requests[i].response = Success(x)
    BY <1>1, <1>2 DEF ResponsesOf, WebData
  <1> QED
    BY <1>1, <1>3, RemoteData

LEMMA SubmissionsKeep ==
    ASSUME NEW q, OneQuiz(q), QuizInv(q), NEW i \in Slots, OnFetchQuizSubmissions(i)
    PROVE  QuizInv(q)'
  <1> DEFINE r == requests[i]
  <1>1. /\ i \in InFlight /\ r \in Request /\ r.kind = "submissions" /\ Pending(r)
        /\ \/ r.response = Failure
           \/ r.response.is = "Success" /\ r.response = Success(r.response.value)
    BY Arrived DEF OnFetchQuizSubmissions
  <1>2. /\ QuizTypeOK /\ Pairs /\ submissions' = r.response /\ requests' = Done(i)
        /\ UNCHANGED <<started, saved, pendingBegin, pendingSubmit, quizQuestions,
                       quizAnswers, inputs, toggled>>
    BY DEF QuizInv, OnFetchQuizSubmissions, db, answers
  <1>3. /\ requests' \in [Slots -> Request \cup {Free}] /\ InFlight' = InFlight \ {i} /\ Pairs'
        /\ InFlight = {i}
    BY <1>1, <1>2, DoneAlone, AloneInFlight
  <1>4. InFlight' = {} /\ \A j \in InFlight : r.kind = requests[j].kind
    BY <1>3
  <1>5. submissions' \in WebData(SUBSET Quizzes)
        /\ (submissions'.is = "Success" => submissions'.value \subseteq started)
    <2>1. r.response \in ResponsesOf("submissions")
          /\ (r.response.is = "Success" => r.response.value \subseteq started)
      BY <1>1 DEF Pending
    <2>2. r.response.is = "Success" => r.response.value \in SUBSET Quizzes
      BY <2>1 DEF ResponsesOf
    <2> QED
      BY <1>1, <1>2, <2>1, <2>2, RemoteData DEF WebData
  <1>6. QuizTypeOK'
    BY <1>2, <1>3, <1>5 DEF QuizTypeOK
  <1>7. Settled(q)'
    BY <1>1, <1>2, <1>4, <1>5 DEF QuizInv, Settled, Agree
  <1> QED
    BY <1>3, <1>4, <1>6, <1>7 DEF QuizInv

LEMMA BegunKeeps ==
    ASSUME NEW q, OneQuiz(q), QuizInv(q), NEW i \in Slots, OnBeginQuizComplete(i)
    PROVE  QuizInv(q)'
  <1> DEFINE r == requests[i]
  <1>1. /\ i \in InFlight /\ r \in Request /\ r.kind \in {"begin", "begun"} /\ Pending(r)
        /\ r.quiz = q
        /\ \/ r.response = Failure
           \/ r.response.is = "Success" /\ r.response = Success(r.response.value)
    BY Arrived DEF OnBeginQuizComplete
  <1>2. /\ QuizTypeOK /\ Pairs /\ UNCHANGED <<started, saved>> /\ q \in Quizzes
        /\ Done(i) \in [Slots -> Request \cup {Free}] /\ TakeQuiz(q, Done(i))
        /\ \A k \in Slots : Done(i)[k] = Free
    BY <1>1, DoneAlone DEF QuizInv, OnBeginQuizComplete, db, OneQuiz
  <1>3. CASE r.response.is = "Success"
    <2>1. /\ pendingBegin' = [pendingBegin EXCEPT ![q] = NotAsked]
          /\ submissions' = Success(r.response.value)
          /\ submissions'.is = "Success" /\ submissions'.value = r.response.value
      BY <1>1, <1>3, RemoteData DEF OnBeginQuizComplete
    <2>2. r.response.value = started /\ q \in started
      <3>1. r.kind = "begun"
        BY <1>1, <1>3 DEF Pending, ResponsesOf
      <3> QED
        BY <1>1, <1>3, <3>1 DEF Pending
    <2>3. submissions' \in WebData(SUBSET Quizzes)
      BY <1>2, <2>1, <2>2 DEF QuizTypeOK, WebData
    <2>4. Shown(q, submissions)'
      BY <2>1, <2>2 DEF Shown
    <2>5. pendingBegin' \in [Quizzes -> {NotAsked, Loading, Failure}]
      BY <1>2, <2>1 DEF QuizTypeOK
    <2> QED
      BY <1>2, <2>1, <2>2, <2>3, <2>4, <2>5, TakeQuizKeeps
  <1>4. CASE r.response = Failure
    <2>1. pendingBegin' = [pendingBegin EXCEPT ![q] = Failure] /\ UNCHANGED submissions
      BY <1>1, <1>4, RemoteData DEF OnBeginQuizComplete
    <2>2. /\ submissions' \in WebData(SUBSET Quizzes)
          /\ submissions'.is = "Success" => submissions'.value \subseteq started
          /\ pendingBegin' \in [Quizzes -> {NotAsked, Loading, Failure}]
          /\ pendingBegin'[q] = Failure
      BY <1>2, <2>1 DEF QuizInv, Settled, QuizTypeOK
    <2> QED
      BY <1>2, <2>2, RemoteData, TakeQuizKeeps
  <1> QED
    BY <1>1, <1>3, <1>4

LEMMA QuestionsKeep ==
    ASSUME NEW q, OneQuiz(q), QuizInv(q), NEW i \in Slots, OnFetchQuizQuestions(i)
    PROVE  QuizInv(q)'
  <1> DEFINE r == requests[i]
  <1>1. /\ i \in InFlight /\ r \in Request /\ r.kind = "questions" /\ Pending(r) /\ r.quiz = q
        /\ \/ r.response = Failure
           \/ r.response.is = "Success" /\ r.response = Success(r.response.value)
    BY Arrived DEF OnFetchQuizQuestions
  <1>2. /\ QuizTypeOK /\ Pairs /\ requests' = Done(i)
        /\ quizQuestions' = [quizQuestions EXCEPT ![q] = r.response]
        /\ UNCHANGED <<started, saved, submissions, pendingBegin, pendingSubmit,
                       quizAnswers, inputs, toggled>>
    BY <1>1 DEF QuizInv, OnFetchQuizQuestions, db, begins
  <1>3. /\ requests' \in [Slots -> Request \cup {Free}] /\ InFlight' = InFlight \ {i} /\ Pairs'
        /\ \A j \in InFlight' : requests'[j] = requests[j]
    BY <1>1, <1>2, DoneAlone
  <1>4. r.response \in {Failure, Success({})}
    BY <1>1 DEF Pending, ResponsesOf
  <1>5. QuizTypeOK'
    BY <1>2, <1>3, <1>4 DEF QuizTypeOK
  <1>6. ASSUME NEW j \in InFlight' PROVE Pending(requests[j])'
    <2>1. requests[j].kind = "answers" /\ Pending(requests[j])
      BY <1>1, <1>3, <1>6 DEF QuizInv, Pairs
    <2> QED
      BY <1>2, <1>3, <1>6, <2>1 DEF Pending
  <1>7. Settled(q)'
    <2>1. ~ (submissions.is = "Success" /\ ~ Shown(q, submissions) /\ pendingBegin[q] = NotAsked)
      BY <1>1 DEF QuizInv, Settled
    <2>2. \A j \in InFlight : requests[j].kind # "save"
      BY <1>1 DEF QuizInv, Pairs
    <2> QED
      BY <1>2, <2>1, <2>2 DEF QuizInv, Settled, Agree, Shown
  <1> QED
    BY <1>3, <1>5, <1>6, <1>7 DEF QuizInv

LEMMA AnswersKeep ==
    ASSUME NEW q, OneQuiz(q), QuizInv(q), NEW i \in Slots, OnFetchQuizAnswers(i)
    PROVE  QuizInv(q)'
  <1> DEFINE r == requests[i]
  <1>1. /\ i \in InFlight /\ r \in Request /\ r.kind = "answers" /\ Pending(r) /\ r.quiz = q
        /\ \/ r.response = Failure
           \/ r.response.is = "Success" /\ r.response = Success(r.response.value)
    BY Arrived DEF OnFetchQuizAnswers
  <1>2. /\ QuizTypeOK /\ Pairs /\ requests' = Done(i) /\ q \in Quizzes
        /\ quizAnswers' = [quizAnswers EXCEPT ![q] = r.response]
        /\ IF r.response.is = "Success"
           THEN inputs' = r.response.value /\ toggled' = toggled \ Options
           ELSE UNCHANGED <<inputs, toggled>>
        /\ UNCHANGED <<started, saved, submissions, pendingBegin, pendingSubmit, quizQuestions>>
    BY <1>1, AllOptions DEF QuizInv, OnFetchQuizAnswers, db, begins, OneQuiz
  <1>3. /\ requests' \in [Slots -> Request \cup {Free}] /\ InFlight' = InFlight \ {i} /\ Pairs'
        /\ \A j \in InFlight' : requests'[j] = requests[j]
    BY <1>1, <1>2, DoneAlone
  <1>4. r.response.is = "Success" => r.response.value = saved /\ saved \subseteq Options
    BY <1>1, <1>2 DEF Pending, QuizTypeOK
  <1>5. QuizTypeOK'
    <2>1. r.response \in WebData(SUBSET Options)
      BY <1>1, <1>4 DEF WebData
    <2>2. inputs' \subseteq Options /\ toggled' \subseteq Options
      BY <1>2, <1>4 DEF QuizTypeOK
    <2> QED
      BY <1>2, <1>3, <2>1, <2>2 DEF QuizTypeOK
  <1>6. ASSUME NEW j \in InFlight' PROVE Pending(requests[j])'
    <2>1. requests[j].kind = "questions" /\ Pending(requests[j])
      BY <1>1, <1>3, <1>6 DEF QuizInv, Pairs
    <2> QED
      BY <1>2, <1>3, <1>6, <2>1 DEF Pending
  <1>7. Settled(q)'
    <2>1. ~ (submissions.is = "Success" /\ ~ Shown(q, submissions) /\ pendingBegin[q] = NotAsked)
      BY <1>1 DEF QuizInv, Settled
    <2>2. quizAnswers'[q] = r.response
      BY <1>2 DEF QuizTypeOK
    <2> QED
      BY <1>2, <1>4, <2>1, <2>2 DEF QuizInv, Settled, Agree, Shown
  <1> QED
    BY <1>3, <1>5, <1>6, <1>7 DEF QuizInv

LEMMA SavedKeeps ==
    ASSUME NEW q, OneQuiz(q), QuizInv(q), NEW i \in Slots, OnSubmitQuizAnswersComplete(i)
    PROVE  QuizInv(q)'
  <1> DEFINE r == requests[i]
  <1>1. /\ i \in InFlight /\ r \in Request /\ r.kind = "save" /\ Pending(r) /\ r.quiz = q
        /\ \/ r.response = Failure
           \/ r.response.is = "Success" /\ r.response = Success(r.response.value)
    BY Arrived DEF OnSubmitQuizAnswersComplete
  <1>2. /\ QuizTypeOK /\ Pairs /\ requests' = Done(i) /\ q \in Quizzes
        /\ pendingSubmit' = [pendingSubmit EXCEPT ![q] =
                                IF r.response.is = "Success" THEN NotAsked ELSE r.response]
        /\ quizAnswers' = [quizAnswers EXCEPT ![q] = r.response]
        /\ UNCHANGED <<started, saved, submissions, pendingBegin, quizQuestions, inputs, toggled>>
    BY <1>1 DEF QuizInv, OnSubmitQuizAnswersComplete, db, begins, OneQuiz
  <1>3. /\ requests' \in [Slots -> Request \cup {Free}] /\ InFlight' = {} /\ Pairs'
    BY <1>1, <1>2, DoneAlone, AloneInFlight
  <1>4. r.response.is = "Success" => r.response.value = r.body /\ r.body = saved /\ saved \subseteq Options
    BY <1>1, <1>2 DEF Pending, QuizTypeOK
  <1>5. QuizTypeOK'
    <2>1. r.response \in WebData(SUBSET Options)
      BY <1>1, <1>4 DEF WebData
    <2>2. (IF r.response.is = "Success" THEN NotAsked ELSE r.response) \in {NotAsked, Failure}
      BY <1>1
    <2> QED
      BY <1>2, <1>3, <2>1, <2>2 DEF QuizTypeOK
  <1>6. Settled(q)'
    <2>1. quizAnswers'[q] = r.response /\ Agree(r.body)
      BY <1>1, <1>2 DEF QuizTypeOK, Pending
    <2> QED
      BY <1>2, <1>3, <1>4, <2>1 DEF QuizInv, Settled, Agree, Shown
  <1> QED
    BY <1>3, <1>5, <1>6 DEF QuizInv

\* The page has just asked for the submissions.
LEMMA InitQuiz ==
    ASSUME NEW q, OneQuiz(q), Init
    PROVE  QuizInv(q)
  <1> DEFINE i == CHOOSE k \in Slots : TRUE
             r == Ask("submissions", q, {})
  <1>1. /\ started \subseteq Quizzes /\ saved \subseteq {o \in Options : QuizOf[QuestionOf[o]] \in started}
        /\ requests = [[j \in Slots |-> Free] EXCEPT ![i] = r]
        /\ submissions = Loading /\ inputs = {} /\ toggled = {}
        /\ pendingBegin = [x \in Quizzes |-> NotAsked] /\ pendingSubmit = [x \in Quizzes |-> NotAsked]
        /\ quizQuestions = [x \in Quizzes |-> NotAsked] /\ quizAnswers = [x \in Quizzes |-> NotAsked]
    <2>1. (CHOOSE x \in Quizzes : TRUE) = q
      BY DEF OneQuiz
    <2> QED
      BY <2>1 DEF Init
  <1>2. r \in Request /\ r.kind = "submissions" /\ r.quiz = q /\ r.response = Loading
        /\ Loading \in ResponsesOf("submissions")
    <2>1. q \in Quizzes /\ {} \in SUBSET Options /\ "submissions" \in Kinds
      BY DEF OneQuiz, Kinds
    <2> QED
      BY <2>1, AskType
  <1> HIDE DEF i, r
  <1>3. /\ requests \in [Slots -> Request \cup {Free}]
        /\ \A j \in InFlight : j = i /\ requests[j] = r
    BY <1>1, <1>2 DEF InFlight
  <1>4. QuizTypeOK
    BY <1>1, <1>3 DEF QuizTypeOK, WebData
  <1>5. Pairs
    BY <1>3 DEF Pairs
  <1>6. ASSUME NEW j \in InFlight PROVE Pending(requests[j])
    BY <1>1, <1>2, <1>3, <1>6, RemoteData DEF Pending
  <1>7. Settled(q)
    <2>1. quizAnswers[q] = NotAsked
      BY <1>1 DEF OneQuiz
    <2> QED
      BY <1>1, <2>1, RemoteData DEF Settled
  <1> QED
    BY <1>4, <1>5, <1>6, <1>7 DEF QuizInv

\* Every step keeps the invariant, and takes back only what she has changed.
LEMMA NextQuiz ==
    ASSUME NEW q, OneQuiz(q), QuizInv(q), [Next]_vars
    PROVE  QuizInv(q)' /\ saved \ saved' \subseteq toggled
  <1> DEFINE Goal == QuizInv(q)' /\ saved \ saved' \subseteq toggled
  <1>1. saved' = saved => saved \ saved' = {}
    OBVIOUS
  <1>2. CASE Student
    <2>1. saved' = saved
      BY <1>2 DEF Student, OnBeginQuiz, EditQuiz, OnSubmitQuizAnswers, OnToggleQuizQuestionOption,
                  OnSelectQuizQuestionOption, db
    <2>2. ASSUME NEW p \in Quizzes, OnBeginQuiz(p) \/ EditQuiz(p) \/ OnSubmitQuizAnswers(p)
          PROVE  QuizInv(q)'
      <3>1. p = q
        BY <2>2 DEF OneQuiz
      <3> QED
        BY <2>2, <3>1, BeginKeeps, EditKeeps, SubmitKeeps
    <2>3. ASSUME NEW o \in Options, OnToggleQuizQuestionOption(o) \/ OnSelectQuizQuestionOption(o)
          PROVE  QuizInv(q)'
      BY <2>3, ToggleKeeps
    <2> QED
      BY <1>1, <1>2, <2>1, <2>2, <2>3 DEF Student
  <1>3. ASSUME NEW i \in Slots, Serve(i) PROVE Goal
    <2>1. CASE Read(i)
      BY <1>1, <2>1, ReadKeeps DEF Read, db
    <2>2. CASE Insert(i)
      BY <1>1, <2>2, InsertKeeps DEF Insert
    <2>3. CASE SaveQuiz(i)
      BY <2>3, SaveKeeps
    <2> QED
      BY <1>3, <2>1, <2>2, <2>3 DEF Serve
  <1>4. ASSUME NEW i \in Slots, Fails(i) PROVE Goal
    BY <1>1, <1>4, FailsKeeps DEF Fails, db
  <1>5. ASSUME NEW i \in Slots, Receive(i) PROVE Goal
    <2>1. saved' = saved
      BY <1>5 DEF Receive, OnFetchQuizSubmissions, OnBeginQuizComplete, OnFetchQuizQuestions,
                  OnFetchQuizAnswers, OnSubmitQuizAnswersComplete, db
    <2> QED
      BY <1>1, <1>5, <2>1, SubmissionsKeep, BegunKeeps, QuestionsKeep, AnswersKeep, SavedKeeps
      DEF Receive
  <1>6. CASE UNCHANGED vars
    <2>1. UNCHANGED <<started, saved, requests, submissions, pendingBegin, pendingSubmit,
                      quizQuestions, quizAnswers, inputs, toggled>>
      BY <1>6 DEF vars, db, begins, answers
    <2>2. QuizTypeOK' /\ Pairs' /\ Settled(q)' /\ InFlight' = InFlight
      BY <2>1 DEF QuizInv, QuizTypeOK, Pairs, InFlight, Settled, Shown, Agree
    <2>3. \A i \in InFlight : Pending(requests[i])'
      BY <2>1 DEF QuizInv, Pending, Shown, Agree
    <2> QED
      BY <1>1, <2>1, <2>2, <2>3 DEF QuizInv
  <1> QED
    BY <1>2, <1>3, <1>4, <1>5, <1>6 DEF Next

LEMMA QuizInvariant ==
    ASSUME NEW q, OneQuiz(q)
    PROVE  Spec => [](QuizInv(q)) /\ [][saved \ saved' \subseteq toggled]_vars
  <1>1. Init => QuizInv(q)
    BY InitQuiz
  <1>2. QuizInv(q) /\ [Next]_vars => QuizInv(q)'
    BY NextQuiz
  <1>3. QuizInv(q) /\ [Next]_vars => [saved \ saved' \subseteq toggled]_vars
    BY NextQuiz
  <1> QED
    BY <1>1, <1>2, <1>3, PTL DEF Spec

\* There is one quiz, which the student opens when nothing of it is in flight.
OneQuizPage == \E q : OneQuiz(q)

\* An option she has not changed since the form was fetched is checked if and
\* only if it is marked as saved.
THEOREM SavedIsChecked == OneQuizPage => (Spec => []SavedChecked)
  <1> SUFFICES ASSUME NEW q, OneQuiz(q) PROVE Spec => []SavedChecked
    BY DEF OneQuizPage
  <1>1. QuizInv(q) => SavedChecked
    <2> SUFFICES ASSUME QuizInv(q), NEW p \in Quizzes, FormShown(p), NEW o \in OptionsOf(p) \ toggled
                 PROVE  (o \in inputs) = (o \in quizAnswers[p].value)
      BY DEF SavedChecked
    <2>1. p = q /\ o \in Options
      BY DEF OneQuiz, OptionsOf
    <2> QED
      BY <2>1 DEF QuizInv, Settled, FormShown, Agree
  <1> QED
    BY <1>1, QuizInvariant, PTL

\* Saving takes back only answers that she has changed in the form.
THEOREM UntouchedKept == OneQuizPage => (Spec => KeepsUntouched)
  <1> SUFFICES ASSUME NEW q, OneQuiz(q) PROVE Spec => KeepsUntouched
    BY DEF OneQuizPage
  <1> QED
    BY QuizInvariant, PTL DEF KeepsUntouched
-----------------------------------------------------------------------------
(* The assignments in a tab, however many there are and whatever she does.    *)
(* What they share with the quizzes is the number of requests and how patient *)
(* the student is.                                                            *)

LEMMA ListType ==
    ASSUME NEW L
    PROVE  L \in Work!Lists <=> DOMAIN L \subseteq Assignments /\ L \in [DOMAIN L -> Texts \cup {Empty}]
  BY DEF Work!Lists

\* A list with one more assignment begun.
LEMMA BegunType ==
    ASSUME NEW L \in Work!Lists, NEW a \in Assignments
    PROVE  [w \in DOMAIN L \cup {a} |-> IF w = a THEN Empty ELSE L[w]] \in Work!Lists
  <1> DEFINE M == [w \in DOMAIN L \cup {a} |-> IF w = a THEN Empty ELSE L[w]]
  <1>1. DOMAIN L \subseteq Assignments /\ L \in [DOMAIN L -> Texts \cup {Empty}]
    BY ListType
  <1>2. DOMAIN M \subseteq Assignments /\ M \in [DOMAIN M -> Texts \cup {Empty}]
    BY <1>1
  <1> QED
    BY <1>2 DEF Work!Lists

\* A list with one field written.
LEMMA WrittenType ==
    ASSUME NEW L \in Work!Lists, NEW a, NEW text \in Texts \cup {Empty}
    PROVE  [L EXCEPT ![a] = text] \in Work!Lists
  <1>1. DOMAIN L \subseteq Assignments /\ L \in [DOMAIN L -> Texts \cup {Empty}]
    BY ListType
  <1>2. [L EXCEPT ![a] = text] \in [DOMAIN L -> Texts \cup {Empty}]
    BY <1>1
  <1> QED
    BY <1>1, <1>2 DEF Work!Lists

LEMMA NothingType == Work!Nothing \in Work!Lists /\ DOMAIN Work!Nothing = {}
  <1>1. DOMAIN Work!Nothing = {} /\ Work!Nothing \in [DOMAIN Work!Nothing -> Texts \cup {Empty}]
    BY DEF Work!Nothing
  <1> QED
    BY <1>1, ListType

LEMMA FreeIsNoWork == Work!Free \notin Work!Request
  BY DEF Work!Free, Work!Request

\* A request that is sent is one, and waits for its answer.
LEMMA WorkCall ==
    ASSUME NEW kind \in {"begin", "save", "fetch"}, NEW a \in Assignments, NEW body \in Texts \cup {Empty}
    PROVE  /\ Work!Call(kind, a, body) \in Work!Request
           /\ Work!Call(kind, a, body).kind = kind /\ Work!Call(kind, a, body).assignment = a
           /\ Work!Call(kind, a, body).response = "waiting"
  BY NothingType DEF Work!Call, Work!Request

\* A change of one place in the requests.
LEMMA WorkOne ==
    ASSUME Work!TypeOK, NEW i \in Slots, NEW r \in Work!Request \cup {Work!Free},
           aRequests' = [aRequests EXCEPT ![i] = r]
    PROVE  /\ aRequests' \in [Slots -> Work!Request \cup {Work!Free}] /\ aRequests'[i] = r
           /\ \A j \in Slots \ {i} : aRequests'[j] = aRequests[j]
           /\ r = Work!Free => Work!InFlight' = Work!InFlight \ {i}
           /\ r # Work!Free => Work!InFlight' = Work!InFlight \cup {i}
  BY DEF Work!TypeOK, Work!InFlight

\* An answer changes nothing else of the request.
LEMMA WorkReplied ==
    ASSUME Work!TypeOK, NEW i \in Slots, aRequests[i] # Work!Free,
           NEW x \in {"success", "failure"}, Work!Answer(i, x)
    PROVE  /\ aRequests' \in [Slots -> Work!Request \cup {Work!Free}]
           /\ Work!InFlight' = Work!InFlight
           /\ aRequests'[i].response = x /\ aRequests'[i].kind = aRequests[i].kind
           /\ aRequests'[i].assignment = aRequests[i].assignment
           /\ aRequests'[i].list = aRequests[i].list
  <1> DEFINE r == [aRequests[i] EXCEPT !.response = x]
  <1>1. aRequests[i] \in Work!Request /\ i \in Work!InFlight
    BY DEF Work!TypeOK, Work!InFlight
  <1>2. /\ r \in Work!Request /\ r.response = x /\ r.kind = aRequests[i].kind
        /\ r.assignment = aRequests[i].assignment /\ r.list = aRequests[i].list
    BY <1>1 DEF Work!Request
  <1>3. aRequests' = [aRequests EXCEPT ![i] = r]
    BY DEF Work!Answer
  <1> HIDE DEF r
  <1>4. r # Work!Free
    BY <1>2, FreeIsNoWork
  <1>5. /\ aRequests' \in [Slots -> Work!Request \cup {Work!Free}] /\ aRequests'[i] = r
        /\ Work!InFlight' = Work!InFlight \cup {i}
    BY <1>2, <1>3, <1>4, WorkOne
  <1>6. Work!InFlight' = Work!InFlight
    BY <1>1, <1>5
  <1> QED
    BY <1>2, <1>5, <1>6

\* The page has just asked for the submissions.
LEMMA InitWorkTypes ==
    ASSUME Work!Init
    PROVE  /\ Work!TypeOK
           /\ \E i : \A j \in Work!InFlight :
                 j = i /\ aRequests[j].kind = "fetch" /\ aRequests[j].response = "waiting"
  <1> DEFINE i == CHOOSE k \in Slots : TRUE
             any == CHOOSE a \in Assignments : TRUE
             r == Work!Call("fetch", any, Empty)
  <1>1. any \in Assignments
    BY PagesAssumption DEF Work!AssignmentPageAssumption
  <1>2. r \in Work!Request /\ r.kind = "fetch" /\ r.response = "waiting"
    BY <1>1, WorkCall
  <1>3. aRequests = [[j \in Slots |-> Work!Free] EXCEPT ![i] = r]
    BY DEF Work!Init
  <1> HIDE DEF i, r
  <1>4. /\ aRequests \in [Slots -> Work!Request \cup {Work!Free}]
        /\ \A j \in Work!InFlight : j = i /\ aRequests[j] = r
    BY <1>2, <1>3 DEF Work!InFlight
  <1>5. Work!TypeOK
    BY <1>4, NothingType DEF Work!Init, Work!TypeOK, Work!States
  <1> QED
    BY <1>2, <1>4, <1>5

\* What the student does keeps the types, however many requests are in flight.
LEMMA StudentWorkTypes ==
    ASSUME Work!TypeOK, Work!Student
    PROVE  Work!TypeOK'
  <1>1. ASSUME Work!InFlight # Slots PROVE Work!Unused \in Slots
    <2>1. Slots \ Work!InFlight # {}
      BY <1>1 DEF Work!InFlight
    <2> QED
      BY <2>1 DEF Work!Unused
  <1>2. ASSUME NEW a \in Assignments, Work!OnBeginAssignment(a) PROVE Work!TypeOK'
    <2>1. /\ Work!Unused \in Slots
          /\ aRequests' = [aRequests EXCEPT ![Work!Unused] = Work!Call("begin", a, Empty)]
          /\ aPendingBegin' = [aPendingBegin EXCEPT ![a] = "Loading"]
          /\ UNCHANGED <<written, aSubmissions, pendingSave, aInputs>>
      BY <1>1, <1>2 DEF Work!OnBeginAssignment, Work!forms
    <2>2. aRequests' \in [Slots -> Work!Request \cup {Work!Free}]
      BY <2>1, WorkCall DEF Work!TypeOK
    <2> QED
      BY <2>1, <2>2 DEF Work!TypeOK, Work!States
  <1>3. ASSUME NEW a \in Assignments, Work!OnSubmit(a) PROVE Work!TypeOK'
    <2>1. /\ Work!Unused \in Slots
          /\ aRequests' = [aRequests EXCEPT ![Work!Unused] = Work!Call("save", a, aInputs[a])]
          /\ pendingSave' = [pendingSave EXCEPT ![a] = "Loading"]
          /\ UNCHANGED <<written, aSubmissions, aPendingBegin, aInputs>>
      BY <1>1, <1>3 DEF Work!OnSubmit
    <2>2. aRequests' \in [Slots -> Work!Request \cup {Work!Free}]
      BY <2>1, WorkCall DEF Work!TypeOK
    <2> QED
      BY <2>1, <2>2 DEF Work!TypeOK
  <1>4. ASSUME NEW a \in Assignments, NEW text \in Texts, Work!OnUpdateInput(a, text)
        PROVE  Work!TypeOK'
    BY <1>4 DEF Work!OnUpdateInput, Work!TypeOK
  <1> QED
    BY <1>2, <1>3, <1>4 DEF Work!Student

\* So does what happens to a request.
LEMMA RequestWorkTypes ==
    ASSUME Work!TypeOK, NEW i \in Slots, Work!Serve(i) \/ Work!Fails(i)
    PROVE  Work!TypeOK'
  <1> DEFINE it == aRequests[i].assignment
  <1>1. /\ aRequests[i] \in Work!Request /\ aRequests[i] # Work!Free
        /\ UNCHANGED <<aSubmissions, aPendingBegin, pendingSave, aInputs>>
    BY DEF Work!Serve, Work!Fails, Work!Begin, Work!Save, Work!Read, Work!Waiting, Work!TypeOK, Work!forms
  <1>2. it \in Assignments /\ aRequests[i].body \in Texts \cup {Empty} /\ written \in Work!Lists
    BY <1>1 DEF Work!Request, Work!TypeOK
  <1>3. written' \in Work!Lists
    BY <1>2, BegunType, WrittenType DEF Work!Serve, Work!Fails, Work!Begin, Work!Save, Work!Read
  <1>4. aRequests' \in [Slots -> Work!Request \cup {Work!Free}]
    <2>1. CASE Work!Read(i)
      BY <1>1, <1>2, <2>1 DEF Work!Read, Work!Request, Work!TypeOK
    <2>2. CASE \E x \in {"success", "failure"} : Work!Answer(i, x)
      BY <1>1, <2>2, WorkReplied
    <2> QED
      BY <2>1, <2>2 DEF Work!Serve, Work!Fails, Work!Begin, Work!Save
  <1> QED
    BY <1>1, <1>3, <1>4 DEF Work!TypeOK

\* And what the page makes of the answers.
LEMMA ReceiveWorkTypes ==
    ASSUME Work!TypeOK, NEW i \in Slots, Work!Receive(i)
    PROVE  Work!TypeOK'
  <1> DEFINE it == aRequests[i].assignment
             r == Work!Call("fetch", it, Empty)
             Typed == [Slots -> Work!Request \cup {Work!Free}]
  <1>1. aRequests[i] \in Work!Request /\ aRequests[i] # Work!Free /\ UNCHANGED written
    BY DEF Work!Receive, Work!OnBeginAssignmentComplete, Work!OnSubmitResponse,
       Work!OnFetchAssignmentSubmissions, Work!Arrives, Work!TypeOK
  <1>2. it \in Assignments /\ aRequests[i].list \in Work!Lists
    BY <1>1 DEF Work!Request
  <1>3. Work!Done(i) \in Typed
    BY DEF Work!Done, Work!TypeOK
  <1>4. CASE Work!OnBeginAssignmentComplete(i)
    <2> DEFINE L == [w \in DOMAIN aSubmissions.list \cup {it} |->
                        IF w = it THEN Empty ELSE aSubmissions.list[w]]
    <2>1. L \in Work!Lists
      BY <1>2, BegunType DEF Work!TypeOK
    <2>2. /\ UNCHANGED <<pendingSave, aInputs>> /\ aRequests' = Work!Done(i)
          /\ aPendingBegin' \in [Assignments -> Work!States]
      BY <1>4 DEF Work!OnBeginAssignmentComplete, Work!forms, Work!TypeOK, Work!States
    <2>3. aSubmissions' = aSubmissions \/ aSubmissions' = [aSubmissions EXCEPT !.list = L]
      BY <1>4 DEF Work!OnBeginAssignmentComplete
    <2> HIDE DEF L
    <2>4. aSubmissions' \in [is : {"Loading", "Failure", "Success"}, list : Work!Lists]
      BY <2>1, <2>3 DEF Work!TypeOK
    <2> QED
      BY <1>1, <1>3, <2>2, <2>4 DEF Work!TypeOK
  <1>5. CASE Work!OnSubmitResponse(i)
    <2>1. r \in Work!Request
      BY <1>2, WorkCall
    <2>2. aRequests' \in Typed
      BY <1>3, <1>5, <2>1 DEF Work!OnSubmitResponse, Work!TypeOK
    <2>3. /\ pendingSave' \in [Assignments -> {"NotAsked", "Loading"}]
          /\ aInputs' \in [Assignments -> Texts \cup {Empty}]
          /\ UNCHANGED <<aSubmissions, aPendingBegin>>
      BY <1>5 DEF Work!OnSubmitResponse, Work!TypeOK
    <2> QED
      BY <1>1, <2>2, <2>3 DEF Work!TypeOK
  <1>6. CASE Work!OnFetchAssignmentSubmissions(i)
    <2>1. /\ aSubmissions' \in [is : {"Loading", "Failure", "Success"}, list : Work!Lists]
          /\ aRequests' = Work!Done(i) /\ UNCHANGED <<aPendingBegin, pendingSave, aInputs>>
      BY <1>2, <1>6, NothingType DEF Work!OnFetchAssignmentSubmissions, Work!forms
    <2> QED
      BY <1>1, <1>3, <2>1 DEF Work!TypeOK
  <1> QED
    BY <1>4, <1>5, <1>6 DEF Work!Receive

\* The tables, the requests in flight and the page's model keep their types,
\* whether or not she waits for the answers.
THEOREM WorkTypeCorrect == Work!Spec => []Work!TypeOK
  <1>1. Work!Init => Work!TypeOK
    BY InitWorkTypes
  <1>2. Work!TypeOK /\ [Work!Next]_(Work!vars) => Work!TypeOK'
    <2> SUFFICES ASSUME Work!TypeOK, [Work!Next]_(Work!vars) PROVE Work!TypeOK'
      OBVIOUS
    <2>1. CASE UNCHANGED Work!vars
      BY <2>1 DEF Work!vars, Work!forms, Work!TypeOK
    <2> QED
      BY <2>1, StudentWorkTypes, RequestWorkTypes, ReceiveWorkTypes DEF Work!Next
  <1> QED
    BY <1>1, <1>2, PTL DEF Work!Spec

\* A submission that the page knows is in the table.
Known == aSubmissions.is = "Success" => DOMAIN aSubmissions.list \subseteq DOMAIN written

\* What an answer on its way tells of is in the table: it may be overtaken, but
\* no submission is taken back.
Confirmed(r) ==
    /\ r.kind = "begin" /\ r.response = "success" => r.assignment \in DOMAIN written
    /\ r.kind = "fetch" /\ r.response = "success" => DOMAIN r.list \subseteq DOMAIN written

KnownInv == Known /\ \A i \in Work!InFlight : Confirmed(aRequests[i])

\* A request that is sent tells of nothing yet.
LEMMA StudentWorkKnown ==
    ASSUME Work!TypeOK, KnownInv, Work!Student
    PROVE  KnownInv'
  <1>1. UNCHANGED <<written, aSubmissions>>
    BY DEF Work!Student, Work!OnBeginAssignment, Work!OnSubmit, Work!OnUpdateInput, Work!forms
  <1>2. \A i \in Work!InFlight' :
           \/ i \in Work!InFlight /\ aRequests'[i] = aRequests[i]
           \/ aRequests'[i].response = "waiting"
    BY DEF Work!Student, Work!OnBeginAssignment, Work!OnSubmit, Work!OnUpdateInput, Work!InFlight,
           Work!Call, Work!TypeOK
  <1> QED
    BY <1>1, <1>2 DEF KnownInv, Known, Confirmed

\* What the database answers is so when it answers, and stays so.
LEMMA RequestWorkKnown ==
    ASSUME Work!TypeOK, KnownInv, NEW i \in Slots, Work!Serve(i) \/ Work!Fails(i)
    PROVE  KnownInv'
  <1>1. /\ aRequests[i] \in Work!Request /\ aRequests[i] # Work!Free /\ i \in Work!InFlight
        /\ UNCHANGED aSubmissions /\ DOMAIN written \subseteq DOMAIN written'
    BY DEF Work!Serve, Work!Fails, Work!Begin, Work!Save, Work!Read, Work!Waiting, Work!TypeOK,
           Work!forms, Work!InFlight
  <1>2. /\ \A j \in Slots \ {i} : aRequests'[j] = aRequests[j]
        /\ aRequests' \in [Slots -> Work!Request \cup {Work!Free}]
        /\ Confirmed(aRequests[i])'
    <2>1. CASE Work!Begin(i)
      <3>1. PICK x \in {"success", "failure"} :
               Work!Answer(i, x) /\ (x = "success" => aRequests[i].assignment \in DOMAIN written')
        BY <2>1 DEF Work!Begin
      <3>2. /\ aRequests'[i].response = x /\ aRequests'[i].kind = "begin"
            /\ aRequests'[i].assignment = aRequests[i].assignment
            /\ aRequests' \in [Slots -> Work!Request \cup {Work!Free}]
        BY <1>1, <2>1, <3>1, WorkReplied DEF Work!Begin, Work!Waiting
      <3> QED
        BY <3>1, <3>2 DEF Confirmed, Work!Answer, Work!TypeOK
    <2>2. CASE Work!Save(i)
      <3>1. Work!Answer(i, "success")
        BY <2>2 DEF Work!Save
      <3>2. /\ aRequests'[i].kind = "save"
            /\ aRequests' \in [Slots -> Work!Request \cup {Work!Free}]
        BY <1>1, <2>2, <3>1, WorkReplied DEF Work!Save, Work!Waiting
      <3> QED
        BY <3>1, <3>2 DEF Confirmed, Work!Answer, Work!TypeOK
    <2>3. CASE Work!Read(i)
      <3> DEFINE r == [aRequests[i] EXCEPT !.response = "success", !.list = written]
      <3>1. aRequests' = [aRequests EXCEPT ![i] = r] /\ written' = written
        BY <2>3 DEF Work!Read
      <3>2. r \in Work!Request /\ r.kind = "fetch" /\ r.list = written
        BY <1>1, <2>3 DEF Work!Request, Work!TypeOK, Work!Read, Work!Waiting
      <3> HIDE DEF r
      <3>3. aRequests'[i] = r
        BY <3>1 DEF Work!TypeOK
      <3> QED
        BY <3>1, <3>2, <3>3 DEF Confirmed, Work!TypeOK
    <2>4. CASE Work!Fails(i)
      <3>1. Work!Answer(i, "failure")
        BY <2>4 DEF Work!Fails
      <3>2. /\ aRequests'[i].response = "failure"
            /\ aRequests' \in [Slots -> Work!Request \cup {Work!Free}]
        BY <1>1, <3>1, WorkReplied
      <3> QED
        BY <3>1, <3>2 DEF Confirmed, Work!Answer, Work!TypeOK
    <2> QED
      BY <2>1, <2>2, <2>3, <2>4 DEF Work!Serve
  <1>3. \A j \in Work!InFlight' \ {i} : j \in Work!InFlight /\ aRequests'[j] = aRequests[j]
    BY <1>2 DEF Work!InFlight
  <1> QED
    BY <1>1, <1>2, <1>3 DEF KnownInv, Known, Confirmed

\* And the page takes no more from an answer than it tells.
LEMMA ReceiveWorkKnown ==
    ASSUME Work!TypeOK, KnownInv, NEW i \in Slots, Work!Receive(i)
    PROVE  KnownInv'
  <1> DEFINE it == aRequests[i].assignment
  <1>1. aRequests[i] # Work!Free /\ i \in Work!InFlight /\ UNCHANGED written
    BY DEF Work!Receive, Work!OnBeginAssignmentComplete, Work!OnSubmitResponse,
       Work!OnFetchAssignmentSubmissions, Work!Arrives, Work!InFlight
  <1>2. /\ Confirmed(aRequests[i])
        /\ aSubmissions.is = "Success" => DOMAIN aSubmissions.list \subseteq DOMAIN written
    BY <1>1 DEF KnownInv, Known
  <1>3. \A j \in Work!InFlight' :
           \/ j \in Work!InFlight /\ aRequests'[j] = aRequests[j]
           \/ aRequests'[j].response = "waiting"
    BY DEF Work!Receive, Work!OnBeginAssignmentComplete, Work!OnSubmitResponse, Work!Call,
           Work!OnFetchAssignmentSubmissions, Work!Done, Work!InFlight, Work!TypeOK
  <1>4. \A j \in Work!InFlight' : Confirmed(aRequests[j])'
    BY <1>1, <1>3 DEF KnownInv, Confirmed
  <1>5. Known'
    <2>1. CASE Work!OnBeginAssignmentComplete(i)
      <3> DEFINE L == [w \in DOMAIN aSubmissions.list \cup {it} |->
                          IF w = it THEN Empty ELSE aSubmissions.list[w]]
      <3>1. \/ aSubmissions' = aSubmissions
            \/ /\ aSubmissions.is = "Success" /\ it \in DOMAIN written
               /\ aSubmissions' = [aSubmissions EXCEPT !.list = L]
        BY <1>2, <2>1 DEF Work!OnBeginAssignmentComplete, Work!Arrives, Confirmed
      <3>2. DOMAIN L = DOMAIN aSubmissions.list \cup {it}
        OBVIOUS
      <3> HIDE DEF L
      <3>3. aSubmissions' = [aSubmissions EXCEPT !.list = L] => aSubmissions'.list = L
        BY DEF Work!TypeOK
      <3> QED
        BY <1>1, <1>2, <3>1, <3>2, <3>3 DEF Known
    <2>2. CASE Work!OnSubmitResponse(i)
      BY <1>1, <1>2, <2>2 DEF Work!OnSubmitResponse, Known
    <2>3. CASE Work!OnFetchAssignmentSubmissions(i)
      BY <1>1, <1>2, <2>3 DEF Work!OnFetchAssignmentSubmissions, Work!Arrives, Known, Confirmed
    <2> QED
      BY <2>1, <2>2, <2>3 DEF Work!Receive
  <1> QED
    BY <1>4, <1>5 DEF KnownInv

\* An assignment that the page lists as begun is in the table, however many begins
\* and fetches overtake each other: what it lets her write to is there.
THEOREM ListedIsBegun == Work!Spec => []Known
  <1>1. Work!Init => KnownInv
    <2> SUFFICES ASSUME Work!Init PROVE KnownInv
      OBVIOUS
    <2>1. Known
      BY DEF Work!Init, Known
    <2>2. \A j \in Work!InFlight : aRequests[j].response = "waiting"
      BY InitWorkTypes
    <2> QED
      BY <2>1, <2>2 DEF KnownInv, Confirmed
  <1>2. Work!TypeOK /\ KnownInv /\ [Work!Next]_(Work!vars) => KnownInv'
    <2> SUFFICES ASSUME Work!TypeOK, KnownInv, [Work!Next]_(Work!vars) PROVE KnownInv'
      OBVIOUS
    <2>1. CASE UNCHANGED Work!vars
      BY <2>1 DEF Work!vars, Work!forms, KnownInv, Known, Confirmed, Work!InFlight
    <2> QED
      BY <2>1, StudentWorkKnown, RequestWorkKnown, ReceiveWorkKnown DEF Work!Next
  <1>3. KnownInv => Known
    BY DEF KnownInv
  <1> QED
    BY <1>1, <1>2, <1>3, WorkTypeCorrect, PTL DEF Work!Spec
-----------------------------------------------------------------------------
(* The assignments of a student who waits for an answer before she sends the  *)
(* next request.                                                              *)

\* What was answered still holds of the table.
InForce(r) ==
    /\ r.kind = "begin" /\ r.response = "success" =>
          r.assignment \in DOMAIN written
    /\ r.kind = "fetch" /\ r.response = "success" => r.list = written

WorkInv ==
    /\ Work!TypeOK
    /\ \A i, j \in Work!InFlight : i = j
    /\ \A i \in Work!InFlight : InForce(aRequests[i])

\* A change of the one place that may be in use.
LEMMA WorkPlace ==
    ASSUME Work!TypeOK, NEW i \in Slots, Work!InFlight \subseteq {i},
           NEW r \in Work!Request \cup {Work!Free},
           aRequests' = [aRequests EXCEPT ![i] = r]
    PROVE  /\ aRequests' \in [Slots -> Work!Request \cup {Work!Free}] /\ aRequests'[i] = r
           /\ r = Work!Free => Work!InFlight' = {}
           /\ r # Work!Free => Work!InFlight' = {i}
           /\ \A j, k \in Work!InFlight' : j = k
  BY WorkOne

\* A request in flight is alone.
LEMMA WorkAlone ==
    ASSUME WorkInv, NEW i \in Slots, aRequests[i] # Work!Free
    PROVE  /\ Work!InFlight = {i} /\ aRequests[i] \in Work!Request /\ InForce(aRequests[i])
           /\ Work!Done(i) = [aRequests EXCEPT ![i] = Work!Free]
  BY DEF WorkInv, Work!TypeOK, Work!InFlight, Work!Done

\* An answer changes nothing else of the request.
LEMMA WorkAnswer ==
    ASSUME WorkInv, NEW i \in Slots, aRequests[i] # Work!Free,
           NEW x \in {"success", "failure"}, Work!Answer(i, x)
    PROVE  /\ aRequests' \in [Slots -> Work!Request \cup {Work!Free}] /\ Work!InFlight' = {i}
           /\ \A j, k \in Work!InFlight' : j = k
           /\ aRequests'[i].response = x /\ aRequests'[i].kind = aRequests[i].kind
           /\ aRequests'[i].assignment = aRequests[i].assignment
           /\ aRequests'[i].list = aRequests[i].list
  BY WorkReplied, WorkAlone DEF WorkInv

LEMMA WorkBegins ==
    ASSUME Patient, WorkInv, NEW a \in Assignments, Work!OnBeginAssignment(a)
    PROVE  WorkInv'
  <1> DEFINE r == Work!Call("begin", a, Empty)
  <1>1. /\ Work!TypeOK /\ Work!InFlight = {} /\ Work!Unused \in Slots
        /\ aRequests' = [aRequests EXCEPT ![Work!Unused] = r]
        /\ aPendingBegin' = [aPendingBegin EXCEPT ![a] = "Loading"]
        /\ UNCHANGED <<written, aSubmissions, pendingSave, aInputs>>
    <2>1. Work!InFlight = {} /\ Slots \ Work!InFlight # {}
      BY DEF Work!OnBeginAssignment, Work!MayAct, Work!InFlight
    <2> QED
      BY <2>1 DEF Work!OnBeginAssignment, WorkInv, Work!Unused, Work!forms
  <1>2. r \in Work!Request /\ r.kind = "begin" /\ r.response = "waiting"
    BY WorkCall
  <1> HIDE DEF r
  <1>3. /\ aRequests' \in [Slots -> Work!Request \cup {Work!Free}] /\ \A j, k \in Work!InFlight' : j = k
        /\ \A k \in Work!InFlight' : aRequests'[k] = r
    BY <1>1, <1>2, WorkPlace, FreeIsNoWork
  <1>4. Work!TypeOK'
    BY <1>1, <1>3 DEF Work!TypeOK, Work!States
  <1>5. \A k \in Work!InFlight' : InForce(aRequests[k])'
    BY <1>2, <1>3 DEF InForce
  <1> QED
    BY <1>3, <1>4, <1>5 DEF WorkInv

LEMMA WorkSubmits ==
    ASSUME Patient, WorkInv, NEW a \in Assignments, Work!OnSubmit(a)
    PROVE  WorkInv'
  <1> DEFINE r == Work!Call("save", a, aInputs[a])
  <1>1. /\ Work!TypeOK /\ Work!InFlight = {} /\ Work!Unused \in Slots
        /\ aRequests' = [aRequests EXCEPT ![Work!Unused] = r]
        /\ pendingSave' = [pendingSave EXCEPT ![a] = "Loading"]
        /\ UNCHANGED <<written, aSubmissions, aPendingBegin, aInputs>>
    <2>1. Work!InFlight = {} /\ Slots \ Work!InFlight # {}
      BY DEF Work!OnSubmit, Work!MayAct, Work!InFlight
    <2> QED
      BY <2>1 DEF Work!OnSubmit, WorkInv, Work!Unused
  <1>2. r \in Work!Request /\ r.kind = "save" /\ r.assignment = a
    BY <1>1, WorkCall DEF Work!TypeOK
  <1> HIDE DEF r
  <1>3. /\ aRequests' \in [Slots -> Work!Request \cup {Work!Free}] /\ \A j, k \in Work!InFlight' : j = k
        /\ \A k \in Work!InFlight' : aRequests'[k] = r
    BY <1>1, <1>2, WorkPlace, FreeIsNoWork
  <1>4. Work!TypeOK'
    BY <1>1, <1>3 DEF Work!TypeOK
  <1>5. \A k \in Work!InFlight' : InForce(aRequests[k])'
    BY <1>2, <1>3 DEF InForce
  <1> QED
    BY <1>3, <1>4, <1>5 DEF WorkInv

LEMMA WorkTypes ==
    ASSUME WorkInv, NEW a \in Assignments, NEW text \in Texts, Work!OnUpdateInput(a, text)
    PROVE  WorkInv'
  <1>1. /\ Work!TypeOK /\ aInputs' = [aInputs EXCEPT ![a] = text]
        /\ UNCHANGED <<written, aRequests, aSubmissions, aPendingBegin, pendingSave>>
    BY DEF WorkInv, Work!OnUpdateInput
  <1>2. Work!TypeOK'
    BY <1>1 DEF Work!TypeOK
  <1> QED
    BY <1>1, <1>2 DEF WorkInv, Work!InFlight, InForce

LEMMA WorkFails ==
    ASSUME WorkInv, NEW i \in Slots, Work!Fails(i)
    PROVE  WorkInv'
  <1>1. /\ Work!TypeOK /\ aRequests[i] # Work!Free /\ Work!Answer(i, "failure")
        /\ UNCHANGED <<written, aSubmissions, aPendingBegin, pendingSave, aInputs>>
    BY DEF WorkInv, Work!Fails, Work!forms
  <1>2. /\ aRequests' \in [Slots -> Work!Request \cup {Work!Free}] /\ Work!InFlight' = {i}
        /\ \A j, k \in Work!InFlight' : j = k
        /\ aRequests'[i].response = "failure" /\ aRequests'[i].kind = aRequests[i].kind
        /\ aRequests'[i].assignment = aRequests[i].assignment
        /\ Work!InFlight = {i} /\ InForce(aRequests[i])
    BY <1>1, WorkAnswer, WorkAlone
  <1>3. Work!TypeOK'
    BY <1>1, <1>2 DEF Work!TypeOK
  <1>4. InForce(aRequests[i])'
    BY <1>1, <1>2 DEF InForce
  <1> QED
    BY <1>2, <1>3, <1>4 DEF WorkInv

LEMMA WorkIsBegun ==
    ASSUME WorkInv, NEW i \in Slots, Work!Begin(i)
    PROVE  WorkInv'
  <1> DEFINE it == aRequests[i].assignment
  <1>1. /\ Work!TypeOK /\ aRequests[i] # Work!Free /\ aRequests[i].kind = "begin"
        /\ aRequests[i].response = "waiting"
        /\ UNCHANGED <<aSubmissions, aPendingBegin, pendingSave, aInputs>>
    BY DEF WorkInv, Work!Begin, Work!Waiting, Work!forms
  <1>2. Work!InFlight = {i} /\ aRequests[i] \in Work!Request /\ it \in Assignments
    BY <1>1, WorkAlone DEF Work!Request
  <1>3. CASE it \in DOMAIN written
    <2>1. Work!Fails(i)
      BY <1>1, <1>3 DEF Work!Begin, Work!Fails, Work!forms
    <2> QED
      BY <2>1, WorkFails
  <1>4. CASE it \notin DOMAIN written
    <2>1. /\ Work!Answer(i, "success")
          /\ written' = [w \in DOMAIN written \cup {it} |-> IF w = it THEN Empty ELSE written[w]]
      BY <1>4 DEF Work!Begin
    <2>2. /\ aRequests' \in [Slots -> Work!Request \cup {Work!Free}] /\ Work!InFlight' = {i}
          /\ \A j, k \in Work!InFlight' : j = k
          /\ aRequests'[i].kind = "begin" /\ aRequests'[i].assignment = it
      BY <1>1, <2>1, WorkAnswer
    <2>3. Work!TypeOK'
      <3>1. written' \in Work!Lists
        BY <1>1, <1>2, <2>1, BegunType DEF Work!TypeOK
      <3> QED
        BY <1>1, <2>2, <3>1 DEF Work!TypeOK
    <2>4. InForce(aRequests[i])'
      BY <2>1, <2>2 DEF InForce
    <2> QED
      BY <2>2, <2>3, <2>4 DEF WorkInv
  <1> QED
    BY <1>3, <1>4

LEMMA WorkIsSaved ==
    ASSUME WorkInv, NEW i \in Slots, Work!Save(i)
    PROVE  WorkInv'
  <1> DEFINE it == aRequests[i].assignment
  <1>1. /\ Work!TypeOK /\ aRequests[i] # Work!Free /\ aRequests[i].kind = "save" /\ Work!Answer(i, "success")
        /\ written' = IF aRequests[i].body = Empty THEN written
                      ELSE [written EXCEPT ![it] = aRequests[i].body]
        /\ UNCHANGED <<aSubmissions, aPendingBegin, pendingSave, aInputs>>
    BY DEF WorkInv, Work!Save, Work!Waiting, Work!forms
  <1>2. /\ aRequests' \in [Slots -> Work!Request \cup {Work!Free}] /\ Work!InFlight' = {i}
        /\ \A j, k \in Work!InFlight' : j = k
        /\ aRequests'[i].kind = "save" /\ aRequests'[i].assignment = it
        /\ Work!InFlight = {i} /\ InForce(aRequests[i])
        /\ aRequests[i] \in Work!Request
    BY <1>1, WorkAnswer, WorkAlone
  <1>3. Work!TypeOK'
    <2>1. written' \in Work!Lists
      BY <1>1, <1>2, WrittenType DEF Work!TypeOK, Work!Request
    <2> QED
      BY <1>1, <1>2, <2>1 DEF Work!TypeOK
  <1>4. InForce(aRequests[i])'
    BY <1>1, <1>2 DEF InForce
  <1> QED
    BY <1>2, <1>3, <1>4 DEF WorkInv

LEMMA WorkIsRead ==
    ASSUME WorkInv, NEW i \in Slots, Work!Read(i)
    PROVE  WorkInv'
  <1> DEFINE r == [aRequests[i] EXCEPT !.response = "success", !.list = written]
  <1>1. /\ Work!TypeOK /\ aRequests[i] # Work!Free /\ aRequests[i].kind = "fetch"
        /\ aRequests' = [aRequests EXCEPT ![i] = r]
        /\ UNCHANGED <<written, aSubmissions, aPendingBegin, pendingSave, aInputs>>
    BY DEF WorkInv, Work!Read, Work!Waiting, Work!forms
  <1>2. Work!InFlight = {i} /\ aRequests[i] \in Work!Request
    BY <1>1, WorkAlone
  <1>3. r \in Work!Request /\ r.kind = "fetch" /\ r.list = written
    BY <1>1, <1>2 DEF Work!Request, Work!TypeOK
  <1> HIDE DEF r
  <1>4. /\ aRequests' \in [Slots -> Work!Request \cup {Work!Free}] /\ Work!InFlight' = {i} /\ aRequests'[i] = r
        /\ \A j, k \in Work!InFlight' : j = k
    BY <1>1, <1>2, <1>3, WorkPlace, FreeIsNoWork
  <1>5. Work!TypeOK'
    BY <1>1, <1>4 DEF Work!TypeOK
  <1>6. InForce(aRequests[i])'
    BY <1>1, <1>3, <1>4 DEF InForce
  <1> QED
    BY <1>4, <1>5, <1>6 DEF WorkInv

\* What arrives is done with.
LEMMA WorkDone ==
    ASSUME WorkInv, NEW i \in Slots, aRequests[i] # Work!Free, aRequests' = Work!Done(i)
    PROVE  /\ aRequests' \in [Slots -> Work!Request \cup {Work!Free}] /\ Work!InFlight' = {}
           /\ \A j, k \in Work!InFlight' : j = k
  <1>1. Work!TypeOK /\ Work!InFlight = {i} /\ aRequests' = [aRequests EXCEPT ![i] = Work!Free]
    BY WorkAlone DEF WorkInv
  <1> QED
    BY <1>1, WorkPlace

LEMMA WorkBegunArrives ==
    ASSUME WorkInv, NEW i \in Slots, Work!OnBeginAssignmentComplete(i)
    PROVE  WorkInv'
  <1> DEFINE it == aRequests[i].assignment
  <1>1. /\ Work!TypeOK /\ aRequests[i] # Work!Free /\ aRequests[i].kind = "begin"
        /\ aRequests' = Work!Done(i) /\ UNCHANGED <<written, pendingSave, aInputs>>
        /\ \/ /\ aPendingBegin' = [aPendingBegin EXCEPT ![it] = "Failure"]
              /\ UNCHANGED aSubmissions
           \/ UNCHANGED aPendingBegin /\ aRequests[i].response = "success"
    BY DEF WorkInv, Work!OnBeginAssignmentComplete, Work!Arrives, Work!forms
  <1>2. /\ aRequests' \in [Slots -> Work!Request \cup {Work!Free}] /\ Work!InFlight' = {}
        /\ \A j, k \in Work!InFlight' : j = k
        /\ Work!InFlight = {i} /\ aRequests[i] \in Work!Request /\ InForce(aRequests[i]) /\ it \in Assignments
    BY <1>1, WorkDone, WorkAlone DEF Work!Request
  <1>3. aPendingBegin' \in [Assignments -> Work!States]
    BY <1>1 DEF Work!TypeOK, Work!States
  <1>4. CASE aSubmissions' = aSubmissions
    <2>1. Work!TypeOK'
      BY <1>1, <1>2, <1>3, <1>4 DEF Work!TypeOK
    <2> QED
      BY <1>2, <2>1 DEF WorkInv
  <1>5. CASE aSubmissions' # aSubmissions
    <2> DEFINE L == [w \in DOMAIN aSubmissions.list \cup {it} |->
                        IF w = it THEN Empty ELSE aSubmissions.list[w]]
    <2>1. /\ aSubmissions.is = "Success" /\ ~ Work!Listed(it)
          /\ aSubmissions' = [aSubmissions EXCEPT !.list = L]
          /\ aRequests[i].response = "success"
      BY <1>1, <1>5 DEF Work!OnBeginAssignmentComplete, Work!Arrives
    <2>2. aSubmissions' = [is |-> "Success", list |-> L] /\ L \in Work!Lists
      BY <1>1, <1>2, <2>1, BegunType DEF Work!TypeOK
    <2>3. Work!TypeOK'
      BY <1>1, <1>2, <1>3, <2>2 DEF Work!TypeOK
    <2> QED
      BY <1>2, <2>3 DEF WorkInv
  <1> QED
    BY <1>4, <1>5

LEMMA WorkSavedArrives ==
    ASSUME WorkInv, NEW i \in Slots, Work!OnSubmitResponse(i)
    PROVE  WorkInv'
  <1> DEFINE it == aRequests[i].assignment
             r == Work!Call("fetch", it, Empty)
  <1>1. /\ Work!TypeOK /\ aRequests[i] # Work!Free /\ aRequests[i].kind = "save"
        /\ UNCHANGED <<written, aSubmissions, aPendingBegin>>
        /\ \/ aRequests' = Work!Done(i) /\ UNCHANGED <<pendingSave, aInputs>>
           \/ /\ pendingSave' = [pendingSave EXCEPT ![it] = "NotAsked"]
              /\ aInputs' = [a \in Assignments |-> Empty]
              /\ aRequests' = [aRequests EXCEPT ![i] = r]
    BY DEF WorkInv, Work!OnSubmitResponse, Work!Arrives
  <1>2. Work!InFlight = {i} /\ it \in Assignments
    BY <1>1, WorkAlone DEF Work!Request
  <1>3. CASE aRequests' = Work!Done(i) /\ UNCHANGED <<pendingSave, aInputs>>
    <2>1. /\ aRequests' \in [Slots -> Work!Request \cup {Work!Free}] /\ Work!InFlight' = {}
          /\ \A j, k \in Work!InFlight' : j = k
      BY <1>1, <1>3, WorkDone
    <2>2. Work!TypeOK'
      BY <1>1, <1>3, <2>1 DEF Work!TypeOK
    <2> QED
      BY <2>1, <2>2 DEF WorkInv
  <1>4. CASE /\ pendingSave' = [pendingSave EXCEPT ![it] = "NotAsked"]
             /\ aInputs' = [a \in Assignments |-> Empty]
             /\ aRequests' = [aRequests EXCEPT ![i] = r]
    <2>1. r \in Work!Request /\ r.kind = "fetch" /\ r.response = "waiting"
      BY <1>2, WorkCall
    <2> HIDE DEF r
    <2>2. /\ aRequests' \in [Slots -> Work!Request \cup {Work!Free}] /\ Work!InFlight' = {i} /\ aRequests'[i] = r
          /\ \A j, k \in Work!InFlight' : j = k
      BY <1>1, <1>2, <1>4, <2>1, WorkPlace, FreeIsNoWork
    <2>3. Work!TypeOK'
      BY <1>1, <1>4, <2>2 DEF Work!TypeOK
    <2>4. InForce(aRequests[i])'
      BY <2>1, <2>2 DEF InForce
    <2> QED
      BY <2>2, <2>3, <2>4 DEF WorkInv
  <1> QED
    BY <1>1, <1>3, <1>4

LEMMA WorkListArrives ==
    ASSUME WorkInv, NEW i \in Slots, Work!OnFetchAssignmentSubmissions(i)
    PROVE  WorkInv'
  <1> DEFINE L == aRequests[i].list
  <1>1. /\ Work!TypeOK /\ aRequests[i] # Work!Free /\ aRequests[i].kind = "fetch" /\ aRequests' = Work!Done(i)
        /\ UNCHANGED <<written, aPendingBegin, pendingSave, aInputs>>
        /\ \/ aSubmissions' = [is |-> "Success", list |-> L] /\ aRequests[i].response = "success"
           \/ aSubmissions' = [is |-> "Failure", list |-> Work!Nothing]
    BY DEF WorkInv, Work!OnFetchAssignmentSubmissions, Work!Arrives, Work!forms
  <1>2. /\ aRequests' \in [Slots -> Work!Request \cup {Work!Free}] /\ Work!InFlight' = {}
        /\ \A j, k \in Work!InFlight' : j = k
        /\ aRequests[i] \in Work!Request /\ InForce(aRequests[i])
    BY <1>1, WorkDone, WorkAlone
  <1>3. aSubmissions' = [is |-> "Success", list |-> written] \/ aSubmissions'.is = "Failure"
    BY <1>1, <1>2 DEF InForce
  <1>4. Work!TypeOK'
    BY <1>1, <1>2, <1>3, NothingType DEF Work!TypeOK
  <1> QED
    BY <1>2, <1>4 DEF WorkInv

\* The page has just asked for the submissions.
LEMMA InitWork ==
    ASSUME Work!Init
    PROVE  WorkInv
  <1>1. \A j \in Work!InFlight : InForce(aRequests[j])
    BY InitWorkTypes DEF InForce
  <1> QED
    BY <1>1, InitWorkTypes DEF WorkInv

LEMMA NextWork ==
    ASSUME Patient, WorkInv, [Work!Next]_(Work!vars)
    PROVE  WorkInv'
  <1>1. CASE Work!Student
    BY <1>1, WorkBegins, WorkSubmits, WorkTypes DEF Work!Student
  <1>2. ASSUME NEW i \in Slots, Work!Serve(i) PROVE WorkInv'
    BY <1>2, WorkIsBegun, WorkIsSaved, WorkIsRead DEF Work!Serve
  <1>3. ASSUME NEW i \in Slots, Work!Fails(i) PROVE WorkInv'
    BY <1>3, WorkFails
  <1>4. ASSUME NEW i \in Slots, Work!Receive(i) PROVE WorkInv'
    BY <1>4, WorkBegunArrives, WorkSavedArrives, WorkListArrives DEF Work!Receive
  <1>5. CASE UNCHANGED Work!vars
    <2>1. UNCHANGED <<written, aRequests, aSubmissions, aPendingBegin, pendingSave, aInputs>>
      BY <1>5 DEF Work!vars, Work!forms
    <2> QED
      BY <2>1 DEF WorkInv, Work!TypeOK, Work!InFlight, InForce
  <1> QED
    BY <1>1, <1>2, <1>3, <1>4, <1>5 DEF Work!Next

LEMMA WorkInvariant == Patient => (Work!Spec => []WorkInv)
  <1> SUFFICES ASSUME Patient PROVE Work!Spec => []WorkInv
    OBVIOUS
  <1>1. Work!Init => WorkInv
    BY InitWork
  <1>2. WorkInv /\ [Work!Next]_(Work!vars) => WorkInv'
    BY NextWork
  <1> QED
    BY <1>1, <1>2, PTL DEF Work!Spec

\* An assignment of which the button is greyed out is being begun or in the table.
Pressed ==
    \A a \in Assignments : aPendingBegin[a] = "Loading" => Work!Begins(a) \/ a \in DOMAIN written

\* What the database and the network do to a begin leaves it waited for.
LEMMA RequestAwaits ==
    ASSUME WorkInv, Pressed, BeginAwaited, NEW i \in Slots, Work!Serve(i) \/ Work!Fails(i)
    PROVE  Pressed' /\ BeginAwaited'
  <1>1. /\ aRequests[i] # Work!Free /\ UNCHANGED <<aSubmissions, aPendingBegin>>
        /\ DOMAIN written \subseteq DOMAIN written'
    BY DEF Work!Serve, Work!Fails, Work!Begin, Work!Save, Work!Read, Work!Waiting, Work!forms
  <1>2. Work!InFlight = {i} /\ aRequests[i] \in Work!Request /\ Work!TypeOK
    BY <1>1, WorkAlone DEF WorkInv
  <1>3. /\ i \in Work!InFlight' /\ aRequests'[i].kind = aRequests[i].kind
        /\ aRequests'[i].assignment = aRequests[i].assignment
    <2>1. CASE Work!Read(i)
      <3> DEFINE r == [aRequests[i] EXCEPT !.response = "success", !.list = written]
      <3>1. aRequests' = [aRequests EXCEPT ![i] = r]
        BY <2>1 DEF Work!Read
      <3>2. /\ r \in Work!Request /\ r.kind = aRequests[i].kind
            /\ r.assignment = aRequests[i].assignment
        BY <1>2 DEF Work!Request, Work!TypeOK
      <3> HIDE DEF r
      <3> QED
        BY <1>2, <3>1, <3>2, WorkOne, FreeIsNoWork
    <2>2. CASE \E x \in {"success", "failure"} : Work!Answer(i, x)
      BY <1>1, <2>2, WorkAnswer
    <2> QED
      BY <2>1, <2>2 DEF Work!Serve, Work!Fails, Work!Begin, Work!Save
  <1>4. \A a : Work!Begins(a) => Work!Begins(a)'
    BY <1>2, <1>3 DEF Work!Begins
  <1> QED
    BY <1>1, <1>4 DEF Pressed, BeginAwaited, Work!BeginAwaited, Work!Listed

\* What arrives is, of all that is waited for, only what was asked for.
LEMMA ReceiveLeavesAwaited ==
    ASSUME WorkInv, Pressed, BeginAwaited, NEW i \in Slots, Work!Receive(i)
    PROVE  Pressed' /\ BeginAwaited'
  <1> DEFINE it == aRequests[i].assignment
  <1>1. aRequests[i] # Work!Free /\ UNCHANGED written
    BY DEF Work!Receive, Work!OnBeginAssignmentComplete, Work!OnSubmitResponse,
       Work!OnFetchAssignmentSubmissions, Work!Arrives
  <1>2. /\ Work!InFlight = {i} /\ aRequests[i] \in Work!Request /\ InForce(aRequests[i])
        /\ Work!TypeOK
    BY <1>1, WorkAlone DEF WorkInv
  <1>3. \A a : Work!Begins(a) => a = it /\ aRequests[i].kind = "begin"
    BY <1>2 DEF Work!Begins
  <1>4. CASE Work!OnBeginAssignmentComplete(i)
    <2>1. CASE aRequests[i].response = "failure"
      <3>1. /\ aPendingBegin' = [aPendingBegin EXCEPT ![it] = "Failure"]
            /\ UNCHANGED aSubmissions
        BY <1>4, <2>1 DEF Work!OnBeginAssignmentComplete, Work!Arrives
      <3>2. \A a \in Assignments : aPendingBegin'[a] = "Loading" => a # it /\ aPendingBegin[a] = "Loading"
        BY <1>2, <3>1 DEF Work!TypeOK
      <3> QED
        BY <1>1, <1>3, <3>1, <3>2 DEF Pressed, BeginAwaited, Work!BeginAwaited, Work!Listed
    <2>2. CASE aRequests[i].response = "success"
      <3>1. /\ UNCHANGED aPendingBegin /\ it \in DOMAIN written
            /\ IF aSubmissions.is = "Success" /\ ~Work!Listed(it)
               THEN aSubmissions' = [aSubmissions EXCEPT !.list =
                        [w \in DOMAIN aSubmissions.list \cup {it} |->
                            IF w = it THEN Empty ELSE aSubmissions.list[w]]]
               ELSE UNCHANGED aSubmissions
        BY <1>2, <1>4, <2>2 DEF Work!OnBeginAssignmentComplete, Work!Arrives, InForce
      <3>2. /\ aSubmissions'.is = aSubmissions.is
            /\ aSubmissions.is = "Success" =>
                  DOMAIN aSubmissions.list \cup {it} \subseteq DOMAIN aSubmissions'.list
        BY <1>2, <3>1 DEF Work!TypeOK, Work!Listed
      <3> QED
        BY <1>1, <1>3, <3>1, <3>2 DEF Pressed, BeginAwaited, Work!BeginAwaited, Work!Listed
    <2> QED
      BY <1>4, <2>1, <2>2 DEF Work!OnBeginAssignmentComplete, Work!Arrives
  <1>5. CASE Work!OnSubmitResponse(i)
    <2>1. aRequests[i].kind = "save" /\ UNCHANGED <<aSubmissions, aPendingBegin>>
      BY <1>5 DEF Work!OnSubmitResponse, Work!Arrives
    <2> QED
      BY <1>1, <1>3, <2>1 DEF Pressed, BeginAwaited, Work!BeginAwaited, Work!Listed
  <1>6. CASE Work!OnFetchAssignmentSubmissions(i)
    <2>1. /\ aRequests[i].kind = "fetch" /\ UNCHANGED aPendingBegin
          /\ aSubmissions'.is = "Success" => aSubmissions'.list = written
      BY <1>2, <1>6 DEF Work!OnFetchAssignmentSubmissions, Work!Arrives, InForce
    <2> QED
      BY <1>1, <1>3, <2>1 DEF Pressed, BeginAwaited, Work!BeginAwaited, Work!Listed
  <1> QED
    BY <1>4, <1>5, <1>6 DEF Work!Receive

\* She sends a request only when nothing is waited for.
LEMMA StudentIsPatient ==
    ASSUME Patient, WorkInv, Pressed, BeginAwaited, Work!Student
    PROVE  Pressed' /\ BeginAwaited'
  <1>1. Work!TypeOK
    BY DEF WorkInv
  <1>2. ASSUME Work!InFlight = {}
        PROVE  \A a : ~ Work!Begins(a)
    BY <1>2 DEF Work!Begins
  <1>3. ASSUME NEW b \in Assignments, Work!OnBeginAssignment(b) PROVE Pressed' /\ BeginAwaited'
    <2> DEFINE r == Work!Call("begin", b, Empty)
    <2>1. /\ Work!InFlight = {} /\ Work!Unused \in Slots
          /\ aRequests' = [aRequests EXCEPT ![Work!Unused] = r]
          /\ aPendingBegin' = [aPendingBegin EXCEPT ![b] = "Loading"]
          /\ UNCHANGED <<written, aSubmissions>>
      <3>1. Work!InFlight = {} /\ Slots \ Work!InFlight # {}
        BY <1>3 DEF Work!OnBeginAssignment, Work!MayAct, Work!InFlight
      <3> QED
        BY <1>3, <3>1 DEF Work!OnBeginAssignment, Work!Unused
    <2>2. r \in Work!Request /\ r.kind = "begin" /\ r.assignment = b
      BY WorkCall
    <2> HIDE DEF r
    <2>3. Work!Unused \in Work!InFlight' \cap Slots /\ aRequests'[Work!Unused] = r
      BY <1>1, <2>1, <2>2, WorkOne, FreeIsNoWork
    <2>4. Work!Begins(b)'
      BY <2>2, <2>3 DEF Work!Begins
    <2>5. \A a \in Assignments : a # b => aPendingBegin'[a] = aPendingBegin[a]
      BY <1>1, <2>1 DEF Work!TypeOK
    <2> QED
      BY <1>2, <2>1, <2>4, <2>5 DEF Pressed, BeginAwaited, Work!BeginAwaited, Work!Listed
  <1>4. ASSUME NEW b \in Assignments, Work!OnSubmit(b) PROVE Pressed' /\ BeginAwaited'
    <2>1. Work!InFlight = {} /\ UNCHANGED <<written, aSubmissions, aPendingBegin>>
      BY <1>4 DEF Work!OnSubmit, Work!MayAct
    <2> QED
      BY <1>2, <2>1 DEF Pressed, BeginAwaited, Work!BeginAwaited, Work!Listed
  <1>5. ASSUME NEW b \in Assignments, NEW text \in Texts, Work!OnUpdateInput(b, text)
        PROVE  Pressed' /\ BeginAwaited'
    BY <1>5 DEF Work!OnUpdateInput, Pressed, BeginAwaited, Work!BeginAwaited, Work!Listed,
       Work!Begins, Work!InFlight
  <1> QED
    BY <1>3, <1>4, <1>5 DEF Work!Student

\* While the page has a list to add to, a greyed-out "Begin assignment" of an
\* assignment that is not in it waits for a begin that is in flight.
THEOREM BeginIsAwaited == Patient => (Work!Spec => []BeginAwaited)
  <1> SUFFICES ASSUME Patient PROVE Work!Spec => []BeginAwaited
    OBVIOUS
  <1>1. Work!Init => Pressed /\ BeginAwaited
    BY DEF Work!Init, Pressed, BeginAwaited, Work!BeginAwaited
  <1>2. WorkInv /\ Pressed /\ BeginAwaited /\ [Work!Next]_(Work!vars) => (Pressed /\ BeginAwaited)'
    <2> SUFFICES ASSUME WorkInv, Pressed, BeginAwaited, [Work!Next]_(Work!vars)
                 PROVE  Pressed' /\ BeginAwaited'
      OBVIOUS
    <2>1. CASE UNCHANGED Work!vars
      BY <2>1 DEF Work!vars, Pressed, BeginAwaited, Work!BeginAwaited, Work!Listed, Work!Begins,
         Work!InFlight
    <2> QED
      BY <2>1, StudentIsPatient, RequestAwaits, ReceiveLeavesAwaited DEF Work!Next
  <1> QED
    BY <1>1, <1>2, WorkInvariant, PTL DEF Work!Spec
-----------------------------------------------------------------------------
(* The web client.                                                            *)

\* A behaviour of the web client is one of each of its parts, so what is proved
\* of a part holds of the whole.
THEOREM ClientParts == ClientSpec => BuildSpec /\ SpecPorts /\ Spec /\ Work!Spec
  <1>1. ClientInit => BuildInit /\ InitPorts /\ Init /\ Work!Init
    BY DEF ClientInit
  <1>2. [ClientNext]_all => [BuildNext]_buildVars
    BY DEF ClientNext, all
  <1>3. [ClientNext]_all => [NextPorts]_portVars
    BY DEF ClientNext, all
  <1>4. [ClientNext]_all => [Next]_vars
    BY DEF ClientNext, all, quizVars, vars, db, begins, answers
  <1>5. [ClientNext]_all => [Work!Next]_(Work!vars)
    BY DEF ClientNext, all, workVars, Work!vars, Work!forms
  <1> QED
    BY <1>1, <1>2, <1>3, <1>4, <1>5, PTL DEF ClientSpec, BuildSpec, SpecPorts, Spec, Work!Spec

\* Every part keeps its types.
THEOREM ClientTypeCorrect == ClientSpec => []ClientTypeOK
  <1>1. BuildTypeOK /\ TypeOK /\ QuizTypeOK /\ Work!TypeOK => ClientTypeOK
    BY DEF ClientTypeOK
  <1> QED
    BY <1>1, ClientParts, BuildTypeCorrect, TypeCorrect, QuizTypeCorrect, WorkTypeCorrect, PTL
=============================================================================
