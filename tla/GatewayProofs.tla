--------------------------- MODULE GatewayProofs ---------------------------
(***************************************************************************)
(* Proofs about Gateway, for any replies, analyses and versions: who is    *)
(* told that what was whose fault, when a request that is sent again takes *)
(* effect again, and that an analysis confirmed as it was shown becomes    *)
(* the plan that was shown.                                                *)
(***************************************************************************)
EXTENDS Gateway, CollectionLemmas

----------------------------------------------------------------------------
(* The inductive invariant *)

Busy == {"serving", "raised", "answering", "closed"}
StepNames == {"authorize", "limit", "read", "serve", "handle"}
Forms == Unreadable \cup {"not_object", "object"}

\* What a request brings with it.
WellFormed ==
  /\ request.endpoint \in Endpoints /\ request.token \in BOOLEAN /\ request.form \in Forms
  /\ request.form # "object" => request.endpoint \in Posts \cup {"update"}
  /\ request.token /\ request.form = "object" =>
       /\ request.endpoint = "analyze" => "ask" \in DOMAIN request
       /\ request.endpoint = "confirm" => "analysis" \in DOMAIN request
       /\ request.endpoint \notin {"analyze", "confirm"} =>
            /\ "fault" \in DOMAIN request /\ request.fault \in FaultsOf(request.endpoint)
            /\ request.version \in NoVersion..MaxVersion

\* A handler has the last of its steps before it; it is past the first one only
\* with a token, unless the path needs none, and past the body only with a JSON
\* value.
Open == {"health", "page", "elsewhere", "stray_post"}
StepsLeft ==
  LET steps == Steps(request.endpoint)
  IN \E n \in 1..Len(steps) :
       /\ todo = SubSeq(steps, n, Len(steps))
       /\ n > 1 => request.token \/ request.endpoint \in Open
       /\ (\E k \in 1..(n - 1) : steps[k] = "read") => request.form \notin Unreadable

Try == [status : Statuses \cup {0}, effect : BOOLEAN, trouble : Troubles, delivered : BOOLEAN]
Orderly ==
  /\ tries \in Seq(Try)
  /\ phase = "idle" => tries = <<>>
  /\ phase # "idle" => WellFormed
  /\ phase \in Busy => Len(tries) < MaxTries
  /\ phase = "over" => tries # <<>>
  /\ phase = "serving" =>
       /\ request.endpoint \in Endpoints /\ StepsLeft
       /\ status = 0 /\ ~effect /\ trouble = "none"
  /\ phase = "raised" =>
       /\ error.sayable \in BOOLEAN
       /\ error.class = "GatewayRequestError" => error.code \in {400, 401, 403, 429}

\* BlameIsRight of an answer, and of one that is still to be written.
BlameFor(code, cause, changed) ==
  /\ code \in 400..499 =>
       /\ \/ FaultyRequest
          \/ cause \in {"limited", "gone", "conflict", "not_allowed"}
          \/ request.endpoint = "confirm" /\ cause \in {"kept", "disk"}
       /\ changed => cause = "kept"
  /\ code \in 400..599 /\ changed => cause \in {"kept", "broke_off"}
  /\ code = 503 <=> cause = "unavailable"
  /\ code = 502 => cause \in {"no_reply", "bad_reply"}
  /\ cause = "no_reply" => code = 502
  /\ code = 500 /\ request.endpoint \in TaskEndpoints \cup PlanningEndpoints =>
       cause \in {"no_service", "busy", "disk", "kept", "bad_reply"} \/ OutsideContract
ErrorBlame(exception, cause, changed) ==
  IF exception.sayable THEN BlameFor(StatusOf(exception), cause, changed)
  ELSE FaultyRequest /\ ~changed
BlameToCome ==
  /\ phase = "answering" => BlameFor(status, trouble, effect)
  /\ phase = "raised" => ErrorBlame(error, trouble, effect)
  /\ phase = "closed" => FaultyRequest /\ ~effect

\* What has an effect is answered as done, or has an excuse; only what the
\* client was told nothing of, or to try later, is tried again.
Excuses == {"broke_off", "kept"}
Again == {429} \cup 500..599
EffectsExplained ==
  /\ phase = "raised" /\ effect => trouble \in Excuses
  /\ phase = "answering" /\ effect => status \in {200, 201, 204} \/ trouble \in Excuses
  /\ \A i \in DOMAIN tries :
       /\ tries[i].effect => \/ ~tries[i].delivered
                             \/ tries[i].status \in {200, 201, 204}
                             \/ tries[i].trouble \in Excuses
       /\ i < Len(tries) \/ phase \in Busy =>
            ~tries[i].delivered \/ tries[i].status \in Again

\* A delete, or an update with a version, once done leaves the task in a state
\* in which it cannot be done again.
OneShot ==
  \/ request.endpoint = "delete"
  \/ /\ request.endpoint = "update" /\ request.token /\ request.form = "object"
     /\ request.version # NoVersion
Done == (phase \in Busy /\ effect) \/ \E i \in DOMAIN tries : tries[i].effect
Spent == row = Gone \/ (request.endpoint = "update" /\ row > request.version)
OneShotsAreSpent ==
  /\ Done /\ request.endpoint = "update" => request.token /\ request.form = "object"
  /\ Done /\ OneShot =>
       /\ Spent
       /\ \A i, j \in DOMAIN tries : tries[i].effect /\ tries[j].effect => i = j
       /\ phase \in Busy /\ effect => \A i \in DOMAIN tries : ~tries[i].effect

GatewayInv == TypeOK /\ Orderly /\ BlameToCome /\ EffectsExplained /\ OneShotsAreSpent

----------------------------------------------------------------------------
(* The steps of a handler, and the status codes *)

\* Every list of steps ends with "handle", begins with "authorize" unless the
\* path is open to all, and has each step once; where a body can be sent it is
\* read before it is handled.
LEMMA StepsFacts ==
  ASSUME NEW e \in Endpoints
  PROVE  LET steps == Steps(e)
         IN  /\ steps \in Seq(StepNames) /\ Len(steps) \in 1..5
             /\ steps[Len(steps)] = "handle"
             /\ \A i, j \in 1..Len(steps) : steps[i] = steps[j] => i = j
             /\ e \notin Open => steps[1] = "authorize"
             /\ e \in Posts \cup {"update"} => \E k \in 1..(Len(steps) - 1) : steps[k] = "read"
<1>1. CASE e \in {"health", "page", "elsewhere"}
  <2>1. Steps(e) = <<"handle">>
    BY <1>1 DEF Steps
  <2>2. /\ Steps(e) \in Seq(StepNames) /\ Len(Steps(e)) = 1
        /\ Steps(e)[1] = "handle"
    BY <2>1 DEF StepNames
  <2>3. \A k \in 1..1 : k \in {1}
    OBVIOUS
  <2> QED
    BY <1>1, <2>2, <2>3 DEF Posts, Open
<1>2. CASE e \in {"analyze", "confirm", "create"}
  <2>1. Steps(e) = <<"authorize", "limit", "read", "serve", "handle">>
    BY <1>2 DEF Steps
  <2>2. /\ Steps(e) \in Seq(StepNames) /\ Len(Steps(e)) = 5
        /\ Steps(e)[1] = "authorize" /\ Steps(e)[2] = "limit" /\ Steps(e)[3] = "read"
        /\ Steps(e)[4] = "serve" /\ Steps(e)[5] = "handle"
    BY <2>1 DEF StepNames
  <2>3. \A k \in 1..5 : k \in {1, 2, 3, 4, 5}
    OBVIOUS
  <2>4. 3 \in 1..(5 - 1)
    OBVIOUS
  <2>5. \A i, j \in 1..5 : Steps(e)[i] = Steps(e)[j] => i = j
    BY <2>2, <2>3
  <2> QED
    BY <2>2, <2>4, <2>5
<1>3. CASE e \in {"chat", "route", "simulate", "unknown_post"}
  <2>1. Steps(e) = <<"authorize", "limit", "read", "handle">>
    BY <1>3 DEF Steps
  <2>2. /\ Steps(e) \in Seq(StepNames) /\ Len(Steps(e)) = 4
        /\ Steps(e)[1] = "authorize" /\ Steps(e)[2] = "limit" /\ Steps(e)[3] = "read"
        /\ Steps(e)[4] = "handle"
    BY <2>1 DEF StepNames
  <2>3. \A k \in 1..4 : k \in {1, 2, 3, 4}
    OBVIOUS
  <2>4. 3 \in 1..(4 - 1)
    OBVIOUS
  <2>5. \A i, j \in 1..4 : Steps(e)[i] = Steps(e)[j] => i = j
    BY <2>2, <2>3
  <2> QED
    BY <2>2, <2>4, <2>5
<1>4. CASE e = "update"
  <2>1. Steps(e) = <<"authorize", "limit", "serve", "read", "handle">>
    BY <1>4 DEF Steps
  <2>2. /\ Steps(e) \in Seq(StepNames) /\ Len(Steps(e)) = 5
        /\ Steps(e)[1] = "authorize" /\ Steps(e)[2] = "limit" /\ Steps(e)[3] = "serve"
        /\ Steps(e)[4] = "read" /\ Steps(e)[5] = "handle"
    BY <2>1 DEF StepNames
  <2>3. \A k \in 1..5 : k \in {1, 2, 3, 4, 5}
    OBVIOUS
  <2>4. 4 \in 1..(5 - 1)
    OBVIOUS
  <2>5. \A i, j \in 1..5 : Steps(e)[i] = Steps(e)[j] => i = j
    BY <2>2, <2>3
  <2> QED
    BY <2>2, <2>4, <2>5
<1>5. CASE e \in {"delete", "task", "tasks", "plan"}
  <2>1. Steps(e) = <<"authorize", "limit", "serve", "handle">>
    BY <1>5 DEF Steps
  <2>2. /\ Steps(e) \in Seq(StepNames) /\ Len(Steps(e)) = 4
        /\ Steps(e)[1] = "authorize" /\ Steps(e)[2] = "limit" /\ Steps(e)[3] = "serve"
        /\ Steps(e)[4] = "handle"
    BY <2>1 DEF StepNames
  <2>3. \A k \in 1..4 : k \in {1, 2, 3, 4}
    OBVIOUS
  <2>4. e \notin Posts \cup {"update"}
    BY <1>5 DEF Posts
  <2> QED
    BY <2>2, <2>3, <2>4
<1>6. CASE e \in {"status", "unknown_api"}
  <2>1. Steps(e) = <<"authorize", "limit", "handle">>
    BY <1>6 DEF Steps
  <2>2. /\ Steps(e) \in Seq(StepNames) /\ Len(Steps(e)) = 3
        /\ Steps(e)[1] = "authorize" /\ Steps(e)[2] = "limit" /\ Steps(e)[3] = "handle"
    BY <2>1 DEF StepNames
  <2>3. \A k \in 1..3 : k \in {1, 2, 3}
    OBVIOUS
  <2>4. e \notin Posts \cup {"update"}
    BY <1>6 DEF Posts
  <2> QED
    BY <2>2, <2>3, <2>4
<1>7. CASE e = "stray_post"
  <2>1. Steps(e) = <<"read", "handle">>
    BY <1>7 DEF Steps
  <2>2. /\ Steps(e) \in Seq(StepNames) /\ Len(Steps(e)) = 2
        /\ Steps(e)[1] = "read" /\ Steps(e)[2] = "handle"
    BY <2>1 DEF StepNames
  <2>3. \A k \in 1..2 : k \in {1, 2}
    OBVIOUS
  <2>4. 1 \in 1..(2 - 1)
    OBVIOUS
  <2> QED
    BY <1>7, <2>2, <2>3, <2>4 DEF Open
<1> QED
  BY <1>1, <1>2, <1>3, <1>4, <1>5, <1>6, <1>7
     DEF Endpoints, Posts, PlanningEndpoints, TaskEndpoints, Unserved

\* The status of each kind of exception; a planner's failure is found before the
\* error of an analysis it is a kind of.
LEMMA StatusFacts ==
  ASSUME NEW exception
  PROVE  /\ exception.class = "GatewayRequestError" => StatusOf(exception) = exception.code
         /\ exception.class = "TaskPlannerUnavailable" => StatusOf(exception) = 503
         /\ exception.class = "TaskPlanningFailed" => StatusOf(exception) = 502
         /\ exception.class \in {"TaskAnalysisError", "TaskValidationError"} =>
              StatusOf(exception) = 400
         /\ exception.class \in {"TaskPlanNotFound", "TaskNotFound"} => StatusOf(exception) = 404
         /\ exception.class = "TaskConflict" => StatusOf(exception) = 409
         /\ exception.class = "Unforeseen" => StatusOf(exception) = 500
<1> DEFINE class == exception.class
           rungs == {i \in DOMAIN Ladder : Ladder[i].class \in Ancestors[class]}
<1>1. /\ DOMAIN Ladder = 1..7
      /\ Ladder[1].class = "TaskPlannerUnavailable" /\ Ladder[1].code = 503
      /\ Ladder[2].class = "TaskPlanningFailed" /\ Ladder[2].code = 502
      /\ Ladder[3].class = "TaskAnalysisError" /\ Ladder[3].code = 400
      /\ Ladder[4].class = "TaskPlanNotFound" /\ Ladder[4].code = 404
      /\ Ladder[5].class = "TaskValidationError" /\ Ladder[5].code = 400
      /\ Ladder[6].class = "TaskNotFound" /\ Ladder[6].code = 404
      /\ Ladder[7].class = "TaskConflict" /\ Ladder[7].code = 409
  BY DEF Ladder, Rung
<1>2. \A i \in 1..7 : i \in {1, 2, 3, 4, 5, 6, 7}
  OBVIOUS
<1>3. class # "GatewayRequestError" =>
        StatusOf(exception) = IF rungs = {} THEN 500 ELSE Ladder[Min(rungs)].code
  BY DEF StatusOf
<1>4. class = "GatewayRequestError" => StatusOf(exception) = exception.code
  BY DEF StatusOf
<1>5. rungs \in SUBSET Nat
  BY <1>1
<1>6. rungs # {} => Min(rungs) \in rungs /\ \A i \in rungs : Min(rungs) <= i
  <2> HIDE DEF rungs
  <2> QED
    BY <1>5, MinOfNaturals
<1>7. \A i : i \in rungs <=> i \in 1..7 /\ Ladder[i].class \in Ancestors[class]
  BY <1>1
<1> HIDE DEF rungs, class
<1>8. ASSUME class = "TaskPlannerUnavailable" PROVE StatusOf(exception) = 503
  <2>1. rungs = {1}
    BY <1>1, <1>2, <1>7, <1>8 DEF Ancestors
  <2> QED
    BY <1>1, <1>3, <1>6, <1>8, <2>1
<1>9. ASSUME class = "TaskPlanningFailed" PROVE StatusOf(exception) = 502
  <2>1. rungs = {2, 3}
    BY <1>1, <1>2, <1>7, <1>9 DEF Ancestors
  <2>2. Min(rungs) = 2
    BY <1>6, <2>1
  <2> QED
    BY <1>1, <1>3, <1>9, <2>1, <2>2
<1>10. ASSUME class = "TaskAnalysisError" PROVE StatusOf(exception) = 400
  <2>1. rungs = {3}
    BY <1>1, <1>2, <1>7, <1>10 DEF Ancestors
  <2> QED
    BY <1>1, <1>3, <1>6, <1>10, <2>1
<1>11. ASSUME class = "TaskPlanNotFound" PROVE StatusOf(exception) = 404
  <2>1. rungs = {4}
    BY <1>1, <1>2, <1>7, <1>11 DEF Ancestors
  <2> QED
    BY <1>1, <1>3, <1>6, <1>11, <2>1
<1>12. ASSUME class = "TaskValidationError" PROVE StatusOf(exception) = 400
  <2>1. rungs = {5}
    BY <1>1, <1>2, <1>7, <1>12 DEF Ancestors
  <2> QED
    BY <1>1, <1>3, <1>6, <1>12, <2>1
<1>13. ASSUME class = "TaskNotFound" PROVE StatusOf(exception) = 404
  <2>1. rungs = {6}
    BY <1>1, <1>2, <1>7, <1>13 DEF Ancestors
  <2> QED
    BY <1>1, <1>3, <1>6, <1>13, <2>1
<1>14. ASSUME class = "TaskConflict" PROVE StatusOf(exception) = 409
  <2>1. rungs = {7}
    BY <1>1, <1>2, <1>7, <1>14 DEF Ancestors
  <2> QED
    BY <1>1, <1>3, <1>6, <1>14, <2>1
<1>15. ASSUME class = "Unforeseen" PROVE StatusOf(exception) = 500
  <2>1. rungs = {}
    BY <1>1, <1>2, <1>7, <1>15 DEF Ancestors
  <2> QED
    BY <1>3, <1>15, <2>1
<1> QED
  BY <1>4, <1>8, <1>9, <1>10, <1>11, <1>12, <1>13, <1>14, <1>15 DEF class

\* A handler at a step: what it has behind it, and what is before it once the
\* step is done.
LEMMA AtStep ==
  ASSUME GatewayInv, phase = "serving"
  PROVE  /\ WellFormed
         /\ Head(todo) # "authorize" => request.token \/ request.endpoint \in Open
         /\ Head(todo) = "handle" /\ request.endpoint \in Posts \cup {"update"} =>
              request.form \in {"object", "not_object"}
         /\ Tail(todo) \in Seq(StepNames)
         /\ /\ todo' = Tail(todo) /\ request' = request
            /\ Head(todo) # "handle"
            /\ Head(todo) = "authorize" => request.token
            /\ Head(todo) = "read" => request.form \notin Unreadable
            => StepsLeft'
<1> DEFINE steps == Steps(request.endpoint)
<1>1. WellFormed /\ request.endpoint \in Endpoints
  BY DEF GatewayInv, Orderly
<1>2. /\ steps \in Seq(StepNames) /\ Len(steps) \in 1..5
      /\ steps[Len(steps)] = "handle"
      /\ \A i, j \in 1..Len(steps) : steps[i] = steps[j] => i = j
      /\ request.endpoint \notin Open => steps[1] = "authorize"
      /\ request.endpoint \in Posts \cup {"update"} =>
           \E k \in 1..(Len(steps) - 1) : steps[k] = "read"
  BY <1>1, StepsFacts
<1>3. PICK n \in 1..Len(steps) :
        /\ todo = SubSeq(steps, n, Len(steps))
        /\ n > 1 => request.token \/ request.endpoint \in Open
        /\ (\E k \in 1..(n - 1) : steps[k] = "read") => request.form \notin Unreadable
  BY DEF GatewayInv, Orderly, StepsLeft
<1>4. \A k \in 1..(n - 1) : k \in 1..Len(steps)
  BY <1>2
<1> HIDE DEF steps
<1>5. Head(todo) = steps[n] /\ Tail(todo) = SubSeq(steps, n + 1, Len(steps))
  BY <1>2, <1>3, HeadTailOfSubSeq
<1>6. Head(todo) # "authorize" => request.token \/ request.endpoint \in Open
  BY <1>2, <1>3, <1>5
<1>7. /\ Head(todo) = "handle" /\ request.endpoint \in Posts \cup {"update"} =>
           request.form \in {"object", "not_object"}
  <2> SUFFICES ASSUME Head(todo) = "handle", request.endpoint \in Posts \cup {"update"}
               PROVE  request.form \in {"object", "not_object"}
    OBVIOUS
  <2>1. n = Len(steps)
    BY <1>2, <1>5
  <2>2. request.form \notin Unreadable
    BY <1>2, <1>3, <2>1
  <2> QED
    BY <1>1, <2>2 DEF WellFormed, Forms
<1>8. Tail(todo) \in Seq(StepNames)
  <2>1. \A i \in (n + 1)..Len(steps) : steps[i] \in StepNames
    <3>1. \A i \in 1..Len(steps) : steps[i] \in StepNames
      BY <1>2, ElementOfSeq
    <3> QED
      BY <1>2, <3>1
  <2>2. n + 1 \in Int /\ Len(steps) \in Int
    BY <1>2
  <2> QED
    BY <1>5, <2>1, <2>2, SubSeqProperties
<1>9. ASSUME todo' = Tail(todo), request' = request, Head(todo) # "handle",
             Head(todo) = "authorize" => request.token,
             Head(todo) = "read" => request.form \notin Unreadable
      PROVE  StepsLeft'
  <2>1. n + 1 \in 1..Len(steps)
    BY <1>2, <1>5, <1>9
  <2>2. n + 1 > 1 => request.token \/ request.endpoint \in Open
    BY <1>6, <1>9
  <2>3. (\E k \in 1..(n + 1 - 1) : steps[k] = "read") => request.form \notin Unreadable
    <3> SUFFICES ASSUME NEW k \in 1..(n + 1 - 1), steps[k] = "read"
                 PROVE  request.form \notin Unreadable
      OBVIOUS
    <3>1. CASE k = n
      BY <1>5, <1>9, <3>1
    <3>2. CASE k # n
      BY <1>2, <1>3, <3>2
    <3> QED
      BY <3>1, <3>2
  <2>4. todo' = SubSeq(steps, n + 1, Len(steps))
    BY <1>5, <1>9
  <2>5. /\ Steps(request'.endpoint) = steps /\ request'.endpoint = request.endpoint
        /\ request'.token = request.token /\ request'.form = request.form
    BY <1>9 DEF steps
  <2> QED
    BY <2>1, <2>2, <2>3, <2>4, <2>5 DEF StepsLeft
<1> QED
  BY <1>1, <1>6, <1>7, <1>8, <1>9

----------------------------------------------------------------------------
(* How a try ends *)

IsException(x) ==
  /\ x.class \in DOMAIN Ancestors /\ x.sayable \in BOOLEAN
  /\ x.class = "GatewayRequestError" => x.code \in {400, 401, 403, 429}
ServicesFit(made_so_far) ==
  /\ made_so_far \subseteq {"tasks", "planning"}
  /\ "planning" \in made_so_far => "tasks" \in made_so_far

\* Who is at fault is a matter of the request alone.
LEMMA SameRequest ==
  ASSUME request' = request
  PROVE  /\ FaultyRequest' = FaultyRequest /\ WellFormed' = WellFormed /\ OneShot' = OneShot
         /\ \A code, cause, changed :
              BlameFor(code, cause, changed)' = BlameFor(code, cause, changed)
         /\ \A x, cause, changed : ErrorBlame(x, cause, changed)' = ErrorBlame(x, cause, changed)
<1>1. FaultyRequest' = FaultyRequest /\ OutsideContract' = OutsideContract
  BY DEF FaultyRequest, OutsideContract
<1>2. WellFormed' = WellFormed /\ OneShot' = OneShot
  BY DEF WellFormed, OneShot
<1>3. \A code, cause, changed :
        BlameFor(code, cause, changed)' = BlameFor(code, cause, changed)
  BY <1>1 DEF BlameFor
<1>4. \A x, cause, changed : ErrorBlame(x, cause, changed)' = ErrorBlame(x, cause, changed)
  BY <1>1, <1>3 DEF ErrorBlame
<1> QED
  BY <1>1, <1>2, <1>3, <1>4

\* A status is one this server knows.
LEMMA StatusKnown ==
  ASSUME NEW x, IsException(x)
  PROVE  StatusOf(x) \in Statuses /\ StatusOf(x) # 0 /\ StatusOf(x) \notin {200, 201, 204}
  BY StatusFacts DEF IsException, Ancestors, Statuses

\* A task that is deleted stays so, and its version only grows.
RowMoves ==
  /\ row' \in 0..MaxVersion
  /\ row = Gone => row' = Gone
  /\ row' = Gone \/ row' >= row

LEMMA SpentStays ==
  ASSUME GatewayInv, phase # "idle", request' = request, RowMoves, OneShot, Spent
  PROVE  Spent'
<1>1. CASE row = Gone
  BY <1>1 DEF RowMoves, Spent
<1>2. CASE request.endpoint = "update" /\ row > request.version
  <2>1. request.version \in Int
    BY <1>2 DEF GatewayInv, Orderly, WellFormed, OneShot, NoVersion
  <2>2. row \in Nat /\ row' \in Nat
    BY GatewayAssumption DEF GatewayInv, TypeOK, RowMoves
  <2> QED
    BY <1>2, <2>1, <2>2 DEF RowMoves, Spent
<1> QED
  BY <1>1, <1>2 DEF Spent

LEMMA RaiseInv ==
  ASSUME GatewayInv, phase = "serving", NEW x, NEW changed \in BOOLEAN, NEW cause \in Troubles,
         Raise(x, changed, cause), UNCHANGED <<request, tries, row>>, ServicesFit(services'),
         IsException(x), ErrorBlame(x, cause, changed),
         changed => cause \in Excuses /\ request.endpoint \notin {"delete", "update"}
  PROVE  GatewayInv'
<1>1. /\ phase' = "raised" /\ error' = x /\ effect' = changed /\ trouble' = cause
      /\ UNCHANGED <<todo, status, request, tries, row>>
  BY DEF Raise
<1>2. TypeOK'
  BY <1>1 DEF GatewayInv, TypeOK, ServicesFit, IsException
<1>3. Orderly'
  <2>1. WellFormed'
    BY <1>1, SameRequest DEF GatewayInv, Orderly
  <2> QED
    BY <1>1, <2>1 DEF GatewayInv, Orderly, Busy, IsException
<1>4. BlameToCome'
  BY <1>1, SameRequest DEF BlameToCome
<1>5. EffectsExplained'
  BY <1>1 DEF GatewayInv, EffectsExplained, Busy
<1>6. OneShotsAreSpent'
  <2>1. OneShot' = OneShot
    BY SameRequest
  <2>2. Spent' = Spent
    BY <1>1 DEF Spent
  <2>3. changed => request.endpoint \notin {"delete", "update"} /\ ~OneShot
    BY DEF OneShot
  <2>4. ~changed /\ Done' => Done
    BY <1>1 DEF Done
  <2> QED
    BY <1>1, <2>1, <2>2, <2>3, <2>4 DEF GatewayInv, OneShotsAreSpent
<1> QED
  BY <1>2, <1>3, <1>4, <1>5, <1>6 DEF GatewayInv

LEMMA RespondInv ==
  ASSUME GatewayInv, phase = "serving", NEW code \in {200, 201, 204, 403, 404},
         NEW changed \in BOOLEAN, Respond(code, changed),
         UNCHANGED <<request, tries, services>>, RowMoves,
         code \in {403, 404} => FaultyRequest /\ ~changed,
         changed /\ request.endpoint = "update" => request.token /\ request.form = "object",
         changed /\ OneShot => ~Spent /\ Spent'
  PROVE  GatewayInv'
<1>1. /\ phase' = "answering" /\ status' = code /\ effect' = changed
      /\ UNCHANGED <<todo, error, trouble, request, tries, services>>
      /\ trouble = "none"
  BY DEF Respond, GatewayInv, Orderly
<1>2. TypeOK'
  BY <1>1 DEF GatewayInv, TypeOK, Statuses, RowMoves
<1>3. Orderly'
  <2>1. WellFormed'
    BY <1>1, SameRequest DEF GatewayInv, Orderly
  <2> QED
    BY <1>1, <2>1 DEF GatewayInv, Orderly, Busy
<1>4. BlameToCome'
  <2>1. BlameFor(code, "none", changed)
    BY DEF BlameFor
  <2> QED
    BY <1>1, <2>1, SameRequest DEF BlameToCome
<1>5. EffectsExplained'
  BY <1>1 DEF GatewayInv, EffectsExplained, Busy
<1>6. OneShotsAreSpent'
  <2>1. OneShot' = OneShot
    BY SameRequest
  <2>2. OneShot /\ Spent => Spent'
    BY SpentStays
  <2>3. Done' => changed \/ (Done /\ \E i \in DOMAIN tries : tries[i].effect)
    BY <1>1 DEF Done
  <2>4. changed /\ OneShot => \A i \in DOMAIN tries : ~tries[i].effect
    BY DEF Done, GatewayInv, OneShotsAreSpent
  <2>5. Done' /\ OneShot' => Spent'
    BY <2>1, <2>2, <2>3 DEF GatewayInv, OneShotsAreSpent
  <2>6. Done' /\ request'.endpoint = "update" => request'.token /\ request'.form = "object"
    BY <1>1, <2>3 DEF GatewayInv, OneShotsAreSpent
  <2>7. Done' /\ OneShot' =>
          \A i, j \in DOMAIN tries : tries[i].effect /\ tries[j].effect => i = j
    BY <2>1, <2>3, <2>4 DEF GatewayInv, OneShotsAreSpent
  <2> QED
    BY <1>1, <2>1, <2>4, <2>5, <2>6, <2>7 DEF OneShotsAreSpent
<1> QED
  BY <1>2, <1>3, <1>4, <1>5, <1>6 DEF GatewayInv

LEMMA ProceedInv ==
  ASSUME GatewayInv, phase = "serving", Head(todo) # "handle", Proceed,
         Head(todo) = "authorize" => request.token,
         Head(todo) = "read" => request.form \notin Unreadable,
         UNCHANGED <<request, tries, row>>, ServicesFit(services')
  PROVE  GatewayInv'
<1>1. /\ todo' = Tail(todo)
      /\ UNCHANGED <<phase, error, status, effect, trouble, request, tries, row>>
  BY DEF Proceed
<1>2. StepsLeft' /\ Tail(todo) \in Seq(StepNames) /\ WellFormed
  BY <1>1, AtStep
<1>3. TypeOK'
  BY <1>1, <1>2 DEF GatewayInv, TypeOK, ServicesFit, StepNames
<1>4. Orderly'
  <2>1. WellFormed'
    BY <1>1, <1>2, SameRequest
  <2> QED
    BY <1>1, <1>2, <2>1 DEF GatewayInv, Orderly, Busy
<1>5. BlameToCome'
  BY <1>1 DEF BlameToCome
<1>6. EffectsExplained'
  BY <1>1 DEF GatewayInv, EffectsExplained, Busy
<1>7. OneShotsAreSpent'
  <2>1. OneShot' = OneShot /\ Spent' = Spent /\ Done' = Done
    BY <1>1, SameRequest DEF Spent, Done
  <2> QED
    BY <1>1, <2>1 DEF GatewayInv, OneShotsAreSpent
<1> QED
  BY <1>3, <1>4, <1>5, <1>6, <1>7 DEF GatewayInv

LEMMA EndsInv ==
  ASSUME GatewayInv, phase \in Busy, NEW delivered \in BOOLEAN, Ends(delivered),
         delivered => phase = "answering", ServicesFit(services')
  PROVE  GatewayInv'
<1> DEFINE record == [status |-> status, effect |-> effect, trouble |-> trouble,
                      delivered |-> delivered]
           n == Len(tries)
<1>1. /\ phase' = "over" /\ tries' = Append(tries, record)
      /\ UNCHANGED <<request, todo, error, status, effect, trouble, row>>
  BY DEF Ends
<1>2. record \in Try /\ tries \in Seq(Try) /\ n < MaxTries /\ n \in Nat
  BY LenProperties DEF GatewayInv, TypeOK, Orderly, Try
<1>3. record.status = status /\ record.effect = effect /\ record.trouble = trouble
      /\ record.delivered = delivered
  OBVIOUS
<1> HIDE DEF record, n
<1>4. /\ tries' \in Seq(Try) /\ Len(tries') = n + 1
      /\ \A i \in 1..n : tries'[i] = tries[i]
      /\ tries'[n + 1] = record
  BY <1>1, <1>2, AppendProperties DEF n
<1>5. DOMAIN tries = 1..n /\ DOMAIN tries' = 1..(n + 1)
  BY <1>2, <1>4, LenProperties DEF n
<1>6. \A i \in DOMAIN tries' : (i \in DOMAIN tries /\ tries'[i] = tries[i] /\ i < n + 1)
                               \/ (i = n + 1 /\ i \notin DOMAIN tries /\ tries'[i] = record)
  BY <1>2, <1>4, <1>5
<1>7. TypeOK'
  <2>1. Len(tries') <= MaxTries
    BY <1>2, <1>4, GatewayAssumption
  <2> QED
    BY <1>1, <2>1 DEF GatewayInv, TypeOK, ServicesFit
<1>8. Orderly'
  <2>1. WellFormed'
    BY <1>1, SameRequest DEF GatewayInv, Orderly, Busy
  <2>2. tries' # <<>>
    <3>1. Len(tries') # 0
      BY <1>2, <1>4
    <3> QED
      BY <3>1, EmptySeq
  <2> QED
    BY <1>1, <1>4, <2>1, <2>2 DEF Orderly, Busy
<1>9. BlameToCome'
  BY <1>1 DEF BlameToCome
<1>10. EffectsExplained'
  <2>1. ASSUME NEW i \in DOMAIN tries'
        PROVE  /\ tries'[i].effect => \/ ~tries'[i].delivered
                                      \/ tries'[i].status \in {200, 201, 204}
                                      \/ tries'[i].trouble \in Excuses
               /\ i < Len(tries') =>
                    ~tries'[i].delivered \/ tries'[i].status \in Again
    <3>1. CASE i \in DOMAIN tries /\ tries'[i] = tries[i]
      BY <3>1 DEF GatewayInv, EffectsExplained
    <3>2. CASE i = n + 1 /\ tries'[i] = record
      <4>1. ~(i < Len(tries'))
        BY <1>2, <1>4, <3>2
      <4>2. effect => ~delivered \/ status \in {200, 201, 204} \/ trouble \in Excuses
        BY DEF GatewayInv, EffectsExplained
      <4> QED
        BY <1>3, <3>2, <4>1, <4>2
    <3> QED
      BY <1>6, <3>1, <3>2
  <2> QED
    BY <1>1, <2>1 DEF EffectsExplained, Busy
<1>11. OneShotsAreSpent'
  <2>1. OneShot' = OneShot /\ Spent' = Spent
    BY <1>1, SameRequest DEF Spent
  <2>2. ASSUME NEW i \in DOMAIN tries', tries'[i].effect PROVE Done
    BY <1>3, <1>6, <2>2 DEF Done
  <2>3. Done' => Done
    BY <1>1, <2>2 DEF Done, Busy
  <2>4. ASSUME Done, OneShot, NEW i \in DOMAIN tries', NEW j \in DOMAIN tries',
               tries'[i].effect, tries'[j].effect
        PROVE  i = j
    <3>1. CASE i \in DOMAIN tries /\ j \in DOMAIN tries
      BY <1>6, <2>4, <3>1 DEF GatewayInv, OneShotsAreSpent
    <3>2. CASE i \notin DOMAIN tries /\ j \notin DOMAIN tries
      BY <1>6, <3>2
    <3>3. CASE i \notin DOMAIN tries /\ j \in DOMAIN tries
      BY <1>3, <1>6, <2>4, <3>3 DEF GatewayInv, OneShotsAreSpent
    <3>4. CASE i \in DOMAIN tries /\ j \notin DOMAIN tries
      BY <1>3, <1>6, <2>4, <3>4 DEF GatewayInv, OneShotsAreSpent
    <3> QED
      BY <3>1, <3>2, <3>3, <3>4
  <2>5. phase' \notin Busy
    BY <1>1 DEF Busy
  <2> QED
    BY <1>1, <2>1, <2>3, <2>4, <2>5 DEF GatewayInv, OneShotsAreSpent
<1> QED
  BY <1>7, <1>8, <1>9, <1>10, <1>11 DEF GatewayInv

----------------------------------------------------------------------------
(* The steps before the handler proper *)

Quiet == UNCHANGED <<request, tries, row, services>>

\* What is known at any step: the task row stays as it is, and the services are
\* one built upon the other.
LEMMA AsItWas ==
  ASSUME GatewayInv, row' = row
  PROVE  RowMoves /\ ServicesFit(services)
<1>1. row \in 0..MaxVersion /\ row \in Nat
  BY GatewayAssumption DEF GatewayInv, TypeOK
<1> QED
  BY <1>1 DEF GatewayInv, TypeOK, RowMoves, ServicesFit

\* An exception that blames nobody wrongly and comes before anything was done.
LEMMA RaiseEarly ==
  ASSUME GatewayInv, phase = "serving", NEW x, NEW cause \in Troubles,
         Raise(x, FALSE, cause), UNCHANGED <<request, tries, row>>, ServicesFit(services'),
         IsException(x), ErrorBlame(x, cause, FALSE)
  PROVE  GatewayInv'
  BY RaiseInv

LEMMA ExceptionFacts ==
  /\ \A class \in DOMAIN Ancestors \ {"GatewayRequestError"} :
       /\ IsException(Raised(class)) /\ IsException(Unsayable(class))
       /\ Raised(class).class = class /\ Raised(class).sayable
       /\ ~Unsayable(class).sayable
  /\ \A code \in {400, 401, 403, 429} :
       /\ IsException(Refused(code)) /\ Refused(code).sayable
       /\ StatusOf(Refused(code)) = code
  /\ DOMAIN Ancestors =
       {"GatewayRequestError", "TaskPlannerUnavailable", "TaskPlanningFailed",
        "TaskAnalysisError", "TaskPlanNotFound", "TaskValidationError", "TaskNotFound",
        "TaskConflict", "Unforeseen"}
<1>1. \A code : Refused(code).class = "GatewayRequestError" /\ Refused(code).code = code
  BY DEF Refused
<1>2. \A code : StatusOf(Refused(code)) = code
  BY <1>1, StatusFacts
<1>3. DOMAIN Ancestors =
       {"GatewayRequestError", "TaskPlannerUnavailable", "TaskPlanningFailed",
        "TaskAnalysisError", "TaskPlanNotFound", "TaskValidationError", "TaskNotFound",
        "TaskConflict", "Unforeseen"}
  BY DEF Ancestors
<1> QED
  BY <1>2, <1>3 DEF Raised, Unsayable, Refused, IsException

\* A client's fault, whatever the status that says so.
LEMMA ClientsFault ==
  ASSUME FaultyRequest, NEW x, IsException(x), StatusOf(x) \in 400..499
  PROVE  ErrorBlame(x, "none", FALSE)
  BY DEF ErrorBlame, BlameFor

\* An exception nobody foresaw is a 500: the server's fault, or a request the
\* specification is silent about, or none of the endpoints it speaks of.
LEMMA ServersFault ==
  ASSUME NEW cause \in Troubles, NEW changed \in BOOLEAN,
         \/ cause \in {"no_service", "busy", "disk", "kept", "bad_reply"}
         \/ cause \in {"none", "broke_off"} /\ OutsideContract
         \/ /\ cause \in {"none", "broke_off"}
            /\ request.endpoint \notin TaskEndpoints \cup PlanningEndpoints,
         changed => cause \in {"kept", "broke_off"}
  PROVE  ErrorBlame(Raised("Unforeseen"), cause, changed)
<1>1. StatusOf(Raised("Unforeseen")) = 500 /\ Raised("Unforeseen").sayable
  BY StatusFacts DEF Raised
<1> QED
  BY <1>1 DEF ErrorBlame, BlameFor

\* The request is at fault, and is told so by a 4xx.
LEMMA RaiseOnClient ==
  ASSUME GatewayInv, phase = "serving", NEW x, Raise(x, FALSE, "none"),
         UNCHANGED <<request, tries, row>>, ServicesFit(services'),
         FaultyRequest, IsException(x), StatusOf(x) \in 400..499
  PROVE  GatewayInv'
<1>1. PICK cause \in Troubles : cause = "none"
  BY DEF Troubles
<1>2. ErrorBlame(x, "none", FALSE)
  BY ClientsFault
<1> QED
  BY <1>1, <1>2, RaiseEarly

\* Something failed that nobody foresaw.
LEMMA RaiseOnServer ==
  ASSUME GatewayInv, phase = "serving", NEW cause \in Troubles,
         Raise(Raised("Unforeseen"), FALSE, cause),
         UNCHANGED <<request, tries, row>>, ServicesFit(services'),
         \/ cause \in {"no_service", "busy", "disk", "kept", "bad_reply"}
         \/ cause \in {"none", "broke_off"} /\ OutsideContract
         \/ /\ cause \in {"none", "broke_off"}
            /\ request.endpoint \notin TaskEndpoints \cup PlanningEndpoints
  PROVE  GatewayInv'
<1>1. PICK x : x = Raised("Unforeseen")
  OBVIOUS
<1>2. PICK changed \in BOOLEAN : changed = FALSE
  OBVIOUS
<1>3. ErrorBlame(x, cause, changed)
  BY <1>1, <1>2, ServersFault
<1>4. IsException(x)
  BY <1>1, ExceptionFacts
<1> QED
  BY <1>1, <1>2, <1>3, <1>4, RaiseInv

LEMMA BeforeInv == ASSUME GatewayInv, Authorize \/ RateLimit \/ ReadJson PROVE GatewayInv'
<1>1. phase = "serving" /\ Quiet /\ row' = row /\ ServicesFit(services')
  BY AsItWas DEF Authorize, RateLimit, ReadJson, At, client, world, Quiet
<1>2. WellFormed
  BY <1>1, AtStep
<1>3. {"none", "limited"} \subseteq Troubles
  BY DEF Troubles
<1>4. CASE Authorize
  <2>1. CASE request.token
    BY <1>1, <1>4, <2>1, ProceedInv DEF Authorize, At, Quiet
  <2>2. CASE ~request.token
    <3>1. FaultyRequest
      BY <2>2 DEF FaultyRequest
    <3>2. PICK x : x = Refused(401)
      OBVIOUS
    <3>3. Raise(x, FALSE, "none")
      BY <1>4, <2>2, <3>2 DEF Authorize
    <3>4. IsException(x) /\ StatusOf(x) = 401
      BY <3>2, ExceptionFacts
    <3>5. StatusOf(x) \in 400..499
      BY <3>4
    <3> QED
      BY <1>1, <3>1, <3>3, <3>4, <3>5, RaiseOnClient DEF Quiet
  <2> QED
    BY <1>2, <2>1, <2>2 DEF WellFormed
<1>5. CASE RateLimit
  <2>1. CASE Proceed
    BY <1>1, <1>5, <2>1, ProceedInv DEF RateLimit, At, Quiet
  <2>2. CASE Raise(Refused(429), FALSE, "limited")
    <3>1. PICK x : x = Refused(429)
      OBVIOUS
    <3>2. IsException(x) /\ x.sayable /\ StatusOf(x) = 429
      BY <3>1, ExceptionFacts
    <3>3. ErrorBlame(x, "limited", FALSE)
      BY <3>2 DEF ErrorBlame, BlameFor
    <3>4. PICK cause \in Troubles : cause = "limited"
      BY <1>3
    <3> QED
      BY <1>1, <2>2, <3>1, <3>2, <3>3, <3>4, RaiseEarly DEF Quiet
  <2> QED
    BY <1>5, <2>1, <2>2 DEF RateLimit
<1>6. CASE ReadJson
  <2>1. CASE request.form = "not_json"
    <3>1. FaultyRequest
      BY <2>1 DEF FaultyRequest
    <3>2. PICK x : x = Refused(400)
      OBVIOUS
    <3>3. Raise(x, FALSE, "none")
      BY <1>6, <2>1, <3>2 DEF ReadJson
    <3>4. IsException(x) /\ StatusOf(x) = 400
      BY <3>2, ExceptionFacts
    <3>5. StatusOf(x) \in 400..499
      BY <3>4
    <3> QED
      BY <1>1, <3>1, <3>3, <3>4, <3>5, RaiseOnClient DEF Quiet
  <2>2. CASE request.form \in {"bad_length", "not_utf8"}
    <3>1. OutsideContract
      BY <2>2 DEF OutsideContract
    <3>2. PICK cause \in Troubles : cause = "none"
      BY <1>3
    <3>3. Raise(Raised("Unforeseen"), FALSE, cause)
      BY <1>6, <2>2, <3>2 DEF ReadJson
    <3> QED
      BY <1>1, <3>1, <3>2, <3>3, RaiseOnServer DEF Quiet
  <2>3. CASE request.form \notin Unreadable
    <3>1. Proceed
      BY <1>6, <2>3 DEF ReadJson, Unreadable
    <3> QED
      BY <1>1, <1>6, <2>3, <3>1, ProceedInv DEF ReadJson, At, Quiet
  <2> QED
    BY <2>1, <2>2, <2>3 DEF Unreadable
<1> QED
  BY <1>4, <1>5, <1>6

LEMMA ServeInv == ASSUME GatewayInv, Serve PROVE GatewayInv'
<1>1. phase = "serving" /\ Head(todo) = "serve" /\ UNCHANGED <<request, tries, row>>
  BY DEF Serve, At, client
<1>2. ServicesFit(services)
  BY DEF GatewayInv, TypeOK, ServicesFit
<1>3. Needs(request.endpoint) \subseteq {"tasks", "planning"}
      /\ ("planning" \in Needs(request.endpoint) => "tasks" \in Needs(request.endpoint))
  BY DEF Needs
<1>4. ServicesFit(services')
  BY <1>2, <1>3 DEF Serve, ServicesFit
<1>5. CASE Proceed
  BY <1>1, <1>4, <1>5, ProceedInv
<1>6. CASE Raise(Raised("Unforeseen"), FALSE, "no_service")
  <2>1. PICK cause \in Troubles : cause = "no_service"
    BY DEF Troubles
  <2> QED
    BY <1>1, <1>4, <1>6, <2>1, RaiseOnServer
<1> QED
  BY <1>5, <1>6 DEF Serve

----------------------------------------------------------------------------
(* The handlers *)

\* What a handler can rely on: the request is whole and, but for the paths that
\* are open to all, comes with the token.
LEMMA AtHandle ==
  ASSUME GatewayInv, At("handle")
  PROVE  /\ phase = "serving" /\ WellFormed
         /\ request.endpoint \notin Open => request.token
         /\ request.form \in {"object", "not_object"}
<1>1. phase = "serving" /\ Head(todo) = "handle"
  BY DEF At
<1>2. /\ WellFormed
      /\ request.endpoint \notin Open => request.token
      /\ request.endpoint \in Posts \cup {"update"} => request.form \in {"object", "not_object"}
  BY <1>1, AtStep
<1> QED
  BY <1>1, <1>2 DEF WellFormed

\* An answer that says all went well and did nothing.
LEMMA RespondQuietly ==
  ASSUME GatewayInv, phase = "serving", Quiet, NEW code \in {200, 403, 404},
         Respond(code, FALSE), code # 200 => FaultyRequest
  PROVE  GatewayInv'
<1>1. RowMoves
  BY AsItWas DEF Quiet
<1>2. PICK changed \in BOOLEAN : changed = FALSE
  OBVIOUS
<1>3. Respond(code, changed) /\ ~changed
  BY <1>2
<1>4. code \in {200, 201, 204, 403, 404} /\ (code \in {403, 404} => FaultyRequest /\ ~changed)
  BY <1>3
<1>5. UNCHANGED <<request, tries, services>>
  BY DEF Quiet
<1> QED
  BY <1>1, <1>3, <1>4, <1>5, RespondInv

LEMMA RejectInv == ASSUME GatewayInv, Reject PROVE GatewayInv'
<1>1. /\ phase = "serving" /\ WellFormed /\ request.token
      /\ request.form \in {"object", "not_object"} /\ request.endpoint \in Posts \ Unserved
  BY AtHandle DEF Reject, Posts, Unserved, Open
<1>2. Quiet /\ ServicesFit(services')
  BY AsItWas DEF Reject, client, world, Quiet
<1>3. PICK none \in Troubles : none = "none"
  BY DEF Troubles
<1>4. CASE request.form = "not_object"
  <2>1. PICK x : x = NotAnObject(request.endpoint)
    OBVIOUS
  <2>2. FaultyRequest
    BY <1>4 DEF FaultyRequest
  <2>3. Raise(x, FALSE, none)
    BY <1>3, <1>4, <2>1 DEF Reject
  <2>4. \/ x = Raised("TaskAnalysisError")
        \/ x = Raised("TaskValidationError")
        \/ /\ x = Raised("Unforeseen")
           /\ request.endpoint \notin TaskEndpoints \cup PlanningEndpoints
    BY <1>1, <2>1 DEF NotAnObject, Posts, Unserved, TaskEndpoints, PlanningEndpoints
  <2>5. CASE x = Raised("TaskAnalysisError") \/ x = Raised("TaskValidationError")
    <3>1. StatusOf(x) \in 400..499
      BY <2>5, StatusFacts DEF Raised
    <3>2. IsException(x)
      BY <2>5, ExceptionFacts
    <3> QED
      BY <1>1, <1>2, <1>3, <2>2, <2>3, <3>1, <3>2, RaiseOnClient DEF Quiet
  <2>6. CASE /\ x = Raised("Unforeseen")
             /\ request.endpoint \notin TaskEndpoints \cup PlanningEndpoints
    BY <1>1, <1>2, <1>3, <2>3, <2>6, RaiseOnServer DEF Quiet
  <2> QED
    BY <2>4, <2>5, <2>6
<1>5. CASE request.form = "object"
  <2>1. PICK x : x = FaultError(request.endpoint, request.fault)
    OBVIOUS
  <2>2. /\ request.endpoint \in {"chat", "route", "simulate", "create"}
        /\ "fault" \in DOMAIN request /\ request.fault \in FaultsOf(request.endpoint)
        /\ request.fault # "none"
        /\ Raise(x, FALSE, none)
    BY <1>1, <1>3, <1>5, <2>1 DEF Reject, WellFormed, Posts, Unserved
  <2>3. FaultyRequest
    BY <2>2 DEF FaultyRequest
  <2>4. \/ x \in {Refused(400), Refused(403), Raised("TaskValidationError")}
        \/ x = Unsayable("TaskValidationError")
        \/ x = Raised("Unforeseen") /\ (request.endpoint \in {"chat", "route", "simulate"}
                                         \/ request.fault \notin {"none", "invalid"})
    BY <2>1, <2>2 DEF FaultError, FaultsOf
  <2>5. CASE x \in {Refused(400), Refused(403), Raised("TaskValidationError")}
    <3>1. StatusOf(x) \in 400..499
      BY <2>5, StatusFacts DEF Raised, Refused
    <3>2. IsException(x)
      BY <2>5, ExceptionFacts
    <3> QED
      BY <1>1, <1>2, <1>3, <2>2, <2>3, <3>1, <3>2, RaiseOnClient DEF Quiet
  <2>6. CASE x = Unsayable("TaskValidationError")
    <3>1. IsException(x) /\ ~x.sayable
      BY <2>6, ExceptionFacts
    <3>2. ErrorBlame(x, none, FALSE)
      BY <2>3, <3>1 DEF ErrorBlame
    <3> QED
      BY <1>1, <1>2, <2>2, <3>1, <3>2, RaiseEarly DEF Quiet
  <2>7. CASE x = Raised("Unforeseen") /\ request.endpoint \in {"chat", "route", "simulate"}
    <3>1. request.endpoint \notin TaskEndpoints \cup PlanningEndpoints
      BY <2>7 DEF TaskEndpoints, PlanningEndpoints
    <3> QED
      BY <1>1, <1>2, <1>3, <2>2, <2>7, <3>1, RaiseOnServer DEF Quiet
  <2>8. CASE x = Raised("Unforeseen") /\ request.fault \notin {"none", "invalid"}
    <3>1. OutsideContract
      BY <2>2, <2>8 DEF OutsideContract
    <3> QED
      BY <1>1, <1>2, <1>3, <2>2, <2>8, <3>1, RaiseOnServer DEF Quiet
  <2> QED
    BY <2>4, <2>5, <2>6, <2>7, <2>8
<1> QED
  BY <1>1, <1>4, <1>5

\* An answer that says it was done, of a request that may be sent again.
LEMMA RespondDone ==
  ASSUME GatewayInv, phase = "serving", Quiet, NEW code \in {200, 201},
         Respond(code, TRUE), request.endpoint \notin {"update", "delete"}
  PROVE  GatewayInv'
<1>1. RowMoves
  BY AsItWas DEF Quiet
<1>2. PICK changed \in BOOLEAN : changed = TRUE
  OBVIOUS
<1>3. Respond(code, changed)
  BY <1>2
<1>4. ~OneShot
  BY DEF OneShot
<1>5. UNCHANGED <<request, tries, services>> /\ code \in {200, 201, 204, 403, 404}
      /\ code \notin {403, 404}
  BY DEF Quiet
<1> QED
  BY <1>1, <1>3, <1>4, <1>5, RespondInv

\* The database is busy, and says so before anything is done.
LEMMA BusyInv ==
  ASSUME GatewayInv, phase = "serving", DatabaseBusy,
         UNCHANGED <<request, tries, row, services>>
  PROVE  GatewayInv'
<1>1. PICK cause \in Troubles : cause = "busy"
  BY DEF Troubles
<1>2. ServicesFit(services')
  BY AsItWas
<1> QED
  BY <1>1, <1>2, RaiseOnServer DEF DatabaseBusy

\* The state of the task is the reason, and nobody's fault.
LEMMA RaiseOnState ==
  ASSUME GatewayInv, phase = "serving", NEW x, NEW cause \in {"gone", "conflict", "not_allowed"},
         Raise(x, FALSE, cause), UNCHANGED <<request, tries, row, services>>,
         x \in {Raised("TaskNotFound"), Raised("TaskPlanNotFound"), Raised("TaskConflict"),
                Raised("TaskValidationError")}
  PROVE  GatewayInv'
<1>1. IsException(x) /\ x.sayable
  BY ExceptionFacts
<1>2. StatusOf(x) \in {400, 404, 409}
  BY StatusFacts DEF Raised
<1>3. ErrorBlame(x, cause, FALSE)
  BY <1>1, <1>2 DEF ErrorBlame, BlameFor
<1>4. cause \in Troubles
  BY DEF Troubles
<1>5. ServicesFit(services')
  BY AsItWas
<1> QED
  BY <1>1, <1>3, <1>4, <1>5, RaiseEarly

LEMMA DispatchInv == ASSUME GatewayInv, Dispatch \/ Simulate \/ Look PROVE GatewayInv'
<1>1. phase = "serving" /\ Quiet
  BY DEF Dispatch, Simulate, Look, Sound, To, At, client, world, Quiet
<1>2. CASE Dispatch
  <2>1. request.endpoint \in Dispatches
    BY <1>2 DEF Dispatch, Sound, To
  <2>2. /\ request.endpoint \notin {"update", "delete"}
        /\ request.endpoint \notin TaskEndpoints \cup PlanningEndpoints
    BY <2>1 DEF Dispatches, TaskEndpoints, PlanningEndpoints
  <2>3. CASE Respond(200, TRUE)
    <3>1. PICK code \in {200, 201} : code = 200
      OBVIOUS
    <3> QED
      BY <1>1, <2>2, <2>3, <3>1, RespondDone
  <2>4. ASSUME NEW changed \in BOOLEAN, Raise(Raised("Unforeseen"), changed, "broke_off")
        PROVE  GatewayInv'
    <3>1. PICK x : x = Raised("Unforeseen")
      OBVIOUS
    <3>2. PICK cause \in Troubles : cause = "broke_off"
      BY DEF Troubles
    <3>3. ErrorBlame(x, cause, changed) /\ IsException(x)
      BY <2>2, <3>1, <3>2, ServersFault, ExceptionFacts
    <3>4. changed => cause \in Excuses /\ request.endpoint \notin {"delete", "update"}
      BY <2>2, <3>2 DEF Excuses
    <3>5. ServicesFit(services') /\ UNCHANGED <<request, tries, row>>
      BY <1>1, AsItWas DEF Quiet
    <3>6. Raise(x, changed, cause)
      BY <2>4, <3>1, <3>2
    <3> QED
      BY <1>1, <3>3, <3>4, <3>5, <3>6, RaiseInv
  <2> QED
    BY <1>2, <2>3, <2>4 DEF Dispatch
<1>3. CASE Simulate
  <2>1. PICK code \in {200, 403, 404} : code = 200
    OBVIOUS
  <2>2. Respond(code, FALSE)
    BY <1>3, <2>1 DEF Simulate
  <2> QED
    BY <1>1, <2>1, <2>2, RespondQuietly
<1>4. CASE Look
  <2>1. CASE Respond(200, FALSE)
    <3>1. PICK code \in {200, 403, 404} : code = 200
      OBVIOUS
    <3> QED
      BY <1>1, <2>1, <3>1, RespondQuietly
  <2>2. CASE To("page") /\ \E code \in {200, 403, 404} : Respond(code, FALSE)
    <3>1. FaultyRequest
      BY <2>2 DEF To, FaultyRequest
    <3>2. PICK code \in {200, 403, 404} : Respond(code, FALSE)
      BY <2>2
    <3> QED
      BY <1>1, <3>1, <3>2, RespondQuietly
  <2>3. CASE (\E endpoint \in Unserved : To(endpoint)) /\ Respond(404, FALSE)
    <3>1. FaultyRequest
      BY <2>3 DEF To, FaultyRequest
    <3>2. PICK code \in {200, 403, 404} : code = 404
      OBVIOUS
    <3>3. Respond(code, FALSE)
      BY <2>3, <3>2
    <3> QED
      BY <1>1, <3>1, <3>2, <3>3, RespondQuietly
  <2> QED
    BY <1>4, <2>1, <2>2, <2>3 DEF Look
<1> QED
  BY <1>2, <1>3, <1>4

LEMMA LookUpInv == ASSUME GatewayInv, LookUp PROVE GatewayInv'
<1>1. phase = "serving" /\ Quiet /\ request.endpoint \in {"tasks", "task", "plan"}
  BY DEF LookUp, To, At, client, world, Quiet
<1>2. CASE Respond(200, FALSE)
  <2>1. PICK code \in {200, 403, 404} : code = 200
    OBVIOUS
  <2> QED
    BY <1>1, <1>2, <2>1, RespondQuietly
<1>3. CASE DatabaseBusy
  BY <1>1, <1>3, BusyInv DEF Quiet
<1>4. CASE Raise(Raised("TaskNotFound"), FALSE, "gone")
           \/ Raise(Raised("TaskPlanNotFound"), FALSE, "gone")
  <2>1. PICK x : /\ x \in {Raised("TaskNotFound"), Raised("TaskPlanNotFound")}
                 /\ Raise(x, FALSE, "gone")
    BY <1>4
  <2>2. PICK cause \in {"gone", "conflict", "not_allowed"} : cause = "gone"
    OBVIOUS
  <2> QED
    BY <1>1, <2>1, <2>2, RaiseOnState DEF Quiet
<1>5. CASE /\ To("plan") /\ request.fault = "bad_id"
           /\ Raise(Raised("Unforeseen"), FALSE, "none")
  <2>1. "fault" \in DOMAIN request
    <3>1. WellFormed /\ request.token
      BY <1>1, <1>5, AtHandle DEF To, Open
    <3>2. request.form = "object"
      BY <1>1, <3>1 DEF WellFormed, Posts
    <3> QED
      BY <1>1, <3>1, <3>2 DEF WellFormed
  <2>2. OutsideContract
    BY <1>5, <2>1 DEF OutsideContract
  <2>3. PICK cause \in Troubles : cause = "none"
    BY DEF Troubles
  <2>4. ServicesFit(services')
    BY <1>1, AsItWas DEF Quiet
  <2> QED
    BY <1>1, <1>5, <2>2, <2>3, <2>4, RaiseOnServer DEF Quiet
<1>6. CASE Raise(Raised("Unforeseen"), FALSE, "disk")
  <2>1. PICK cause \in Troubles : cause = "disk"
    BY DEF Troubles
  <2>2. ServicesFit(services')
    BY <1>1, AsItWas DEF Quiet
  <2> QED
    BY <1>1, <1>6, <2>1, <2>2, RaiseOnServer DEF Quiet
<1> QED
  BY <1>2, <1>3, <1>4, <1>5, <1>6 DEF LookUp

LEMMA AnalyzeInv == ASSUME GatewayInv, Analyze PROVE GatewayInv'
<1>1. phase = "serving" /\ UNCHANGED <<request, tries, row, services>> /\ ServicesFit(services')
  BY AsItWas DEF Analyze, To, At, client
<1>2. request.endpoint = "analyze" /\ request.form = "object" /\ "ask" \in DOMAIN request
  <2>1. request.endpoint = "analyze" /\ request.form = "object" /\ At("handle")
    BY DEF Analyze, To
  <2> QED
    BY <2>1, AtHandle DEF WellFormed, Open
<1>3. CASE ~GoalAccepted(request.ask)
  <2>1. FaultyRequest
    BY <1>2, <1>3 DEF FaultyRequest
  <2>2. PICK x : x = Raised("TaskAnalysisError")
    OBVIOUS
  <2>3. Raise(x, FALSE, "none")
    BY <1>3, <2>2 DEF Analyze
  <2>4. IsException(x) /\ StatusOf(x) \in 400..499
    BY <2>2, ExceptionFacts, StatusFacts DEF Raised
  <2> QED
    BY <1>1, <2>1, <2>3, <2>4, RaiseOnClient
\* The planner is to blame, and the client is not.
<1>4. ASSUME NEW x, NEW cause, Raise(x, FALSE, cause),
             \/ x = Raised("TaskPlannerUnavailable") /\ cause = "unavailable"
             \/ x = Raised("TaskPlanningFailed") /\ cause \in {"no_reply", "bad_reply"}
      PROVE  GatewayInv'
  <2>1. IsException(x) /\ x.sayable
    BY <1>4, ExceptionFacts
  <2>2. StatusOf(x) = IF cause = "unavailable" THEN 503 ELSE 502
    BY <1>4, StatusFacts DEF Raised
  <2>3. ErrorBlame(x, cause, FALSE)
    BY <1>4, <2>1, <2>2 DEF ErrorBlame, BlameFor
  <2>4. cause \in Troubles
    BY <1>4 DEF Troubles
  <2> QED
    BY <1>1, <1>4, <2>1, <2>3, <2>4, RaiseEarly
<1>5. CASE Raise(Raised("TaskPlannerUnavailable"), FALSE, "unavailable")
           \/ Raise(Raised("TaskPlanningFailed"), FALSE, "no_reply")
           \/ Raise(Raised("TaskPlanningFailed"), FALSE, "bad_reply")
  <2>1. PICK x, cause : /\ Raise(x, FALSE, cause)
                        /\ \/ x = Raised("TaskPlannerUnavailable") /\ cause = "unavailable"
                           \/ x = Raised("TaskPlanningFailed") /\ cause \in {"no_reply", "bad_reply"}
    BY <1>5
  <2> QED
    BY <1>4, <2>1
<1>6. CASE Raise(Raised("Unforeseen"), FALSE, "bad_reply")
  <2>1. PICK cause \in Troubles : cause = "bad_reply"
    BY DEF Troubles
  <2> QED
    BY <1>1, <1>6, <2>1, RaiseOnServer
<1>7. CASE Respond(200, FALSE)
  <2>1. PICK code \in {200, 403, 404} : code = 200
    OBVIOUS
  <2> QED
    BY <1>1, <1>7, <2>1, RespondQuietly DEF Quiet
<1> QED
  BY <1>3, <1>5, <1>6, <1>7 DEF Analyze

LEMMA ConfirmInv == ASSUME GatewayInv, Confirm PROVE GatewayInv'
<1>1. phase = "serving" /\ UNCHANGED <<request, tries, row, services>> /\ ServicesFit(services')
  BY AsItWas DEF Confirm, To, At, client
<1>2. request.endpoint = "confirm" /\ request.form = "object" /\ "analysis" \in DOMAIN request
  <2>1. request.endpoint = "confirm" /\ request.form = "object" /\ At("handle")
    BY DEF Confirm, To
  <2> QED
    BY <2>1, AtHandle DEF WellFormed, Open
<1>3. ASSUME NEW x, x \in {Raised("TaskAnalysisError"), Unsayable("TaskAnalysisError")},
             Raise(x, FALSE, "none"),
             request.analysis = Wrong \/ ~ValidAnalysis(request.analysis)
      PROVE  GatewayInv'
  <2>1. FaultyRequest
    BY <1>2, <1>3 DEF FaultyRequest
  <2>2. IsException(x)
    BY <1>3, ExceptionFacts
  <2>3. CASE x = Raised("TaskAnalysisError")
    <3>1. StatusOf(x) \in 400..499
      BY <2>3, StatusFacts DEF Raised
    <3> QED
      BY <1>1, <1>3, <2>1, <2>2, <3>1, RaiseOnClient
  <2>4. CASE x = Unsayable("TaskAnalysisError")
    <3>1. ~x.sayable
      BY <2>4, ExceptionFacts
    <3>2. PICK cause \in Troubles : cause = "none"
      BY DEF Troubles
    <3>3. ErrorBlame(x, cause, FALSE)
      BY <2>1, <3>1 DEF ErrorBlame
    <3> QED
      BY <1>1, <1>3, <2>2, <3>2, <3>3, RaiseEarly
  <2> QED
    BY <1>3, <2>3, <2>4
<1>4. CASE /\ request.analysis # Wrong /\ ValidAnalysis(request.analysis)
           /\ ~Hashable(request.analysis) /\ Raise(Raised("Unforeseen"), FALSE, "none")
  <2>1. OutsideContract
    BY <1>2, <1>4 DEF OutsideContract
  <2>2. PICK cause \in Troubles : cause = "none"
    BY DEF Troubles
  <2> QED
    BY <1>1, <1>4, <2>1, <2>2, RaiseOnServer
<1>5. CASE Respond(201, TRUE)
  <2>1. PICK code \in {200, 201} : code = 201
    OBVIOUS
  <2> QED
    BY <1>1, <1>2, <1>5, <2>1, RespondDone DEF Quiet
<1>6. CASE DatabaseBusy
  BY <1>1, <1>6, BusyInv
\* A plan that could not be written; the client is told the kind of failure.
<1>7. CASE SaveFails
  <2>1. ASSUME NEW x, NEW cause, NEW changed \in BOOLEAN, Raise(x, changed, cause),
               x \in {Raised("Unforeseen"), Raised("TaskNotFound"), Raised("TaskConflict")},
               \/ cause = "disk" /\ ~changed
               \/ cause = "kept" /\ changed
        PROVE  GatewayInv'
    <3>1. IsException(x) /\ x.sayable
      BY <2>1, ExceptionFacts
    <3>2. StatusOf(x) \in {404, 409, 500}
      BY <2>1, StatusFacts DEF Raised
    <3>3. ErrorBlame(x, cause, changed)
      BY <1>2, <2>1, <3>1, <3>2 DEF ErrorBlame, BlameFor
    <3>4. cause \in Troubles /\ (changed => cause \in Excuses)
      BY <2>1 DEF Troubles, Excuses
    <3> QED
      BY <1>1, <1>2, <2>1, <3>1, <3>3, <3>4, RaiseInv
  <2>2. CASE Raise(Raised("Unforeseen"), FALSE, "disk")
             \/ Raise(Raised("TaskNotFound"), FALSE, "disk")
    <3>1. PICK x \in {Raised("Unforeseen"), Raised("TaskNotFound")} : Raise(x, FALSE, "disk")
      BY <2>2
    <3>2. PICK changed \in BOOLEAN : changed = FALSE
      OBVIOUS
    <3>3. Raise(x, changed, "disk") /\ ~changed
      BY <3>1, <3>2
    <3> QED
      BY <2>1, <3>3
  <2>3. CASE \E class \in {"TaskConflict", "Unforeseen"} : Raise(Raised(class), TRUE, "kept")
    <3>1. PICK x \in {Raised("Unforeseen"), Raised("TaskConflict")} : Raise(x, TRUE, "kept")
      BY <2>3
    <3>2. PICK changed \in BOOLEAN : changed = TRUE
      OBVIOUS
    <3>3. Raise(x, changed, "kept") /\ changed
      BY <3>1, <3>2
    <3> QED
      BY <2>1, <3>3
  <2> QED
    BY <1>7, <2>2, <2>3 DEF SaveFails
<1>8. CASE request.analysis = Wrong
  <2>1. PICK x : x = Raised("TaskAnalysisError")
    OBVIOUS
  <2>2. Raise(x, FALSE, "none")
    BY <1>8, <2>1 DEF Confirm
  <2> QED
    BY <1>3, <1>8, <2>1, <2>2
<1>9. CASE request.analysis # Wrong /\ ~ValidAnalysis(request.analysis)
  <2>1. PICK x : x = IF UnsayableError(request.analysis) THEN Unsayable("TaskAnalysisError")
                     ELSE Raised("TaskAnalysisError")
    OBVIOUS
  <2>2. Raise(x, FALSE, "none")
    BY <1>9, <2>1 DEF Confirm
  <2> QED
    BY <1>3, <1>9, <2>1, <2>2
<1> QED
  BY <1>4, <1>5, <1>6, <1>7, <1>8, <1>9 DEF Confirm

LEMMA CreateInv == ASSUME GatewayInv, Create PROVE GatewayInv'
<1>1. phase = "serving" /\ Quiet /\ request.endpoint = "create"
  BY DEF Create, Sound, To, At, client, world, Quiet
<1>2. CASE Respond(201, TRUE)
  <2>1. PICK code \in {200, 201} : code = 201
    OBVIOUS
  <2> QED
    BY <1>1, <1>2, <2>1, RespondDone
<1>3. CASE DatabaseBusy
  BY <1>1, <1>3, BusyInv DEF Quiet
<1> QED
  BY <1>2, <1>3 DEF Create

LEMMA UpdateInv == ASSUME GatewayInv, Update PROVE GatewayInv'
<1>1. phase = "serving" /\ UNCHANGED <<request, tries, services>>
  BY DEF Update, To, At, client
<1>2. /\ request.endpoint = "update" /\ WellFormed /\ request.token
      /\ request.form \in {"object", "not_object"}
  <2>1. request.endpoint = "update" /\ At("handle")
    BY DEF Update, To
  <2> QED
    BY <2>1, AtHandle DEF Open
<1>3. ServicesFit(services')
  BY <1>1 DEF GatewayInv, TypeOK, ServicesFit
<1>4. request.form = "object" =>
        /\ "fault" \in DOMAIN request /\ request.fault \in FaultsOf("update")
        /\ request.version \in NoVersion..MaxVersion
  BY <1>2 DEF WellFormed
<1>5. row \in Nat /\ row \in 0..MaxVersion /\ MaxVersion \in Nat
  BY GatewayAssumption DEF GatewayInv, TypeOK
<1>6. ASSUME NEW x, NEW cause, Raise(x, FALSE, cause), row' = row,
             x \in {Raised("TaskNotFound"), Raised("TaskConflict"), Raised("TaskValidationError")},
             cause \in {"gone", "conflict", "not_allowed"}
      PROVE  GatewayInv'
  BY <1>1, <1>6, RaiseOnState
<1>7. CASE row' = row /\ DatabaseBusy
  BY <1>1, <1>7, BusyInv
<1>8. CASE row' = row /\ Raise(Raised("TaskNotFound"), FALSE, "gone")
  BY <1>6, <1>8
<1>9. CASE row' = row /\ Raise(Raised("TaskConflict"), FALSE, "conflict")
  BY <1>6, <1>9
<1>10. CASE row' = row /\ Raise(Raised("TaskValidationError"), FALSE, "not_allowed")
  BY <1>6, <1>10
<1>11. CASE /\ request.form = "not_object" /\ row' = row
            /\ Raise(NotAnObject("update"), FALSE, "none")
  <2>1. PICK x : x = Raised("TaskValidationError")
    OBVIOUS
  <2>2. Raise(x, FALSE, "none")
    BY <1>11, <2>1 DEF NotAnObject
  <2>3. FaultyRequest
    BY <1>11 DEF FaultyRequest
  <2>4. IsException(x) /\ StatusOf(x) \in 400..499
    BY <2>1, ExceptionFacts, StatusFacts DEF Raised
  <2> QED
    BY <1>1, <1>3, <1>11, <2>2, <2>3, <2>4, RaiseOnClient
<1>12. CASE /\ request.form = "object" /\ request.fault # "none" /\ row' = row
            /\ Raise(FaultError("update", request.fault), FALSE, "none")
  <2>1. PICK x : x = FaultError("update", request.fault)
    OBVIOUS
  <2>2. Raise(x, FALSE, "none") /\ FaultyRequest
    BY <1>4, <1>12, <2>1 DEF FaultyRequest
  <2>3. \/ x = Raised("TaskValidationError")
        \/ x = Unsayable("TaskValidationError")
        \/ x = Raised("Unforeseen") /\ request.fault \notin {"none", "invalid"}
    BY <1>4, <1>12, <2>1 DEF FaultError, FaultsOf, Dispatches
  <2>4. PICK none \in Troubles : none = "none"
    BY DEF Troubles
  <2>5. CASE x = Raised("TaskValidationError")
    <3>1. IsException(x) /\ StatusOf(x) \in 400..499
      BY <2>5, ExceptionFacts, StatusFacts DEF Raised
    <3> QED
      BY <1>1, <1>3, <1>12, <2>2, <3>1, RaiseOnClient
  <2>6. CASE x = Unsayable("TaskValidationError")
    <3>1. IsException(x) /\ ~x.sayable
      BY <2>6, ExceptionFacts
    <3>2. ErrorBlame(x, none, FALSE)
      BY <2>2, <3>1 DEF ErrorBlame
    <3> QED
      BY <1>1, <1>3, <1>12, <2>2, <2>4, <3>1, <3>2, RaiseEarly
  <2>7. CASE x = Raised("Unforeseen") /\ request.fault \notin {"none", "invalid"}
    <3>1. OutsideContract
      BY <1>4, <1>12, <2>7 DEF OutsideContract
    <3> QED
      BY <1>1, <1>3, <1>12, <2>2, <2>4, <2>7, <3>1, RaiseOnServer
  <2> QED
    BY <2>3, <2>5, <2>6, <2>7
<1>13. CASE /\ row \in 1..(MaxVersion - 1) /\ request.form = "object"
            /\ VersionAccepted(request.version) /\ row' = row + 1 /\ Respond(200, TRUE)
  <2>1. RowMoves
    BY <1>5, <1>13 DEF RowMoves, Gone
  <2>2. OneShot => ~Spent /\ Spent'
    <3> SUFFICES ASSUME OneShot PROVE ~Spent /\ Spent'
      OBVIOUS
    <3>1. request.version = row
      BY <1>2, <1>13 DEF OneShot, VersionAccepted
    <3> QED
      BY <1>1, <1>2, <1>5, <1>13, <3>1 DEF Spent, Gone
  <2>3. PICK code \in {200, 201, 204, 403, 404} : code = 200
    OBVIOUS
  <2>4. PICK changed \in BOOLEAN : changed = TRUE
    OBVIOUS
  <2>5. Respond(code, changed)
    BY <1>13, <2>3, <2>4
  <2>6. code \notin {403, 404}
    BY <2>3
  <2> QED
    BY <1>1, <1>2, <1>13, <2>1, <2>2, <2>5, <2>6, RespondInv
<1>14. CASE /\ row # Gone /\ row' = row
            /\ IF request.form = "not_object" THEN Raise(NotAnObject("update"), FALSE, "none")
               ELSE IF ~VersionAccepted(request.version)
               THEN Raise(Raised("TaskConflict"), FALSE, "conflict")
               ELSE IF request.fault # "none"
               THEN Raise(FaultError("update", request.fault), FALSE, "none")
               ELSE \/ Raise(Raised("TaskValidationError"), FALSE, "not_allowed")
                    \/ Raise(Raised("TaskConflict"), FALSE, "conflict")
  BY <1>2, <1>9, <1>10, <1>11, <1>12, <1>14
<1> QED
  BY <1>7, <1>8, <1>13, <1>14 DEF Update

LEMMA DeleteInv == ASSUME GatewayInv, Delete PROVE GatewayInv'
<1>1. phase = "serving" /\ UNCHANGED <<request, tries, services>> /\ request.endpoint = "delete"
  BY DEF Delete, To, At, client
<1>2. CASE row' = row /\ DatabaseBusy
  BY <1>1, <1>2, BusyInv
<1>3. ASSUME NEW x, NEW cause, Raise(x, FALSE, cause), row' = row,
             x \in {Raised("TaskNotFound"), Raised("TaskConflict")},
             cause \in {"gone", "conflict"}
      PROVE  GatewayInv'
  BY <1>1, <1>3, RaiseOnState
<1>4. CASE row' = row /\ Raise(Raised("TaskNotFound"), FALSE, "gone")
  BY <1>3, <1>4
<1>5. CASE row' = row /\ Raise(Raised("TaskConflict"), FALSE, "conflict")
  BY <1>3, <1>5
<1>6. CASE row # Gone /\ row' = Gone /\ Respond(204, TRUE)
  <2>1. RowMoves
    BY <1>6, GatewayAssumption DEF RowMoves, Gone
  <2>2. ~Spent /\ Spent'
    BY <1>1, <1>6 DEF Spent
  <2>3. PICK code \in {200, 201, 204, 403, 404} : code = 204
    OBVIOUS
  <2>4. PICK changed \in BOOLEAN : changed = TRUE
    OBVIOUS
  <2>5. Respond(code, changed)
    BY <1>6, <2>3, <2>4
  <2>6. code \notin {403, 404}
    BY <2>3
  <2> QED
    BY <1>1, <2>1, <2>2, <2>5, <2>6, RespondInv
<1> QED
  BY <1>2, <1>4, <1>5, <1>6 DEF Delete

\* The status follows from the exception, or nothing can be said.
LEMMA SafeErrorInv == ASSUME GatewayInv, SafeError PROVE GatewayInv'
<1>1. /\ phase = "raised" /\ phase' \in {"answering", "closed"}
      /\ UNCHANGED <<request, tries, row, services, todo, error, effect, trouble>>
  BY DEF SafeError, client, world
<1>2. IsException(error)
  BY <1>1 DEF GatewayInv, TypeOK, Orderly, IsException
<1>3. IF error.sayable THEN phase' = "answering" /\ status' = StatusOf(error)
      ELSE phase' = "closed" /\ status' = status
  BY DEF SafeError
<1>4. StatusOf(error) \in Statuses /\ StatusOf(error) # 0
  BY <1>2, StatusKnown
<1>5. ErrorBlame(error, trouble, effect)
  BY <1>1 DEF GatewayInv, BlameToCome
<1>6. TypeOK'
  BY <1>1, <1>3, <1>4 DEF GatewayInv, TypeOK
<1>7. Orderly'
  <2>1. WellFormed'
    BY <1>1, SameRequest DEF GatewayInv, Orderly
  <2> QED
    BY <1>1, <2>1 DEF GatewayInv, Orderly, Busy
<1>8. BlameToCome'
  <2>1. CASE error.sayable
    <3>1. BlameFor(status', trouble, effect)
      BY <1>3, <1>5, <2>1 DEF ErrorBlame
    <3> QED
      BY <1>1, <1>3, <2>1, <3>1, SameRequest DEF BlameToCome
  <2>2. CASE ~error.sayable
    <3>1. FaultyRequest /\ ~effect
      BY <1>5, <2>2 DEF ErrorBlame
    <3> QED
      BY <1>1, <1>3, <2>2, <3>1, SameRequest DEF BlameToCome
  <2> QED
    BY <2>1, <2>2
<1>9. EffectsExplained'
  BY <1>1 DEF GatewayInv, EffectsExplained, Busy
<1>10. OneShotsAreSpent'
  <2>1. OneShot' = OneShot /\ Spent' = Spent /\ Done' = Done
    BY <1>1, SameRequest DEF Spent, Done, Busy
  <2> QED
    BY <1>1, <2>1 DEF GatewayInv, OneShotsAreSpent, Busy
<1> QED
  BY <1>6, <1>7, <1>8, <1>9, <1>10 DEF GatewayInv

----------------------------------------------------------------------------
(* The connection, the process, the other clients, and the next try *)

LEMMA OverInv == ASSUME GatewayInv, Deliver \/ Lose \/ Restart PROVE GatewayInv'
<1>1. ServicesFit(services')
  <2>1. ServicesFit(services) /\ ServicesFit({})
    BY DEF GatewayInv, TypeOK, ServicesFit
  <2>2. services' = services \/ services' = {}
    BY DEF Deliver, Lose, Restart
  <2> QED
    BY <2>1, <2>2
<1>2. PICK delivered \in BOOLEAN : Ends(delivered) /\ (delivered => phase = "answering")
  <2>1. CASE Deliver
    BY <2>1 DEF Deliver
  <2>2. CASE Lose \/ Restart
    BY <2>2 DEF Lose, Restart
  <2> QED
    BY <2>1, <2>2
<1>3. phase \in Busy
  BY DEF Deliver, Lose, Restart, Busy
<1> QED
  BY <1>1, <1>2, <1>3, EndsInv

LEMMA OtherClientsInv == ASSUME GatewayInv, OtherClients PROVE GatewayInv'
<1>1. /\ phase \in {"serving", "over"} /\ row # Gone
      /\ row' \in {Gone} \cup ({row + 1} \cap 1..MaxVersion)
      /\ UNCHANGED <<phase, request, tries, todo, error, status, effect, trouble, services>>
  BY DEF OtherClients, client
<1>2. RowMoves
  BY <1>1, GatewayAssumption DEF RowMoves, Gone, GatewayInv, TypeOK
<1>3. TypeOK'
  BY <1>1, <1>2 DEF GatewayInv, TypeOK, RowMoves
<1>4. Orderly'
  <2>1. WellFormed' = WellFormed
    BY <1>1, SameRequest
  <2>2. StepsLeft' = StepsLeft
    BY <1>1 DEF StepsLeft
  <2> QED
    BY <1>1, <2>1, <2>2 DEF GatewayInv, Orderly
<1>5. BlameToCome' /\ EffectsExplained'
  BY <1>1 DEF GatewayInv, BlameToCome, EffectsExplained
<1>6. OneShotsAreSpent'
  <2>1. OneShot' = OneShot /\ Done' = Done
    BY <1>1, SameRequest DEF Done
  <2>2. OneShot /\ Spent => Spent'
    BY <1>1, <1>2, SpentStays
  <2> QED
    BY <1>1, <2>1, <2>2 DEF GatewayInv, OneShotsAreSpent
<1> QED
  BY <1>3, <1>4, <1>5, <1>6 DEF GatewayInv

\* A handler that begins has all its steps before it.
LEMMA Begins ==
  ASSUME Serving, request'.endpoint \in Endpoints
  PROVE  StepsLeft' /\ todo' \in Seq(StepNames)
<1> DEFINE steps == Steps(request'.endpoint)
<1>1. todo' = steps
  BY DEF Serving
<1>2. steps \in Seq(StepNames) /\ Len(steps) \in 1..5
  BY StepsFacts
<1>3. steps = SubSeq(steps, 1, Len(steps))
  <2> HIDE DEF steps
  <2> QED
    BY <1>2, SubSeqFull
<1>4. 1 \in 1..Len(steps)
  <2>1. PICK n : n = Len(steps)
    OBVIOUS
  <2>2. n \in 1..5
    BY <1>2, <2>1
  <2>3. 1 \in 1..n
    BY <2>2
  <2> QED
    BY <2>1, <2>3
<1>5. ~(\E k \in 1..(1 - 1) : steps[k] = "read")
  OBVIOUS
<1> QED
  BY <1>1, <1>2, <1>3, <1>4, <1>5 DEF StepsLeft

\* A try that begins has done nothing, and nothing has gone wrong in it.
LEMMA ServingInv ==
  ASSUME GatewayInv, Serving, WellFormed', tries' \in Seq(Try), Len(tries') < MaxTries,
         EffectsExplained', OneShotsAreSpent'
  PROVE  GatewayInv'
<1>1. /\ phase' = "serving" /\ status' = 0 /\ effect' = FALSE /\ trouble' = "none"
      /\ UNCHANGED <<row, services>>
  BY DEF Serving
<1>2. request'.endpoint \in Endpoints
  BY DEF WellFormed
<1>3. StepsLeft' /\ todo' \in Seq(StepNames)
  BY <1>2, Begins
<1>4. Len(tries') <= MaxTries
  BY LenProperties, GatewayAssumption
<1>5. TypeOK'
  BY <1>1, <1>2, <1>3, <1>4 DEF GatewayInv, TypeOK, StepNames, Troubles
<1>6. Orderly'
  BY <1>1, <1>2, <1>3 DEF Orderly
<1>7. BlameToCome'
  BY <1>1 DEF BlameToCome
<1> QED
  BY <1>5, <1>6, <1>7 DEF GatewayInv

LEMMA SendInv == ASSUME GatewayInv, Send PROVE GatewayInv'
<1>1. tries' = <<>> /\ Serving /\ phase' = "serving" /\ effect' = FALSE
  BY DEF Send, Serving
<1>2. WellFormed'
  <2>1. CASE \E endpoint \in Endpoints : request' = Request(endpoint, FALSE, "object")
    BY <2>1 DEF Request, WellFormed, Forms
  <2>2. CASE \E endpoint \in Posts \cup {"update"}, form \in Unreadable \cup {"not_object"} :
               request' = Request(endpoint, TRUE, form)
    BY <2>2 DEF Request, WellFormed, Forms, Unreadable, Endpoints, TaskEndpoints
  <2>3. CASE \E goal \in Goals : request' = Asking(goal)
    BY <2>3 DEF Asking, WellFormed, Forms, Endpoints, Posts
  <2>4. CASE \E analysis \in Analyses \cup {preview} : request' = Confirming(analysis)
    BY <2>4 DEF Confirming, WellFormed, Forms, Endpoints, Posts
  <2>5. ASSUME NEW endpoint \in Endpoints \ {"analyze", "confirm"},
               NEW fault \in FaultsOf(endpoint),
               NEW version \in IF endpoint = "update" THEN NoVersion..MaxVersion ELSE {NoVersion},
               request' = With(endpoint, fault, version)
        PROVE  WellFormed'
    <3>1. version \in NoVersion..MaxVersion
      BY GatewayAssumption DEF NoVersion
    <3>2. /\ request'.endpoint = endpoint /\ request'.token = TRUE /\ request'.form = "object"
          /\ "fault" \in DOMAIN request' /\ request'.fault = fault
          /\ request'.version = version
      BY <2>5 DEF With
    <3> QED
      BY <3>1, <3>2 DEF WellFormed, Forms
  <2> QED
    BY <2>1, <2>2, <2>3, <2>4, <2>5 DEF Send
<1>3. tries' \in Seq(Try) /\ Len(tries') = 0 /\ DOMAIN tries' = {}
  BY <1>1
<1>4. Len(tries') < MaxTries
  BY <1>3, GatewayAssumption
<1>5. EffectsExplained'
  BY <1>1, <1>3 DEF EffectsExplained
<1>6. OneShotsAreSpent'
  BY <1>1, <1>3 DEF OneShotsAreSpent, Done
<1> QED
  BY <1>1, <1>2, <1>3, <1>4, <1>5, <1>6, ServingInv

LEMMA RetryInv == ASSUME GatewayInv, Retry PROVE GatewayInv'
<1>1. /\ phase = "over" /\ Len(tries) < MaxTries /\ Serving
      /\ ~Last(tries).delivered \/ Last(tries).status \in Again
      /\ request' = request /\ tries' = tries /\ row' = row
      /\ phase' = "serving" /\ effect' = FALSE
  BY DEF Retry, Serving, Again
<1>2. tries \in Seq(Try) /\ Len(tries) \in Nat /\ DOMAIN tries = 1..Len(tries)
  BY LenProperties DEF GatewayInv, Orderly
<1>3. EffectsExplained'
  <2>1. ASSUME NEW i \in DOMAIN tries PROVE ~tries[i].delivered \/ tries[i].status \in Again
    <3>1. CASE i < Len(tries)
      BY <3>1 DEF GatewayInv, EffectsExplained
    <3>2. CASE i = Len(tries)
      BY <1>1, <3>2 DEF Last
    <3> QED
      BY <1>2, <3>1, <3>2
  <2> QED
    BY <1>1, <2>1 DEF GatewayInv, EffectsExplained
<1>4. OneShotsAreSpent'
  <2>1. OneShot' = OneShot /\ Spent' = Spent
    BY <1>1, SameRequest DEF Spent
  <2>2. Done' => Done
    BY <1>1 DEF Done
  <2> QED
    BY <1>1, <2>1, <2>2 DEF GatewayInv, OneShotsAreSpent
<1>5. WellFormed'
  BY <1>1, SameRequest DEF GatewayInv, Orderly
<1> QED
  BY <1>1, <1>2, <1>3, <1>4, <1>5, ServingInv

LEMMA GiveUpInv == ASSUME GatewayInv, GiveUp PROVE GatewayInv'
<1>1. /\ phase' = "idle" /\ request' = NoRequest /\ tries' = <<>> /\ todo' = <<>>
      /\ status' = 0 /\ effect' = FALSE /\ trouble' = "none"
      /\ UNCHANGED <<row, services>>
  BY DEF GiveUp
<1>2. tries' \in Seq(Try) /\ Len(tries') = 0 /\ DOMAIN tries' = {}
  BY <1>1
<1>3. TypeOK'
  <2>1. todo' \in Seq({"authorize", "limit", "read", "serve", "handle"})
    BY <1>1
  <2>2. Len(tries') <= MaxTries
    BY <1>2, GatewayAssumption
  <2>3. phase' # "raised" /\ phase' # "answering"
    BY <1>1
  <2> QED
    BY <1>1, <2>1, <2>2, <2>3 DEF GatewayInv, TypeOK, Troubles
<1>4. Orderly'
  BY <1>1, <1>2 DEF Orderly, Busy
<1>5. BlameToCome' /\ EffectsExplained' /\ OneShotsAreSpent'
  BY <1>1, <1>2 DEF BlameToCome, EffectsExplained, OneShotsAreSpent, Done, Busy
<1> QED
  BY <1>3, <1>4, <1>5 DEF GatewayInv

\* At the start the client has asked for nothing yet.
LEMMA InitInv == Init => GatewayInv
<1> SUFFICES ASSUME Init PROVE GatewayInv
  OBVIOUS
<1>1. tries \in Seq(Try) /\ Len(tries) = 0 /\ DOMAIN tries = {}
  BY DEF Init
<1>2. TypeOK
  <2>1. todo \in Seq({"authorize", "limit", "read", "serve", "handle"})
    BY DEF Init
  <2>2. Len(tries) <= MaxTries /\ 1 \in 0..MaxVersion
    BY <1>1, GatewayAssumption
  <2>3. phase \notin {"raised", "answering"} /\ services = {}
    BY DEF Init
  <2> QED
    BY <2>1, <2>2, <2>3 DEF Init, TypeOK, Troubles
<1>3. Orderly
  BY <1>1 DEF Init, Orderly, Busy
<1>4. BlameToCome /\ EffectsExplained /\ OneShotsAreSpent
  BY <1>1 DEF Init, BlameToCome, EffectsExplained, OneShotsAreSpent, Done, Busy
<1> QED
  BY <1>2, <1>3, <1>4 DEF GatewayInv

\* Nothing the invariant speaks of changes when nothing does.
LEMMA StutterInv == ASSUME GatewayInv, UNCHANGED vars PROVE GatewayInv'
<1>1. UNCHANGED <<phase, request, tries, todo, error, status, effect, trouble, row, services>>
  BY DEF vars
<1>2. TypeOK' /\ BlameToCome' /\ EffectsExplained'
  <2>1. TypeOK'
    BY <1>1 DEF GatewayInv, TypeOK
  <2>2. BlameToCome'
    BY <1>1, SameRequest DEF GatewayInv, BlameToCome
  <2>3. EffectsExplained'
    BY <1>1 DEF GatewayInv, EffectsExplained
  <2> QED
    BY <2>1, <2>2, <2>3
<1>3. Orderly'
  <2>1. WellFormed' = WellFormed /\ StepsLeft' = StepsLeft
    BY <1>1, SameRequest DEF StepsLeft
  <2> QED
    BY <1>1, <2>1 DEF GatewayInv, Orderly
<1>4. OneShotsAreSpent'
  <2>1. OneShot' = OneShot /\ Spent' = Spent /\ Done' = Done
    BY <1>1, SameRequest DEF Spent, Done
  <2> QED
    BY <1>1, <2>1 DEF GatewayInv, OneShotsAreSpent
<1> QED
  BY <1>2, <1>3, <1>4 DEF GatewayInv

LEMMA NextInv == GatewayInv /\ [Next]_vars => GatewayInv'
<1> SUFFICES ASSUME GatewayInv, [Next]_vars PROVE GatewayInv'
  OBVIOUS
<1>1. CASE Send \/ Retry \/ GiveUp
  BY <1>1, SendInv, RetryInv, GiveUpInv
<1>2. CASE Authorize \/ RateLimit \/ ReadJson
  BY <1>2, BeforeInv
<1>3. CASE Serve \/ Reject
  BY <1>3, ServeInv, RejectInv
<1>4. CASE Dispatch \/ Simulate \/ Look
  BY <1>4, DispatchInv
<1>5. CASE LookUp \/ Analyze \/ Confirm \/ Create
  BY <1>5, LookUpInv, AnalyzeInv, ConfirmInv, CreateInv
<1>6. CASE Update \/ Delete \/ SafeError
  BY <1>6, UpdateInv, DeleteInv, SafeErrorInv
<1>7. CASE Deliver \/ Lose \/ Restart
  BY <1>7, OverInv
<1>8. CASE OtherClients
  BY <1>8, OtherClientsInv
<1>9. CASE UNCHANGED vars
  BY <1>9, StutterInv
<1> QED
  BY <1>1, <1>2, <1>3, <1>4, <1>5, <1>6, <1>7, <1>8, <1>9 DEF Next

----------------------------------------------------------------------------
(* The normal form of an analysis *)

\* Folding the case twice is folding it once.  The text may grow, and stays one
\* that can be encoded, or cannot.
LEMMA LowerFacts ==
  ASSUME NEW text \in AnyText
  PROVE  /\ Lower(text) \in AnyText
         /\ Lower(Lower(text)) = Lower(text)
         /\ Lower(text).encodable = text.encodable
         /\ Lower(text).size >= text.size
<1>1. ASSUME NEW t \in AnyText
      PROVE  /\ Lower(t) = [word |-> t.word, size |-> t.size + t.grows, capital |-> FALSE,
                            grows |-> 0, encodable |-> t.encodable]
             /\ Lower(t) \in AnyText
  <2>1. t = [word |-> t.word, size |-> t.size, capital |-> t.capital,
             grows |-> t.grows, encodable |-> t.encodable]
    BY DEF AnyText
  <2>2. Lower(t) = [f \in DOMAIN t |->
                      CASE f = "capital" -> FALSE
                        [] f = "grows" -> 0
                        [] f = "size" -> t.size + t.grows
                        [] OTHER -> t[f]]
    BY <2>1 DEF Lower
  <2>3. DOMAIN t = {"word", "size", "capital", "grows", "encodable"}
    BY <2>1
  <2>4. t.size \in Nat /\ t.grows \in Nat /\ t.word \in STRING /\ t.encodable \in BOOLEAN
    BY DEF AnyText
  <2>5. t.size + t.grows \in Nat
    BY <2>4
  <2>6. Lower(t) = [word |-> t.word, size |-> t.size + t.grows, capital |-> FALSE,
                    grows |-> 0, encodable |-> t.encodable]
    BY <2>1, <2>2, <2>3
  <2> QED
    BY <2>4, <2>5, <2>6 DEF AnyText
<1>2. Lower(text) \in AnyText /\ text.size \in Nat /\ text.grows \in Nat
  BY <1>1 DEF AnyText
<1>3. /\ Lower(text).word = text.word /\ Lower(text).size = text.size + text.grows
      /\ Lower(text).capital = FALSE /\ Lower(text).grows = 0
      /\ Lower(text).encodable = text.encodable
  BY <1>1
<1>4. Lower(Lower(text)) = [word |-> Lower(text).word, size |-> Lower(text).size + Lower(text).grows,
                            capital |-> FALSE, grows |-> 0, encodable |-> Lower(text).encodable]
  BY <1>1, <1>2
<1>5. Lower(text).size + Lower(text).grows = text.size + text.grows
  BY <1>2, <1>3
<1>6. Lower(Lower(text)) = Lower(text)
  BY <1>1, <1>3, <1>4, <1>5
<1> QED
  BY <1>2, <1>3, <1>6

\* The tags of a normal form: every tag folded, no two alike, no more of them than
\* were given and none where none was; folding and deduplicating them again
\* changes nothing.
LEMMA TagsFacts ==
  ASSUME NEW tags \in Seq(AnyText)
  PROVE  /\ Tags(tags) \in Seq(AnyText)
         /\ ToSet(Tags(tags)) = {Lower(t) : t \in ToSet(tags)}
         /\ \A i, j \in DOMAIN Tags(tags) : Tags(tags)[i] = Tags(tags)[j] => i = j
         /\ Len(Tags(tags)) <= Len(tags)
         /\ tags # <<>> => Tags(tags) # <<>>
         /\ Tags(Tags(tags)) = Tags(tags)
<1> DEFINE low == Each(Lower, tags)
           T == Tags(tags)
<1>1. low = [i \in DOMAIN tags |-> Lower(tags[i])]
  BY DEF Each
<1>2. Len(tags) \in Nat /\ DOMAIN tags = 1..Len(tags) /\ \A i \in DOMAIN tags : tags[i] \in AnyText
  BY LenProperties, ElementOfSeq
<1>3. \A i \in DOMAIN tags : Lower(tags[i]) \in AnyText
  BY <1>2, LowerFacts
<1>4. low \in Seq(AnyText) /\ Len(low) = Len(tags) /\ DOMAIN low = DOMAIN tags
  <2>1. low \in [1..Len(tags) -> AnyText]
    BY <1>1, <1>2, <1>3
  <2> QED
    BY <2>1, <1>2, SeqDef, LenProperties
<1>5. ToSet(low) = {Lower(t) : t \in ToSet(tags)}
  BY <1>1 DEF ToSet
<1>6. T = Dedupe(low)
  BY DEF Tags
<1>7. /\ T \in Seq(AnyText)
      /\ \A i, j \in DOMAIN T : T[i] = T[j] => i = j
      /\ ToSet(T) = ToSet(low) /\ Len(T) <= Len(low)
      /\ low # <<>> => T # <<>>
  BY <1>4, <1>6, DedupeFacts
<1>8. tags # <<>> => low # <<>>
  BY <1>4, EmptySeq, <1>2
<1>9. Tags(T) = T
  <2>1. ASSUME NEW i \in DOMAIN T PROVE Lower(T[i]) = T[i]
    <3>1. T[i] \in ToSet(low)
      BY <1>7 DEF ToSet
    <3>2. PICK t \in ToSet(tags) : T[i] = Lower(t)
      BY <3>1, <1>5
    <3>3. t \in AnyText
      BY <1>2 DEF ToSet
    <3> QED
      BY <3>2, <3>3, LowerFacts
  <2>2. Each(Lower, T) = [i \in DOMAIN T |-> Lower(T[i])]
    BY DEF Each
  <2>3. [i \in DOMAIN T |-> T[i]] = T
    BY <1>7, LenProperties
  <2>4. Each(Lower, T) = T
    BY <2>1, <2>2, <2>3
  <2>5. Dedupe(T) = T
    BY <1>7, DedupeOfDistinct
  <2>6. Tags(T) = Dedupe(Each(Lower, T))
    BY DEF Tags
  <2> QED
    BY <2>4, <2>5, <2>6
<1> QED
  BY <1>4, <1>5, <1>7, <1>8, <1>9

\* A record whose lists are freed of duplicates keeps its other fields and the
\* texts of its lists, and doing it again changes nothing.
LEMMA UniqueListsFacts ==
  ASSUME NEW value, NEW rules,
         value = [f \in DOMAIN value |-> value[f]],
         \A f \in DOMAIN rules.lists : f \in DOMAIN value /\ value[f] \in Seq(AnyText)
  PROVE  LET unique == UniqueLists(value, rules)
         IN  /\ DOMAIN unique = DOMAIN value
             /\ \A f \in DOMAIN value \ DOMAIN rules.lists : unique[f] = value[f]
             /\ \A f \in DOMAIN rules.lists :
                  /\ unique[f] \in Seq(AnyText)
                  /\ ToSet(unique[f]) = ToSet(value[f])
                  /\ \A i, j \in DOMAIN unique[f] : unique[f][i] = unique[f][j] => i = j
                  /\ Len(unique[f]) \in Nat /\ Len(unique[f]) <= Len(value[f])
                  /\ value[f] # <<>> => unique[f] # <<>>
             /\ UniqueLists(unique, rules) = unique
<1> DEFINE unique == UniqueLists(value, rules)
<1>1. unique = [f \in DOMAIN value |->
                  IF f \in DOMAIN rules.lists THEN Dedupe(value[f]) ELSE value[f]]
  BY DEF UniqueLists
<1>2. DOMAIN unique = DOMAIN value
  BY <1>1
<1>3. \A f \in DOMAIN value \ DOMAIN rules.lists : unique[f] = value[f]
  BY <1>1
<1>4. ASSUME NEW f \in DOMAIN rules.lists
      PROVE  /\ unique[f] \in Seq(AnyText)
             /\ ToSet(unique[f]) = ToSet(value[f])
             /\ \A i, j \in DOMAIN unique[f] : unique[f][i] = unique[f][j] => i = j
             /\ Len(unique[f]) \in Nat /\ Len(unique[f]) <= Len(value[f])
             /\ value[f] # <<>> => unique[f] # <<>>
             /\ Dedupe(unique[f]) = unique[f]
  <2>1. unique[f] = Dedupe(value[f])
    BY <1>1
  <2>2. value[f] \in Seq(AnyText)
    OBVIOUS
  <2>3. /\ unique[f] \in Seq(AnyText)
        /\ ToSet(unique[f]) = ToSet(value[f])
        /\ \A i, j \in DOMAIN unique[f] : unique[f][i] = unique[f][j] => i = j
        /\ Len(unique[f]) <= Len(value[f])
        /\ value[f] # <<>> => unique[f] # <<>>
    BY <2>1, <2>2, DedupeFacts
  <2> QED
    BY <2>3, DedupeOfDistinct, LenProperties
<1>5. UniqueLists(unique, rules) = unique
  <2>1. UniqueLists(unique, rules) =
          [f \in DOMAIN unique |->
             IF f \in DOMAIN rules.lists THEN Dedupe(unique[f]) ELSE unique[f]]
    BY DEF UniqueLists
  <2>2. \A f \in DOMAIN unique :
          (IF f \in DOMAIN rules.lists THEN Dedupe(unique[f]) ELSE unique[f]) = unique[f]
    BY <1>4
  <2>3. unique = [f \in DOMAIN unique |-> unique[f]]
    BY <1>1
  <2> HIDE DEF unique
  <2> QED
    BY <2>1, <2>2, <2>3
<1> QED
  BY <1>2, <1>3, <1>4, <1>5

\* A list made of another one, element by element.
LEMMA MapFacts ==
  ASSUME NEW S, NEW T, NEW list \in Seq(S), NEW mapped,
         mapped = [i \in DOMAIN list |-> mapped[i]],
         \A i \in DOMAIN list : mapped[i] \in T
  PROVE  /\ mapped \in Seq(T) /\ DOMAIN mapped = DOMAIN list
         /\ Len(mapped) = Len(list) /\ (mapped = <<>> <=> list = <<>>)
<1>1. Len(list) \in Nat /\ DOMAIN list = 1..Len(list)
  BY LenProperties
<1>2. mapped \in [1..Len(list) -> T]
  BY <1>1
<1>3. mapped \in Seq(T) /\ DOMAIN mapped = 1..Len(list) /\ Len(mapped) = Len(list)
  BY <1>1, <1>2, SeqDef, LenProperties
<1> QED
  BY <1>1, <1>3, EmptySeq

\* A record that has the fields its rules are about, each ruled by one of them.
Tidy(value, rules) ==
  /\ value = [f \in DOMAIN value |-> value[f]]
  /\ DOMAIN rules.texts \cup DOMAIN rules.choices \cup DOMAIN rules.lists \cup rules.percents
       \subseteq DOMAIN value
  /\ \A f \in DOMAIN rules.texts \cup DOMAIN rules.choices \cup rules.percents :
       f \notin DOMAIN rules.lists
  /\ \A f \in DOMAIN rules.lists : /\ rules.lists[f].least \in {0, 1} /\ rules.lists[f].most \in Nat
                                   /\ value[f] \in Texts

\* What follows the rules has lists of texts where the rules have lists.
LEMMA ListsInHand ==
  ASSUME NEW value, NEW rules, Tidy(value, rules), Follows(value, rules)
  PROVE  \A f \in DOMAIN rules.lists : f \in DOMAIN value /\ value[f] \in Seq(AnyText)
  BY DEF Tidy, Follows, Strings, Items, Texts, Or

\* A record that follows its rules still does without the duplicates, and
\* nothing new is to be encoded.
LEMMA UniqueFollows ==
  ASSUME NEW value, NEW rules, Tidy(value, rules), Follows(value, rules),
         UniqueLists(value, rules) # Wrong
  PROVE  /\ Follows(UniqueLists(value, rules), rules)
         /\ TextsOf(UniqueLists(value, rules), rules) = TextsOf(value, rules)
<1> DEFINE unique == UniqueLists(value, rules)
<1>1. \A f \in DOMAIN rules.lists : f \in DOMAIN value /\ value[f] \in Seq(AnyText)
  BY ListsInHand
<1>2. value = [f \in DOMAIN value |-> value[f]]
  BY DEF Tidy
<1>3. /\ \A f \in DOMAIN value \ DOMAIN rules.lists : unique[f] = value[f]
      /\ \A f \in DOMAIN rules.lists :
           /\ unique[f] \in Seq(AnyText)
           /\ ToSet(unique[f]) = ToSet(value[f])
           /\ Len(unique[f]) \in Nat /\ Len(unique[f]) <= Len(value[f])
           /\ value[f] # <<>> => unique[f] # <<>>
  BY <1>1, <1>2, UniqueListsFacts
<1>4. /\ \A f \in DOMAIN rules.texts : unique[f] = value[f]
      /\ \A f \in DOMAIN rules.choices : unique[f] = value[f]
      /\ \A f \in rules.percents : unique[f] = value[f]
  BY <1>3 DEF Tidy
<1> HIDE DEF unique
<1>5. ASSUME NEW f \in DOMAIN rules.lists PROVE Strings(unique[f], rules.lists[f])
  <2>1. /\ Strings(value[f], rules.lists[f])
        /\ rules.lists[f].least \in {0, 1} /\ rules.lists[f].most \in Nat
    BY DEF Follows, Tidy
  <2>2. Len(value[f]) \in rules.lists[f].least..rules.lists[f].most
    BY <2>1 DEF Strings, Items
  <2>3. unique[f] # Wrong
    BY <1>3, WrongAssumption
  <2>4. Len(value[f]) \in Nat /\ (value[f] = <<>> <=> Len(value[f]) = 0)
    BY <1>1, EmptySeq, LenProperties
  <2>5. Len(unique[f]) \in Nat /\ (unique[f] = <<>> <=> Len(unique[f]) = 0)
    BY <1>3, EmptySeq, LenProperties
  <2>6. Len(unique[f]) \in rules.lists[f].least..rules.lists[f].most
    BY <2>1, <2>2, <2>4, <2>5, <1>3
  <2>7. \A text \in ToSet(unique[f]) : RequiredText(text, rules.lists[f].item)
    BY <2>1, <1>3 DEF Strings
  <2> QED
    BY <2>3, <2>6, <2>7 DEF Strings, Items
<1>6. Follows(unique, rules)
  BY <1>4, <1>5 DEF Follows, unique
<1>7. TextsOf(unique, rules) = TextsOf(value, rules)
  <2>1. {unique[f] : f \in DOMAIN rules.texts \cup DOMAIN rules.choices}
          = {value[f] : f \in DOMAIN rules.texts \cup DOMAIN rules.choices}
    BY <1>4
  <2>2. {ToSet(unique[f]) : f \in DOMAIN rules.lists} = {ToSet(value[f]) : f \in DOMAIN rules.lists}
    BY <1>3
  <2> QED
    BY <2>1, <2>2 DEF TextsOf
<1> QED
  BY <1>6, <1>7 DEF unique

\* What the rules of each kind of record say of which field.
LEMMA CriterionRuleFacts ==
  /\ DOMAIN CriterionRules.texts = {"category", "criterion", "verification"}
  /\ CriterionRules.texts.category = 80
  /\ DOMAIN CriterionRules.choices = {} /\ DOMAIN CriterionRules.lists = {}
  /\ CriterionRules.percents = {"target_percent"}
  BY DEF CriterionRules, NoFields

LEMMA SubtaskRuleFacts ==
  /\ DOMAIN SubtaskRules.texts = {"title", "description"}
  /\ DOMAIN SubtaskRules.choices =
       {"task_type", "complexity", "recommended_model", "binding_mode"}
  /\ DOMAIN SubtaskRules.lists =
       {"technology_stack", "acceptance_criteria", "fallback_models"}
  /\ \A f \in DOMAIN SubtaskRules.lists :
       SubtaskRules.lists[f].least \in {0, 1} /\ SubtaskRules.lists[f].most \in Nat
  /\ SubtaskRules.percents = {}
  BY DEF SubtaskRules, List

LEMMA RecommendationRuleFacts ==
  /\ DOMAIN RecommendationRules.texts = {"role", "reason"}
  /\ DOMAIN RecommendationRules.choices = {"model_id", "binding_mode"}
  /\ DOMAIN RecommendationRules.lists = {"strengths", "limitations"}
  /\ \A f \in DOMAIN RecommendationRules.lists :
       RecommendationRules.lists[f].least \in {0, 1} /\ RecommendationRules.lists[f].most \in Nat
  /\ RecommendationRules.percents = {}
  BY DEF RecommendationRules, List

LEMMA AnalysisRuleFacts ==
  /\ DOMAIN AnalysisRules.texts =
       {"goal", "goal_summary", "suggested_title", "description", "priority_reason",
        "reasoning", "planner_model"}
  /\ DOMAIN AnalysisRules.choices = {"task_type", "complexity", "priority"}
  /\ DOMAIN AnalysisRules.lists =
       {"technology_stack", "tags", "risks", "clarification_questions"}
  /\ \A f \in DOMAIN AnalysisRules.lists :
       AnalysisRules.lists[f].least \in {0, 1} /\ AnalysisRules.lists[f].most \in Nat
  /\ AnalysisRules.lists.tags = List(1, 12, 500)
  /\ AnalysisRules.percents = {"coverage_target_percent"}
  BY DEF AnalysisRules, List

\* A valid subtask is valid without its duplicates, and they go once.
LEMMA UniqueSubtask ==
  ASSUME NEW s \in Or(RawSubtask), ValidSubtask(s)
  PROVE  LET unique == UniqueLists(s, SubtaskRules)
         IN  /\ unique \in RawSubtask /\ ValidSubtask(unique)
             /\ UniqueLists(unique, SubtaskRules) = unique
             /\ TextsOf(unique, SubtaskRules) = TextsOf(s, SubtaskRules)
<1> DEFINE unique == UniqueLists(s, SubtaskRules)
<1>1. s \in RawSubtask /\ Follows(s, SubtaskRules)
  BY DEF ValidSubtask, Follows, Or
<1>2. /\ DOMAIN s = {"title", "description", "task_type", "complexity", "technology_stack",
                     "acceptance_criteria", "recommended_model", "fallback_models", "binding_mode"}
      /\ s = [f \in DOMAIN s |-> s[f]]
      /\ s["technology_stack"] \in Texts /\ s["acceptance_criteria"] \in Texts
      /\ s["fallback_models"] \in Texts
  BY <1>1 DEF RawSubtask
<1>3. Tidy(s, SubtaskRules)
  BY <1>2, SubtaskRuleFacts DEF Tidy
<1>4. \A f \in DOMAIN SubtaskRules.lists : f \in DOMAIN s /\ s[f] \in Seq(AnyText)
  BY <1>1, <1>3, ListsInHand
<1>5. /\ DOMAIN unique = DOMAIN s
      /\ \A f \in DOMAIN s \ DOMAIN SubtaskRules.lists : unique[f] = s[f]
      /\ \A f \in DOMAIN SubtaskRules.lists :
           unique[f] \in Seq(AnyText) /\ ToSet(unique[f]) = ToSet(s[f])
      /\ UniqueLists(unique, SubtaskRules) = unique
  BY <1>2, <1>4, UniqueListsFacts
<1>6. unique = [f \in DOMAIN unique |-> unique[f]]
  BY DEF UniqueLists
<1> HIDE DEF unique
<1>7. unique \in RawSubtask
  <2>1. /\ unique.title = s.title /\ unique.description = s.description
        /\ unique.task_type = s.task_type /\ unique.complexity = s.complexity
        /\ unique.recommended_model = s.recommended_model
        /\ unique.binding_mode = s.binding_mode
    BY <1>2, <1>5, SubtaskRuleFacts
  <2>2. /\ unique.technology_stack \in Texts /\ unique.acceptance_criteria \in Texts
        /\ unique.fallback_models \in Texts
    BY <1>5, SubtaskRuleFacts DEF Texts, Or
  <2>3. /\ s.title \in AnyText /\ s.description \in AnyText /\ s.task_type \in AnyText
        /\ s.complexity \in AnyText /\ s.recommended_model \in AnyText /\ s.binding_mode \in AnyText
    BY <1>1 DEF RawSubtask
  <2>4. unique = [title |-> unique.title, description |-> unique.description,
                  task_type |-> unique.task_type, complexity |-> unique.complexity,
                  technology_stack |-> unique.technology_stack,
                  acceptance_criteria |-> unique.acceptance_criteria,
                  recommended_model |-> unique.recommended_model,
                  fallback_models |-> unique.fallback_models,
                  binding_mode |-> unique.binding_mode]
    BY <1>2, <1>5, <1>6
  <2> QED
    BY <2>1, <2>2, <2>3, <2>4 DEF RawSubtask
<1>8. unique # Wrong
  BY <1>7, WrongAssumption
<1>9. Follows(unique, SubtaskRules) /\ TextsOf(unique, SubtaskRules) = TextsOf(s, SubtaskRules)
  BY <1>1, <1>3, <1>8, UniqueFollows DEF unique
<1>10. ToSet(unique.fallback_models) = ToSet(s.fallback_models)
  BY <1>5, SubtaskRuleFacts
<1>11. ValidSubtask(unique)
  BY <1>9, <1>10 DEF ValidSubtask
<1> QED
  BY <1>5, <1>7, <1>9, <1>11 DEF unique

\* And so with a recommended model.
LEMMA UniqueRecommendation ==
  ASSUME NEW m \in Or(RawRecommendation), Follows(m, RecommendationRules)
  PROVE  LET unique == UniqueLists(m, RecommendationRules)
         IN  /\ unique \in RawRecommendation /\ Follows(unique, RecommendationRules)
             /\ UniqueLists(unique, RecommendationRules) = unique
             /\ TextsOf(unique, RecommendationRules) = TextsOf(m, RecommendationRules)
<1> DEFINE unique == UniqueLists(m, RecommendationRules)
<1>1. m \in RawRecommendation
  BY DEF Follows, Or
<1>2. /\ DOMAIN m = {"model_id", "role", "reason", "strengths", "limitations", "binding_mode"}
      /\ m = [f \in DOMAIN m |-> m[f]]
      /\ m["strengths"] \in Texts /\ m["limitations"] \in Texts
  BY <1>1 DEF RawRecommendation
<1>3. Tidy(m, RecommendationRules)
  BY <1>2, RecommendationRuleFacts DEF Tidy
<1>4. \A f \in DOMAIN RecommendationRules.lists : f \in DOMAIN m /\ m[f] \in Seq(AnyText)
  BY <1>3, ListsInHand
<1>5. /\ DOMAIN unique = DOMAIN m
      /\ \A f \in DOMAIN m \ DOMAIN RecommendationRules.lists : unique[f] = m[f]
      /\ \A f \in DOMAIN RecommendationRules.lists : unique[f] \in Seq(AnyText)
      /\ UniqueLists(unique, RecommendationRules) = unique
  BY <1>2, <1>4, UniqueListsFacts
<1>6. unique = [f \in DOMAIN unique |-> unique[f]]
  BY DEF UniqueLists
<1> HIDE DEF unique
<1>7. unique \in RawRecommendation
  <2>1. /\ unique.model_id = m.model_id /\ unique.role = m.role
        /\ unique.reason = m.reason /\ unique.binding_mode = m.binding_mode
    BY <1>2, <1>5, RecommendationRuleFacts
  <2>2. unique.strengths \in Texts /\ unique.limitations \in Texts
    BY <1>5, RecommendationRuleFacts DEF Texts, Or
  <2>3. /\ m.model_id \in AnyText /\ m.role \in AnyText /\ m.reason \in AnyText
        /\ m.binding_mode \in AnyText
    BY <1>1 DEF RawRecommendation
  <2>4. unique = [model_id |-> unique.model_id, role |-> unique.role, reason |-> unique.reason,
                  strengths |-> unique.strengths, limitations |-> unique.limitations,
                  binding_mode |-> unique.binding_mode]
    BY <1>2, <1>5, <1>6
  <2> QED
    BY <2>1, <2>2, <2>3, <2>4 DEF RawRecommendation
<1>8. unique # Wrong
  BY <1>7, WrongAssumption
<1>9. /\ Follows(unique, RecommendationRules)
      /\ TextsOf(unique, RecommendationRules) = TextsOf(m, RecommendationRules)
  BY <1>3, <1>8, UniqueFollows DEF unique
<1> QED
  BY <1>5, <1>7, <1>9 DEF unique

\* What Normalised makes of a criterion.
Folded(c) == [c EXCEPT !.category = Lower(@)]
AllEncodable(texts) == \A text \in texts : text.encodable

\* A criterion with its category folded is one that follows the rules unless the
\* category has outgrown its limit.
LEMMA FoldedCriterion ==
  ASSUME NEW c \in Or(RawCriterion), Follows(c, CriterionRules)
  PROVE  /\ Folded(c) \in RawCriterion
         /\ Folded(Folded(c)) = Folded(c)
         /\ Folded(c).category.size <= 80 <=> Follows(Folded(c), CriterionRules)
         /\ AllEncodable(TextsOf(c, CriterionRules)) =>
              AllEncodable(TextsOf(Folded(c), CriterionRules))
<1>1. c \in RawCriterion
  BY DEF Follows, Or
<1>2. ASSUME NEW d \in RawCriterion
      PROVE  Folded(d) = [category |-> Lower(d.category), criterion |-> d.criterion,
                          target_percent |-> d.target_percent, verification |-> d.verification]
  <2>1. d = [category |-> d.category, criterion |-> d.criterion,
             target_percent |-> d.target_percent, verification |-> d.verification]
    BY DEF RawCriterion
  <2> QED
    BY <2>1 DEF Folded
<1>3. /\ c.category \in AnyText /\ c.criterion \in AnyText /\ c.verification \in AnyText
      /\ c.target_percent \in Or(Int)
  BY <1>1 DEF RawCriterion
<1>4. Folded(c) = [category |-> Lower(c.category), criterion |-> c.criterion,
                   target_percent |-> c.target_percent, verification |-> c.verification]
  BY <1>1, <1>2
<1>5. /\ Lower(c.category) \in AnyText /\ Lower(Lower(c.category)) = Lower(c.category)
      /\ Lower(c.category).encodable = c.category.encodable
      /\ Lower(c.category).size >= c.category.size
  BY <1>3, LowerFacts
<1>6. Folded(c) \in RawCriterion
  BY <1>3, <1>4, <1>5 DEF RawCriterion
<1>7. Folded(Folded(c)) = [category |-> Lower(Lower(c.category)), criterion |-> c.criterion,
                   target_percent |-> c.target_percent, verification |-> c.verification]
  BY <1>2, <1>4, <1>6
<1>8. /\ Folded(c).category = Lower(c.category) /\ Folded(c).criterion = c.criterion
      /\ Folded(c).target_percent = c.target_percent /\ Folded(c).verification = c.verification
  BY <1>4
<1>9. Folded(c).category.size <= 80 <=> Follows(Folded(c), CriterionRules)
  <2>1. /\ RequiredText(c.category, 80)
        /\ \A f \in {"criterion", "verification"} : RequiredText(c[f], CriterionRules.texts[f])
        /\ c.target_percent \in 60..100
    BY CriterionRuleFacts DEF Follows
  <2>2. c.category.size \in Nat /\ Lower(c.category).size \in Nat
    BY <1>3, <1>5 DEF AnyText
  <2>3. Lower(c.category).size <= 80 <=> RequiredText(Lower(c.category), 80)
    BY <2>1, <2>2, <1>5 DEF RequiredText
  <2>4. Folded(c) # Wrong
    BY <1>6, WrongAssumption
  <2>5. Follows(Folded(c), CriterionRules) <=> RequiredText(Folded(c).category, 80)
    BY <2>1, <2>4, <1>8, CriterionRuleFacts DEF Follows
  <2> QED
    BY <2>3, <2>5, <1>8
<1>10. ASSUME AllEncodable(TextsOf(c, CriterionRules))
       PROVE  AllEncodable(TextsOf(Folded(c), CriterionRules))
  <2>1. TextsOf(c, CriterionRules) = {c.category, c.criterion, c.verification}
    BY CriterionRuleFacts DEF TextsOf
  <2>2. TextsOf(Folded(c), CriterionRules) =
          {Folded(c).category, Folded(c).criterion, Folded(c).verification}
    BY CriterionRuleFacts DEF TextsOf
  <2> QED
    BY <1>10, <2>1, <2>2, <1>5, <1>8 DEF AllEncodable
<1> QED
  BY <1>4, <1>5, <1>6, <1>7, <1>9, <1>10

AnalysisFields ==
  {"goal", "scope", "goal_summary", "suggested_title", "description", "priority_reason",
   "reasoning", "planner_model", "task_type", "complexity", "priority", "technology_stack",
   "tags", "risks", "clarification_questions", "coverage_target_percent",
   "acceptance_criteria", "split_recommended", "subtasks", "needs_clarification",
   "recommended_models"}

\* Only the goal and the planner are ever filled in, and not where they stand.
LEMMA FilledFacts ==
  ASSUME NEW raw \in RawAnalysis
  PROVE  /\ DOMAIN raw = AnalysisFields /\ raw = [f \in DOMAIN raw |-> raw[f]]
         /\ DOMAIN Filled(raw) = AnalysisFields
         /\ Filled(raw) = [f \in AnalysisFields |-> Filled(raw)[f]]
         /\ \A f \in AnalysisFields \ {"goal", "planner_model"} : Filled(raw)[f] = raw[f]
         /\ Filled(raw).goal \in AnyText /\ Filled(raw).planner_model \in AnyText
         /\ raw.goal # Nothing /\ raw.planner_model # Nothing => Filled(raw) = raw
<1>1. DOMAIN raw = AnalysisFields /\ raw = [f \in DOMAIN raw |-> raw[f]]
  BY DEF RawAnalysis, AnalysisFields
<1> DEFINE goal == IF raw.goal = Nothing THEN raw.goal_summary ELSE raw.goal
           planner == IF raw.planner_model = Nothing THEN Word("deepseek/deepseek-chat")
                      ELSE raw.planner_model
<1>2. Filled(raw) = [f \in AnalysisFields |-> IF f = "goal" THEN goal
                                              ELSE IF f = "planner_model" THEN planner ELSE raw[f]]
  BY <1>1 DEF Filled
<1>3. goal \in AnyText
  BY DEF RawAnalysis
<1>4. Word("deepseek/deepseek-chat") \in AnyText
  <2>1. ASSUME NEW word \in STRING PROVE Word(word) \in AnyText
    BY DEF Word, Text, AnyText
  <2> QED
    BY <2>1, WrongAssumption
<1>5. planner \in AnyText
  BY <1>4 DEF RawAnalysis
<1>6. "goal" \in AnalysisFields /\ "planner_model" \in AnalysisFields
  BY DEF AnalysisFields
<1>7. ASSUME raw.goal # Nothing, raw.planner_model # Nothing PROVE Filled(raw) = raw
  <2>1. \A f \in AnalysisFields : (IF f = "goal" THEN goal
                              ELSE IF f = "planner_model" THEN planner ELSE raw[f]) = raw[f]
    BY <1>7
  <2> HIDE DEF goal, planner
  <2> QED
    BY <1>1, <1>2, <2>1
<1> HIDE DEF goal, planner
<1> QED
  BY <1>1, <1>2, <1>3, <1>5, <1>6, <1>7

\* The normal form, field by field.
LEMMA NormalFields ==
  ASSUME NEW raw \in RawAnalysis
  PROVE  LET normal == Normalised(raw)
             unique == UniqueLists(Filled(raw), AnalysisRules)
         IN  /\ DOMAIN normal = AnalysisFields
             /\ normal = [f \in AnalysisFields |-> normal[f]]
             /\ \A f \in AnalysisFields \ {"tags", "acceptance_criteria", "subtasks", "recommended_models"} :
                  normal[f] = unique[f]
             /\ normal.tags = Tags(raw.tags)
             /\ normal.acceptance_criteria =
                  [i \in DOMAIN raw.acceptance_criteria |-> Folded(raw.acceptance_criteria[i])]
             /\ normal.subtasks =
                  [i \in DOMAIN raw.subtasks |-> UniqueLists(raw.subtasks[i], SubtaskRules)]
             /\ normal.recommended_models =
                  [i \in DOMAIN raw.recommended_models |->
                     UniqueLists(raw.recommended_models[i], RecommendationRules)]
<1> DEFINE normal == Normalised(raw)
           unique == UniqueLists(Filled(raw), AnalysisRules)
           criteria == [i \in DOMAIN raw.acceptance_criteria |-> Folded(raw.acceptance_criteria[i])]
           subtasks == [i \in DOMAIN raw.subtasks |-> UniqueLists(raw.subtasks[i], SubtaskRules)]
           models == [i \in DOMAIN raw.recommended_models |->
                        UniqueLists(raw.recommended_models[i], RecommendationRules)]
<1>1. /\ DOMAIN unique = AnalysisFields
      /\ \A f \in AnalysisFields \ DOMAIN AnalysisRules.lists : unique[f] = Filled(raw)[f]
      /\ unique = [f \in AnalysisFields |-> unique[f]]
  BY FilledFacts DEF UniqueLists
<1>2. /\ "acceptance_criteria" \in AnalysisFields /\ "subtasks" \in AnalysisFields
      /\ "recommended_models" \in AnalysisFields /\ "tags" \in AnalysisFields
  BY DEF AnalysisFields
<1>3. /\ unique.acceptance_criteria = raw.acceptance_criteria
      /\ unique.subtasks = raw.subtasks
      /\ unique.recommended_models = raw.recommended_models
  BY <1>1, <1>2, FilledFacts, AnalysisRuleFacts
<1>4. normal = [unique EXCEPT !.tags = Tags(raw.tags), !.acceptance_criteria = criteria,
                              !.subtasks = subtasks, !.recommended_models = models]
  BY <1>3 DEF Normalised, Each, Folded
<1> HIDE DEF unique, normal, criteria, subtasks, models
<1>5. normal = [f \in AnalysisFields |->
                  IF f = "tags" THEN Tags(raw.tags)
                  ELSE IF f = "acceptance_criteria" THEN criteria
                  ELSE IF f = "subtasks" THEN subtasks
                  ELSE IF f = "recommended_models" THEN models ELSE unique[f]]
  BY <1>1, <1>4
<1>6. DOMAIN normal = AnalysisFields /\ normal = [f \in AnalysisFields |-> normal[f]]
  BY <1>5
<1>7. /\ normal["tags"] = Tags(raw.tags) /\ normal["acceptance_criteria"] = criteria
      /\ normal["subtasks"] = subtasks /\ normal["recommended_models"] = models
  BY <1>2, <1>5
<1>8. \A f \in AnalysisFields \ {"tags", "acceptance_criteria", "subtasks", "recommended_models"} :
        normal[f] = unique[f]
  BY <1>5
<1> QED
  BY <1>6, <1>7, <1>8 DEF unique, normal, criteria, subtasks, models

\* What a valid analysis has for its lists.
LEMMA ListsOfAnalysis ==
  ASSUME NEW raw \in RawAnalysis, ValidAnalysis(raw)
  PROVE  /\ raw.technology_stack \in Seq(AnyText) /\ raw.tags \in Seq(AnyText)
         /\ raw.risks \in Seq(AnyText) /\ raw.clarification_questions \in Seq(AnyText)
         /\ raw.acceptance_criteria \in Seq(Or(RawCriterion))
         /\ raw.subtasks \in Seq(Or(RawSubtask))
         /\ raw.recommended_models \in Seq(Or(RawRecommendation))
         /\ \A i \in DOMAIN raw.acceptance_criteria :
              /\ raw.acceptance_criteria[i] \in Or(RawCriterion)
              /\ Follows(raw.acceptance_criteria[i], CriterionRules)
         /\ \A i \in DOMAIN raw.subtasks :
              raw.subtasks[i] \in Or(RawSubtask) /\ ValidSubtask(raw.subtasks[i])
         /\ \A i \in DOMAIN raw.recommended_models :
              /\ raw.recommended_models[i] \in Or(RawRecommendation)
              /\ Follows(raw.recommended_models[i], RecommendationRules)
<1>1. \A f \in DOMAIN AnalysisRules.lists : Filled(raw)[f] # Wrong /\ Filled(raw)[f] = raw[f]
  <2>1. \A f \in DOMAIN AnalysisRules.lists : Filled(raw)[f] # Wrong
    BY DEF ValidAnalysis, Follows, Strings, Items
  <2>2. \A f \in DOMAIN AnalysisRules.lists : f \in AnalysisFields \ {"goal", "planner_model"}
    BY AnalysisRuleFacts DEF AnalysisFields
  <2> QED
    BY <2>1, <2>2, FilledFacts
<1>2. /\ raw["technology_stack"] # Wrong /\ raw["tags"] # Wrong
      /\ raw["risks"] # Wrong /\ raw["clarification_questions"] # Wrong
  BY <1>1, AnalysisRuleFacts
<1>3. /\ raw.technology_stack \in Texts /\ raw.tags \in Texts
      /\ raw.risks \in Texts /\ raw.clarification_questions \in Texts
      /\ raw.acceptance_criteria \in Or(Seq(Or(RawCriterion)))
      /\ raw.subtasks \in Or(Seq(Or(RawSubtask)))
      /\ raw.recommended_models \in Or(Seq(Or(RawRecommendation)))
  BY DEF RawAnalysis
<1>4. /\ raw.acceptance_criteria # Wrong /\ raw.subtasks # Wrong
      /\ raw.recommended_models # Wrong
      /\ \A c \in ToSet(raw.acceptance_criteria) : Follows(c, CriterionRules)
      /\ \A s \in ToSet(raw.subtasks) : ValidSubtask(s)
      /\ \A m \in ToSet(raw.recommended_models) : Follows(m, RecommendationRules)
  BY DEF ValidAnalysis, Items
<1>5. /\ raw.acceptance_criteria \in Seq(Or(RawCriterion))
      /\ raw.subtasks \in Seq(Or(RawSubtask))
      /\ raw.recommended_models \in Seq(Or(RawRecommendation))
  BY <1>3, <1>4 DEF Or
<1>6. \A i \in DOMAIN raw.acceptance_criteria :
        /\ raw.acceptance_criteria[i] \in Or(RawCriterion)
        /\ Follows(raw.acceptance_criteria[i], CriterionRules)
  BY <1>4, <1>5, ElementOfSeq, LenProperties DEF ToSet
<1>7. \A i \in DOMAIN raw.subtasks :
        raw.subtasks[i] \in Or(RawSubtask) /\ ValidSubtask(raw.subtasks[i])
  BY <1>4, <1>5, ElementOfSeq, LenProperties DEF ToSet
<1>8. \A i \in DOMAIN raw.recommended_models :
        /\ raw.recommended_models[i] \in Or(RawRecommendation)
        /\ Follows(raw.recommended_models[i], RecommendationRules)
  BY <1>4, <1>5, ElementOfSeq, LenProperties DEF ToSet
<1> QED
  BY <1>2, <1>3, <1>5, <1>6, <1>7, <1>8 DEF Texts, Or

\* A normal form is again an analysis as one may come in, with goal and planner in
\* place and lists that hold nothing twice.
LEMMA NormalFacts ==
  ASSUME NEW raw \in RawAnalysis, ValidAnalysis(raw)
  PROVE  LET normal == Normalised(raw)
             filled == Filled(raw)
         IN  /\ normal \in RawAnalysis /\ Filled(normal) = normal
             /\ \A f \in AnalysisFields \ {"technology_stack", "tags", "risks",
                  "clarification_questions", "acceptance_criteria", "subtasks", "recommended_models"} :
                    normal[f] = filled[f]
             /\ \A f \in {"technology_stack", "risks", "clarification_questions"} :
                  /\ normal[f] = Dedupe(raw[f]) /\ normal[f] \in Seq(AnyText)
                  /\ Dedupe(normal[f]) = normal[f]
             /\ normal.tags \in Seq(AnyText)
             /\ normal.acceptance_criteria \in Seq(RawCriterion)
             /\ normal.subtasks \in Seq(RawSubtask)
             /\ normal.recommended_models \in Seq(RawRecommendation)
<1> DEFINE normal == Normalised(raw)
           filled == Filled(raw)
           unique == UniqueLists(filled, AnalysisRules)
           Plain == AnalysisFields \ {"technology_stack", "tags", "risks",
             "clarification_questions", "acceptance_criteria", "subtasks", "recommended_models"}
<1>1. /\ DOMAIN normal = AnalysisFields /\ normal = [f \in AnalysisFields |-> normal[f]]
      /\ \A f \in AnalysisFields \ {"tags", "acceptance_criteria", "subtasks", "recommended_models"} :
           normal[f] = unique[f]
      /\ normal.tags = Tags(raw.tags)
      /\ normal.acceptance_criteria =
           [i \in DOMAIN raw.acceptance_criteria |-> Folded(raw.acceptance_criteria[i])]
      /\ normal.subtasks =
           [i \in DOMAIN raw.subtasks |-> UniqueLists(raw.subtasks[i], SubtaskRules)]
      /\ normal.recommended_models =
           [i \in DOMAIN raw.recommended_models |->
              UniqueLists(raw.recommended_models[i], RecommendationRules)]
  BY NormalFields
<1>2. unique = [f \in AnalysisFields |->
                  IF f \in DOMAIN AnalysisRules.lists THEN Dedupe(filled[f]) ELSE filled[f]]
  BY FilledFacts DEF UniqueLists
<1> HIDE DEF normal, unique
<1>3. \A f \in Plain : normal[f] = filled[f]
  BY <1>1, <1>2, AnalysisRuleFacts
<1>4. ASSUME NEW f \in {"technology_stack", "risks", "clarification_questions"}
      PROVE  /\ normal[f] = Dedupe(raw[f]) /\ normal[f] \in Seq(AnyText)
             /\ Dedupe(normal[f]) = normal[f]
  <2>1. /\ f \in AnalysisFields /\ f \in DOMAIN AnalysisRules.lists
        /\ f \notin {"tags", "acceptance_criteria", "subtasks", "recommended_models",
                     "goal", "planner_model"}
    BY AnalysisRuleFacts DEF AnalysisFields
  <2>2. raw[f] \in Seq(AnyText)
    BY ListsOfAnalysis
  <2>3. normal[f] = Dedupe(raw[f])
    BY <1>1, <1>2, <2>1, FilledFacts
  <2> QED
    BY <2>2, <2>3, DedupeFacts, DedupeOfDistinct
<1>5. normal.tags \in Seq(AnyText)
  BY <1>1, ListsOfAnalysis, TagsFacts
<1>6. normal.acceptance_criteria \in Seq(RawCriterion)
  <2>1. \A i \in DOMAIN raw.acceptance_criteria : normal.acceptance_criteria[i] \in RawCriterion
    BY <1>1, ListsOfAnalysis, FoldedCriterion
  <2>2. normal.acceptance_criteria = [i \in DOMAIN raw.acceptance_criteria |-> normal.acceptance_criteria[i]]
    BY <1>1
  <2>3. raw.acceptance_criteria \in Seq(Or(RawCriterion))
    BY ListsOfAnalysis
  <2> QED
    BY <2>1, <2>2, <2>3, MapFacts
<1>7. normal.subtasks \in Seq(RawSubtask)
  <2>1. \A i \in DOMAIN raw.subtasks : normal.subtasks[i] \in RawSubtask
    BY <1>1, ListsOfAnalysis, UniqueSubtask
  <2>2. normal.subtasks = [i \in DOMAIN raw.subtasks |-> normal.subtasks[i]]
    BY <1>1
  <2>3. raw.subtasks \in Seq(Or(RawSubtask))
    BY ListsOfAnalysis
  <2> QED
    BY <2>1, <2>2, <2>3, MapFacts
<1>8. normal.recommended_models \in Seq(RawRecommendation)
  <2>1. \A i \in DOMAIN raw.recommended_models : normal.recommended_models[i] \in RawRecommendation
    BY <1>1, ListsOfAnalysis, UniqueRecommendation
  <2>2. normal.recommended_models = [i \in DOMAIN raw.recommended_models |-> normal.recommended_models[i]]
    BY <1>1
  <2>3. raw.recommended_models \in Seq(Or(RawRecommendation))
    BY ListsOfAnalysis
  <2> QED
    BY <2>1, <2>2, <2>3, MapFacts
<1>9. \A f \in Plain \ {"goal", "planner_model"} : normal[f] = raw[f]
  BY <1>3, FilledFacts
<1>10. normal \in RawAnalysis
  <2>1. /\ normal.goal \in AnyText /\ normal.planner_model \in AnyText
    BY <1>3, FilledFacts DEF AnalysisFields
  <2>2. /\ raw.scope = normal.scope /\ raw.goal_summary = normal.goal_summary
        /\ raw.suggested_title = normal.suggested_title /\ raw.description = normal.description
        /\ raw.priority_reason = normal.priority_reason /\ raw.reasoning = normal.reasoning
        /\ raw.task_type = normal.task_type /\ raw.complexity = normal.complexity
        /\ raw.priority = normal.priority
        /\ raw.coverage_target_percent = normal.coverage_target_percent
        /\ raw.split_recommended = normal.split_recommended
        /\ raw.needs_clarification = normal.needs_clarification
    BY <1>9 DEF AnalysisFields
  <2>3. /\ raw.scope \in AnyText /\ raw.goal_summary \in AnyText
        /\ raw.suggested_title \in AnyText /\ raw.description \in AnyText
        /\ raw.priority_reason \in AnyText /\ raw.reasoning \in AnyText
        /\ raw.task_type \in AnyText /\ raw.complexity \in AnyText /\ raw.priority \in AnyText
        /\ raw.coverage_target_percent \in Or(Int) /\ raw.split_recommended \in Or(BOOLEAN)
        /\ raw.needs_clarification \in Or(BOOLEAN)
    BY DEF RawAnalysis
  <2>4. /\ normal.technology_stack \in Texts /\ normal.tags \in Texts
        /\ normal.risks \in Texts /\ normal.clarification_questions \in Texts
    BY <1>4, <1>5 DEF Texts, Or
  <2>5. /\ normal.acceptance_criteria \in Or(Seq(Or(RawCriterion)))
        /\ normal.subtasks \in Or(Seq(Or(RawSubtask)))
        /\ normal.recommended_models \in Or(Seq(Or(RawRecommendation)))
    <3>1. /\ Seq(RawCriterion) \subseteq Seq(Or(RawCriterion))
          /\ Seq(RawSubtask) \subseteq Seq(Or(RawSubtask))
          /\ Seq(RawRecommendation) \subseteq Seq(Or(RawRecommendation))
      BY SeqDef DEF Or
    <3> QED
      BY <3>1, <1>6, <1>7, <1>8 DEF Or
  <2>6. normal = [goal |-> normal.goal, scope |-> normal.scope,
                  goal_summary |-> normal.goal_summary,
                  suggested_title |-> normal.suggested_title,
                  description |-> normal.description, priority_reason |-> normal.priority_reason,
                  reasoning |-> normal.reasoning, planner_model |-> normal.planner_model,
                  task_type |-> normal.task_type, complexity |-> normal.complexity,
                  priority |-> normal.priority, technology_stack |-> normal.technology_stack,
                  tags |-> normal.tags, risks |-> normal.risks,
                  clarification_questions |-> normal.clarification_questions,
                  coverage_target_percent |-> normal.coverage_target_percent,
                  acceptance_criteria |-> normal.acceptance_criteria,
                  split_recommended |-> normal.split_recommended,
                  subtasks |-> normal.subtasks, needs_clarification |-> normal.needs_clarification,
                  recommended_models |-> normal.recommended_models]
    BY <1>1 DEF AnalysisFields
  <2> QED
    BY <2>1, <2>2, <2>3, <2>4, <2>5, <2>6 DEF RawAnalysis
<1>11. Filled(normal) = normal
  <2>1. /\ RequiredText(filled.goal, 20000) /\ RequiredText(filled.planner_model, 160)
    BY AnalysisRuleFacts DEF ValidAnalysis, Follows, AnalysisRules
  <2>2. normal.goal = filled.goal /\ normal.planner_model = filled.planner_model
    BY <1>3 DEF AnalysisFields
  <2>3. Nothing.size = 0
    BY DEF Nothing, Text
  <2>4. ASSUME NEW text, NEW maximum \in Nat, RequiredText(text, maximum) PROVE text # Nothing
    <3>1. text.size # 0
      BY <2>4 DEF RequiredText
    <3> QED
      BY <3>1, <2>3
  <2>5. normal.goal # Nothing /\ normal.planner_model # Nothing
    BY <2>1, <2>2, <2>4
  <2> QED
    BY <1>10, <2>5, FilledFacts
<1> QED
  BY <1>3, <1>4, <1>5, <1>6, <1>7, <1>8, <1>10, <1>11 DEF normal

\* Normalising a valid analysis twice is normalising it once: what is shown to the
\* user and what is made of it when it comes back are the same.
LEMMA NormalIsNormal ==
  ASSUME NEW raw \in RawAnalysis, ValidAnalysis(raw)
  PROVE  Normalised(Normalised(raw)) = Normalised(raw)
<1> DEFINE normal == Normalised(raw)
           again == Normalised(normal)
           unique == UniqueLists(normal, AnalysisRules)
           Rest == {"tags", "acceptance_criteria", "subtasks", "recommended_models"}
<1>1. normal \in RawAnalysis /\ Filled(normal) = normal
  BY NormalFacts
<1>2. /\ DOMAIN normal = AnalysisFields /\ normal = [f \in AnalysisFields |-> normal[f]]
      /\ normal.tags = Tags(raw.tags)
      /\ normal.acceptance_criteria =
           [i \in DOMAIN raw.acceptance_criteria |-> Folded(raw.acceptance_criteria[i])]
      /\ normal.subtasks =
           [i \in DOMAIN raw.subtasks |-> UniqueLists(raw.subtasks[i], SubtaskRules)]
      /\ normal.recommended_models =
           [i \in DOMAIN raw.recommended_models |->
              UniqueLists(raw.recommended_models[i], RecommendationRules)]
  BY NormalFields
<1>3. /\ again = [f \in AnalysisFields |-> again[f]]
      /\ \A f \in AnalysisFields \ Rest : again[f] = unique[f]
      /\ again.tags = Tags(normal.tags)
      /\ again.acceptance_criteria =
           [i \in DOMAIN normal.acceptance_criteria |-> Folded(normal.acceptance_criteria[i])]
      /\ again.subtasks =
           [i \in DOMAIN normal.subtasks |-> UniqueLists(normal.subtasks[i], SubtaskRules)]
      /\ again.recommended_models =
           [i \in DOMAIN normal.recommended_models |->
              UniqueLists(normal.recommended_models[i], RecommendationRules)]
  <2> HIDE DEF normal
  <2> QED
    BY <1>1, NormalFields
<1>4. unique = [f \in AnalysisFields |->
                  IF f \in DOMAIN AnalysisRules.lists THEN Dedupe(normal[f]) ELSE normal[f]]
  BY <1>2 DEF UniqueLists
<1>5. \A f \in {"technology_stack", "risks", "clarification_questions"} :
        Dedupe(normal[f]) = normal[f]
  BY NormalFacts
<1>6. raw.tags \in Seq(AnyText)
  BY ListsOfAnalysis
<1>7. Tags(normal.tags) = normal.tags
  BY <1>2, <1>6, TagsFacts
<1> HIDE DEF normal, again, unique
<1>8. \A f \in AnalysisFields \ Rest : again[f] = normal[f]
  BY <1>3, <1>4, <1>5, AnalysisRuleFacts
<1>9. again.tags = normal.tags
  BY <1>3, <1>7
<1>10. again.acceptance_criteria = normal.acceptance_criteria
  <2>1. \A i \in DOMAIN raw.acceptance_criteria :
          Folded(Folded(raw.acceptance_criteria[i])) = Folded(raw.acceptance_criteria[i])
    BY ListsOfAnalysis, FoldedCriterion
  <2> QED
    BY <2>1, <1>2, <1>3
<1>11. again.subtasks = normal.subtasks
  <2>1. \A i \in DOMAIN raw.subtasks :
          UniqueLists(UniqueLists(raw.subtasks[i], SubtaskRules), SubtaskRules)
            = UniqueLists(raw.subtasks[i], SubtaskRules)
    BY ListsOfAnalysis, UniqueSubtask
  <2>2. normal.subtasks =
          [i \in DOMAIN raw.subtasks |-> UniqueLists(raw.subtasks[i], SubtaskRules)]
    BY <1>2
  <2>3. again.subtasks =
          [i \in DOMAIN normal.subtasks |-> UniqueLists(normal.subtasks[i], SubtaskRules)]
    BY <1>3
  <2> QED
    BY <2>1, <2>2, <2>3
<1>12. again.recommended_models = normal.recommended_models
  <2>1. \A i \in DOMAIN raw.recommended_models :
          UniqueLists(UniqueLists(raw.recommended_models[i], RecommendationRules), RecommendationRules)
            = UniqueLists(raw.recommended_models[i], RecommendationRules)
    BY ListsOfAnalysis, UniqueRecommendation
  <2>2. normal.recommended_models =
          [i \in DOMAIN raw.recommended_models |->
             UniqueLists(raw.recommended_models[i], RecommendationRules)]
    BY <1>2
  <2>3. again.recommended_models =
          [i \in DOMAIN normal.recommended_models |->
             UniqueLists(normal.recommended_models[i], RecommendationRules)]
    BY <1>3
  <2> QED
    BY <2>1, <2>2, <2>3
<1>13. \A f \in AnalysisFields : again[f] = normal[f]
  BY <1>8, <1>9, <1>10, <1>11, <1>12
<1>14. again = normal
  BY <1>2, <1>3, <1>13
<1> QED
  BY <1>14 DEF again, normal

\* The texts that are encoded, part by part.
LEMMA HashableParts ==
  ASSUME NEW raw
  PROVE  Hashable(raw) <=>
           /\ AllEncodable(TextsOf(Filled(raw), AnalysisRules)) /\ raw.scope.encodable
           /\ \A c \in ToSet(raw.acceptance_criteria) : AllEncodable(TextsOf(c, CriterionRules))
           /\ \A s \in ToSet(raw.subtasks) : AllEncodable(TextsOf(s, SubtaskRules))
           /\ \A m \in ToSet(raw.recommended_models) : AllEncodable(TextsOf(m, RecommendationRules))
<1>1. \A t : t \in AllTexts(raw) <=>
        \/ t \in TextsOf(Filled(raw), AnalysisRules)
        \/ t = raw.scope
        \/ \E c \in ToSet(raw.acceptance_criteria) : t \in TextsOf(c, CriterionRules)
        \/ \E s \in ToSet(raw.subtasks) : t \in TextsOf(s, SubtaskRules)
        \/ \E m \in ToSet(raw.recommended_models) : t \in TextsOf(m, RecommendationRules)
  <2>1. \A list, rules, t :
          t \in TextsOfAll(list, rules) <=> \E x \in ToSet(list) : t \in TextsOf(x, rules)
    BY DEF TextsOfAll
  <2> QED
    BY <2>1 DEF AllTexts
<1> QED
  BY <1>1, Zenon DEF Hashable, AllEncodable

\* A normal form can be encoded if what it was made of can.
LEMMA NormalHashable ==
  ASSUME NEW raw \in RawAnalysis, ValidAnalysis(raw), Hashable(raw)
  PROVE  Hashable(Normalised(raw))
<1> DEFINE normal == Normalised(raw)
<1>1. /\ normal.acceptance_criteria =
           [i \in DOMAIN raw.acceptance_criteria |-> Folded(raw.acceptance_criteria[i])]
      /\ normal.subtasks =
           [i \in DOMAIN raw.subtasks |-> UniqueLists(raw.subtasks[i], SubtaskRules)]
      /\ normal.recommended_models =
           [i \in DOMAIN raw.recommended_models |->
              UniqueLists(raw.recommended_models[i], RecommendationRules)]
      /\ normal.tags = Tags(raw.tags)
  BY NormalFields
<1>2. /\ Filled(normal) = normal
      /\ \A f \in AnalysisFields \ {"technology_stack", "tags", "risks",
           "clarification_questions", "acceptance_criteria", "subtasks", "recommended_models"} :
             normal[f] = Filled(raw)[f]
      /\ \A f \in {"technology_stack", "risks", "clarification_questions"} :
             normal[f] = Dedupe(raw[f])
  BY NormalFacts
<1> HIDE DEF normal
<1>3. /\ AllEncodable(TextsOf(Filled(raw), AnalysisRules)) /\ raw.scope.encodable
      /\ \A c \in ToSet(raw.acceptance_criteria) : AllEncodable(TextsOf(c, CriterionRules))
      /\ \A s \in ToSet(raw.subtasks) : AllEncodable(TextsOf(s, SubtaskRules))
      /\ \A m \in ToSet(raw.recommended_models) : AllEncodable(TextsOf(m, RecommendationRules))
  BY HashableParts
<1>4. normal.scope.encodable
  BY <1>2, <1>3, FilledFacts DEF AnalysisFields
<1>5. \A c \in ToSet(normal.acceptance_criteria) : AllEncodable(TextsOf(c, CriterionRules))
  <2>1. \A i \in DOMAIN raw.acceptance_criteria :
          AllEncodable(TextsOf(Folded(raw.acceptance_criteria[i]), CriterionRules))
    BY <1>3, ListsOfAnalysis, FoldedCriterion DEF ToSet
  <2> QED
    BY <2>1, <1>1 DEF ToSet
<1>6. \A s \in ToSet(normal.subtasks) : AllEncodable(TextsOf(s, SubtaskRules))
  <2>1. \A i \in DOMAIN raw.subtasks :
          AllEncodable(TextsOf(UniqueLists(raw.subtasks[i], SubtaskRules), SubtaskRules))
    BY <1>3, ListsOfAnalysis, UniqueSubtask DEF ToSet
  <2> QED
    BY <2>1, <1>1 DEF ToSet
<1>7. \A m \in ToSet(normal.recommended_models) : AllEncodable(TextsOf(m, RecommendationRules))
  <2>1. \A i \in DOMAIN raw.recommended_models :
          AllEncodable(TextsOf(UniqueLists(raw.recommended_models[i], RecommendationRules),
                               RecommendationRules))
    BY <1>3, ListsOfAnalysis, UniqueRecommendation DEF ToSet
  <2> QED
    BY <2>1, <1>1 DEF ToSet
<1>8. AllEncodable(TextsOf(normal, AnalysisRules))
  <2>1. ASSUME NEW f \in DOMAIN AnalysisRules.texts \cup DOMAIN AnalysisRules.choices
        PROVE  normal[f].encodable
    <3>1. normal[f] = Filled(raw)[f]
      BY <1>2, AnalysisRuleFacts DEF AnalysisFields
    <3>2. Filled(raw)[f] \in TextsOf(Filled(raw), AnalysisRules)
      BY DEF TextsOf
    <3> QED
      BY <3>1, <3>2, <1>3 DEF AllEncodable
  <2>2. ASSUME NEW f \in DOMAIN AnalysisRules.lists, NEW text \in ToSet(normal[f])
        PROVE  text.encodable
    <3>1. \A t \in ToSet(raw[f]) : t.encodable
      <4>1. Filled(raw)[f] = raw[f]
        BY FilledFacts, AnalysisRuleFacts DEF AnalysisFields
      <4> QED
        BY <4>1, <1>3 DEF TextsOf, AllEncodable
    <3>2. CASE f = "tags"
      <4>1. raw.tags \in Seq(AnyText)
        BY ListsOfAnalysis
      <4>2. PICK t \in ToSet(raw.tags) : text = Lower(t)
        BY <3>2, <4>1, <1>1, TagsFacts
      <4>3. t \in AnyText
        BY <4>1, <4>2, ElementOfSeq, LenProperties DEF ToSet
      <4>4. Lower(t).encodable = t.encodable /\ t.encodable
        BY <3>1, <3>2, <4>2, <4>3, LowerFacts
      <4> QED
        BY <4>2, <4>4
    <3>3. CASE f # "tags"
      <4>1. f \in {"technology_stack", "risks", "clarification_questions"}
        BY <3>3, AnalysisRuleFacts
      <4>2. raw[f] \in Seq(AnyText)
        BY <4>1, ListsOfAnalysis
      <4>3. ToSet(normal[f]) = ToSet(raw[f])
        BY <4>1, <4>2, <1>2, DedupeFacts
      <4> QED
        BY <4>3, <3>1
    <3> QED
      BY <3>2, <3>3
  <2> QED
    BY <2>1, <2>2 DEF TextsOf, AllEncodable
<1>9. Hashable(normal)
  BY <1>2, <1>4, <1>5, <1>6, <1>7, <1>8, HashableParts
<1> QED
  BY <1>9 DEF normal

\* A normal form passes the checks its raw form passed, unless folding the case
\* made a tag or a category too long: the one way a preview can be refused.
LEMMA NormalValid ==
  ASSUME NEW raw \in RawAnalysis, ValidAnalysis(raw)
  PROVE  ValidAnalysis(Normalised(raw)) <=> ~OutgrownByLower(Normalised(raw))
<1> DEFINE normal == Normalised(raw)
<1>1. /\ normal.acceptance_criteria =
           [i \in DOMAIN raw.acceptance_criteria |-> Folded(raw.acceptance_criteria[i])]
      /\ normal.subtasks =
           [i \in DOMAIN raw.subtasks |-> UniqueLists(raw.subtasks[i], SubtaskRules)]
      /\ normal.recommended_models =
           [i \in DOMAIN raw.recommended_models |->
              UniqueLists(raw.recommended_models[i], RecommendationRules)]
      /\ normal.tags = Tags(raw.tags)
  BY NormalFields
<1>2. /\ normal \in RawAnalysis /\ Filled(normal) = normal
      /\ \A f \in AnalysisFields \ {"technology_stack", "tags", "risks",
           "clarification_questions", "acceptance_criteria", "subtasks", "recommended_models"} :
             normal[f] = Filled(raw)[f]
      /\ \A f \in {"technology_stack", "risks", "clarification_questions"} :
             normal[f] = Dedupe(raw[f]) /\ normal[f] \in Seq(AnyText)
      /\ normal.tags \in Seq(AnyText)
      /\ normal.acceptance_criteria \in Seq(RawCriterion)
      /\ normal.subtasks \in Seq(RawSubtask)
      /\ normal.recommended_models \in Seq(RawRecommendation)
  BY NormalFacts
<1> HIDE DEF normal
<1>3. Follows(Filled(raw), AnalysisRules)
  BY DEF ValidAnalysis
<1>4. /\ raw.tags \in Seq(AnyText) /\ raw.acceptance_criteria \in Seq(Or(RawCriterion))
      /\ raw.subtasks \in Seq(Or(RawSubtask))
      /\ raw.recommended_models \in Seq(Or(RawRecommendation))
      /\ raw.clarification_questions \in Seq(AnyText)
  BY ListsOfAnalysis
<1>5. ASSUME NEW f \in {"technology_stack", "risks", "clarification_questions"}
      PROVE  Strings(normal[f], AnalysisRules.lists[f])
  <2>1. f \in DOMAIN AnalysisRules.lists /\ Filled(raw)[f] = raw[f] /\ raw[f] \in Seq(AnyText)
    <3>1. f \in DOMAIN AnalysisRules.lists /\ f \in AnalysisFields \ {"goal", "planner_model"}
      BY AnalysisRuleFacts DEF AnalysisFields
    <3>2. raw[f] \in Seq(AnyText)
      BY ListsOfAnalysis
    <3> QED
      BY <3>1, <3>2, FilledFacts
  <2>2. Strings(raw[f], AnalysisRules.lists[f])
    BY <1>3, <2>1 DEF Follows
  <2> DEFINE list == AnalysisRules.lists[f]
  <2>3. list.least \in {0, 1} /\ list.most \in Nat
    BY <2>1, AnalysisRuleFacts
  <2> HIDE DEF list
  <2>4. /\ normal[f] \in Seq(AnyText) /\ ToSet(normal[f]) = ToSet(raw[f])
        /\ Len(normal[f]) <= Len(raw[f]) /\ (raw[f] # <<>> => normal[f] # <<>>)
    BY <1>2, <2>1, DedupeFacts
  <2>5. Len(raw[f]) \in list.least..list.most
        /\ \A text \in ToSet(raw[f]) : RequiredText(text, list.item)
    BY <2>2 DEF Strings, Items, list
  <2>6. /\ Len(raw[f]) \in Nat /\ (raw[f] = <<>> <=> Len(raw[f]) = 0)
        /\ Len(normal[f]) \in Nat /\ (normal[f] = <<>> <=> Len(normal[f]) = 0)
    BY <2>1, <2>4, EmptySeq, LenProperties
  <2>7. Len(normal[f]) \in list.least..list.most
    BY <2>3, <2>4, <2>5, <2>6
  <2>8. normal[f] # Wrong
    BY <2>4, WrongAssumption
  <2> QED
    BY <2>4, <2>5, <2>7, <2>8 DEF Strings, Items, list
<1>6. Strings(normal.tags, AnalysisRules.lists.tags) <=> \A tag \in ToSet(normal.tags) : tag.size <= 500
  <2> DEFINE list == AnalysisRules.lists.tags
  <2>1. list.least = 1 /\ list.most = 12 /\ list.item = 500
    BY AnalysisRuleFacts DEF List
  <2> HIDE DEF list
  <2>2. Strings(raw.tags, list)
    <3>1. "tags" \in DOMAIN AnalysisRules.lists /\ Filled(raw)["tags"] = raw["tags"]
      BY FilledFacts, AnalysisRuleFacts DEF AnalysisFields
    <3> QED
      BY <1>3, <3>1 DEF Follows, list
  <2>3. /\ Len(raw.tags) \in list.least..list.most
        /\ \A text \in ToSet(raw.tags) : RequiredText(text, list.item)
    BY <2>2 DEF Strings, Items
  <2>4. /\ ToSet(normal.tags) = {Lower(t) : t \in ToSet(raw.tags)}
        /\ Len(normal.tags) <= Len(raw.tags) /\ (raw.tags # <<>> => normal.tags # <<>>)
    BY <1>1, <1>4, TagsFacts
  <2>5. /\ Len(raw.tags) \in Nat /\ (raw.tags = <<>> <=> Len(raw.tags) = 0)
        /\ Len(normal.tags) \in Nat /\ (normal.tags = <<>> <=> Len(normal.tags) = 0)
    BY <1>2, <1>4, EmptySeq, LenProperties
  <2>6. Len(normal.tags) \in list.least..list.most
    <3>1. list.least \in {0, 1} /\ list.most \in Nat
      BY <2>1
    <3> QED
      BY <3>1, <2>3, <2>4, <2>5
  <2>7. ASSUME NEW tag \in ToSet(normal.tags) PROVE RequiredText(tag, list.item) <=> tag.size <= 500
    <3>1. PICK t \in ToSet(raw.tags) : tag = Lower(t)
      BY <2>4
    <3>2. t \in AnyText
      BY <1>4, <3>1, ElementOfSeq, LenProperties DEF ToSet
    <3>3. t.size >= 1 /\ t.size \in Nat
      BY <2>1, <2>3, <3>1, <3>2 DEF RequiredText, AnyText
    <3>4. tag.size \in Nat /\ tag.size >= t.size
      BY <3>1, <3>2, LowerFacts DEF AnyText
    <3> QED
      BY <2>1, <3>3, <3>4 DEF RequiredText
  <2>8. normal.tags # Wrong
    BY <1>2, WrongAssumption
  <2> QED
    BY <2>6, <2>7, <2>8 DEF Strings, Items, list
<1>7. Follows(normal, AnalysisRules) <=> \A tag \in ToSet(normal.tags) : tag.size <= 500
  <2>1. normal # Wrong
    BY <1>2, WrongAssumption
  <2>2. /\ \A f \in DOMAIN AnalysisRules.texts : RequiredText(normal[f], AnalysisRules.texts[f])
        /\ \A f \in DOMAIN AnalysisRules.choices : Choice(normal[f], AnalysisRules.choices[f])
        /\ \A f \in AnalysisRules.percents : normal[f] \in 60..100
    <3>1. \A f \in DOMAIN AnalysisRules.texts \cup DOMAIN AnalysisRules.choices \cup AnalysisRules.percents :
            normal[f] = Filled(raw)[f]
      <4>1. \A f \in DOMAIN AnalysisRules.texts \cup DOMAIN AnalysisRules.choices \cup AnalysisRules.percents :
              f \in AnalysisFields \ {"technology_stack", "tags", "risks",
                                     "clarification_questions", "acceptance_criteria",
                                     "subtasks", "recommended_models"}
        BY AnalysisRuleFacts DEF AnalysisFields
      <4> QED
        BY <4>1, <1>2
    <3> QED
      BY <3>1, <1>3 DEF Follows
  <2>3. (\A f \in DOMAIN AnalysisRules.lists : Strings(normal[f], AnalysisRules.lists[f]))
          <=> Strings(normal["tags"], AnalysisRules.lists["tags"])
    BY <1>5, AnalysisRuleFacts
  <2> QED
    BY <1>6, <2>1, <2>2, <2>3 DEF Follows
<1>8. (\A c \in ToSet(normal.acceptance_criteria) : Follows(c, CriterionRules))
        <=> \A c \in ToSet(normal.acceptance_criteria) : c.category.size <= 80
  <2>1. \A i \in DOMAIN raw.acceptance_criteria :
          Folded(raw.acceptance_criteria[i]).category.size <= 80
            <=> Follows(Folded(raw.acceptance_criteria[i]), CriterionRules)
    BY ListsOfAnalysis, FoldedCriterion
  <2>2. ToSet(normal.acceptance_criteria) =
          {Folded(raw.acceptance_criteria[i]) : i \in DOMAIN raw.acceptance_criteria}
    BY <1>1 DEF ToSet
  <2> QED
    BY <2>1, <2>2
<1>9. \A s \in ToSet(normal.subtasks) : ValidSubtask(s)
  <2>1. \A i \in DOMAIN raw.subtasks : ValidSubtask(UniqueLists(raw.subtasks[i], SubtaskRules))
    BY ListsOfAnalysis, UniqueSubtask
  <2> QED
    BY <2>1, <1>1 DEF ToSet
<1>10. \A m \in ToSet(normal.recommended_models) : Follows(m, RecommendationRules)
  <2>1. \A i \in DOMAIN raw.recommended_models :
          Follows(UniqueLists(raw.recommended_models[i], RecommendationRules), RecommendationRules)
    BY ListsOfAnalysis, UniqueRecommendation
  <2> QED
    BY <2>1, <1>1 DEF ToSet
<1>11. /\ Items(normal.acceptance_criteria, 1, 20) /\ Items(normal.subtasks, 0, 12)
       /\ Items(normal.recommended_models, 1, 12)
       /\ Len(normal.subtasks) = Len(raw.subtasks)
       /\ (normal.subtasks = <<>> <=> raw.subtasks = <<>>)
  <2>1. Len(normal.acceptance_criteria) = Len(raw.acceptance_criteria)
    <3>1. \A i \in DOMAIN raw.acceptance_criteria : normal.acceptance_criteria[i] \in RawCriterion
      BY <1>1, ListsOfAnalysis, FoldedCriterion
    <3>2. normal.acceptance_criteria =
            [i \in DOMAIN raw.acceptance_criteria |-> normal.acceptance_criteria[i]]
      BY <1>1
    <3> QED
      BY <1>4, <3>1, <3>2, MapFacts
  <2>2. Len(normal.subtasks) = Len(raw.subtasks) /\ (normal.subtasks = <<>> <=> raw.subtasks = <<>>)
    <3>1. \A i \in DOMAIN raw.subtasks : normal.subtasks[i] \in RawSubtask
      BY <1>1, ListsOfAnalysis, UniqueSubtask
    <3>2. normal.subtasks = [i \in DOMAIN raw.subtasks |-> normal.subtasks[i]]
      BY <1>1
    <3>3. raw.subtasks \in Seq(Or(RawSubtask))
      BY <1>4
    <3> QED
      BY <3>1, <3>2, <3>3, MapFacts
  <2>3. Len(normal.recommended_models) = Len(raw.recommended_models)
    <3>1. \A i \in DOMAIN raw.recommended_models : normal.recommended_models[i] \in RawRecommendation
      BY <1>1, ListsOfAnalysis, UniqueRecommendation
    <3>2. normal.recommended_models =
            [i \in DOMAIN raw.recommended_models |-> normal.recommended_models[i]]
      BY <1>1
    <3> QED
      BY <1>4, <3>1, <3>2, MapFacts
  <2>4. /\ normal.acceptance_criteria # Wrong /\ normal.subtasks # Wrong
        /\ normal.recommended_models # Wrong
    <3>1. /\ Seq(RawCriterion) \subseteq Seq(Or(RawCriterion))
          /\ Seq(RawSubtask) \subseteq Seq(Or(RawSubtask))
          /\ Seq(RawRecommendation) \subseteq Seq(Or(RawRecommendation))
      BY SeqDef DEF Or
    <3> QED
      BY <3>1, <1>2, WrongAssumption
  <2>5. /\ Len(raw.acceptance_criteria) \in 1..20 /\ Len(raw.subtasks) \in 0..12
        /\ Len(raw.recommended_models) \in 1..12
    BY DEF ValidAnalysis, Items
  <2> QED
    BY <2>1, <2>2, <2>3, <2>4, <2>5 DEF Items
<1>12. /\ normal.scope.size <= 10000
       /\ normal.split_recommended \in BOOLEAN
       /\ IF normal.split_recommended THEN Len(normal.subtasks) >= 2 ELSE normal.subtasks = <<>>
       /\ normal.needs_clarification \in BOOLEAN
       /\ normal.needs_clarification => normal.clarification_questions # <<>>
  <2>1. /\ normal.scope = raw.scope /\ normal.split_recommended = raw.split_recommended
        /\ normal.needs_clarification = raw.needs_clarification
    <3>1. {"scope", "split_recommended", "needs_clarification"} \subseteq
            AnalysisFields \ {"technology_stack", "tags", "risks", "clarification_questions",
                             "acceptance_criteria", "subtasks", "recommended_models",
                             "goal", "planner_model"}
      BY DEF AnalysisFields
    <3>2. \A f \in {"scope", "split_recommended", "needs_clarification"} : normal[f] = raw[f]
      BY <1>2, <3>1, FilledFacts
    <3> QED
      BY <3>2
  <2>2. raw.clarification_questions # <<>> => normal.clarification_questions # <<>>
    <3>1. normal.clarification_questions = Dedupe(raw.clarification_questions)
      BY <1>2
    <3> QED
      BY <1>4, <3>1, DedupeFacts
  <2>3. /\ raw.scope.size <= 10000
        /\ raw.split_recommended \in BOOLEAN
        /\ IF raw.split_recommended THEN Len(raw.subtasks) >= 2 ELSE raw.subtasks = <<>>
        /\ raw.needs_clarification \in BOOLEAN
        /\ raw.needs_clarification => raw.clarification_questions # <<>>
    BY DEF ValidAnalysis
  <2> QED
    BY <2>1, <2>2, <2>3, <1>11
<1>13. ValidAnalysis(normal) <=>
         /\ Follows(normal, AnalysisRules)
         /\ \A c \in ToSet(normal.acceptance_criteria) : Follows(c, CriterionRules)
  BY <1>2, <1>9, <1>10, <1>11, <1>12 DEF ValidAnalysis
<1>14. OutgrownByLower(normal) <=>
         \/ ~\A tag \in ToSet(normal.tags) : tag.size <= 500
         \/ ~\A c \in ToSet(normal.acceptance_criteria) : c.category.size <= 80
  <2>1. \A tag \in ToSet(normal.tags) : tag.size \in Nat
    <3>1. \A i \in DOMAIN normal.tags : normal.tags[i] \in AnyText
      BY <1>2, ElementOfSeq, LenProperties
    <3> QED
      BY <3>1 DEF ToSet, AnyText
  <2>2. \A c \in ToSet(normal.acceptance_criteria) : c.category.size \in Nat
    <3>1. \A i \in DOMAIN normal.acceptance_criteria :
            normal.acceptance_criteria[i] \in RawCriterion
      BY <1>2, ElementOfSeq, LenProperties
    <3> QED
      BY <3>1 DEF ToSet, AnyText, RawCriterion
  <2> QED
    BY <2>1, <2>2 DEF OutgrownByLower
<1>15. ValidAnalysis(normal) <=> ~OutgrownByLower(normal)
  BY <1>7, <1>8, <1>13, <1>14
<1> QED
  BY <1>15 DEF normal

----------------------------------------------------------------------------
(* The preview, and what confirming it comes to *)

\* What a planner's reply may be shown as.
NormalForms == {Normalised(raw) : raw \in {r \in RawAnalysis : ValidAnalysis(r) /\ Hashable(r)}}

\* A confirmation ends as its analysis deserves if nothing else goes wrong.
Comprehensible == request.token /\ request.form = "object"
Refusable == request.analysis = Wrong \/ ~ValidAnalysis(request.analysis)
ConfirmFollows ==
  /\ phase = "answering" =>
       IF Refusable THEN status = 400
       ELSE Hashable(request.analysis) => status = 201 /\ made = ContentHash(request.analysis)
  /\ phase = "raised" =>
       IF Refusable THEN error.class = "TaskAnalysisError" ELSE ~Hashable(request.analysis)

\* The client's preview, and the answer under way to become it, are normal forms.
PreviewInv ==
  /\ preview = Wrong \/ preview \in NormalForms
  /\ phase # "idle" /\ request.endpoint = "analyze" /\ Comprehensible => request.ask \in Goals
  /\ phase = "answering" /\ request.endpoint = "analyze" /\ status = 200 => made \in NormalForms
  /\ request.endpoint = "confirm" /\ Comprehensible /\ trouble = "none" => ConfirmFollows

\* A step that neither raises nor answers.
LEMMA PreviewProceed ==
  ASSUME PreviewInv, phase # "idle", phase' \notin {"raised", "answering"},
         UNCHANGED <<request, preview>>
  PROVE  PreviewInv'
<1>1. ConfirmFollows' /\ Comprehensible' = Comprehensible
  BY DEF ConfirmFollows, Comprehensible
<1> QED
  BY <1>1 DEF PreviewInv

\* An exception, unless it is what the confirmation itself has to say.
LEMMA PreviewRaise ==
  ASSUME PreviewInv, phase # "idle", NEW x, NEW changed, NEW cause, Raise(x, changed, cause),
         UNCHANGED <<request, preview>>,
         cause # "none" \/ request.endpoint # "confirm" \/ ~Comprehensible
  PROVE  PreviewInv'
<1>1. phase' = "raised" /\ trouble' = cause /\ Comprehensible' = Comprehensible
  BY DEF Raise, Comprehensible
<1> QED
  BY <1>1 DEF PreviewInv

\* An answer of an endpoint that shows and confirms nothing.
LEMMA PreviewRespond ==
  ASSUME PreviewInv, phase # "idle", NEW code, NEW changed, Respond(code, changed),
         UNCHANGED <<request, preview>>, request.endpoint \notin {"analyze", "confirm"}
  PROVE  PreviewInv'
<1>1. phase' = "answering" /\ Comprehensible' = Comprehensible
  BY DEF Respond, Comprehensible
<1> QED
  BY <1>1 DEF PreviewInv

\* The checks before the handler: what they refuse is not a confirmation, or was
\* refused for a reason of the server's.
LEMMA PreviewBefore ==
  ASSUME PreviewInv, Authorize \/ RateLimit \/ ReadJson \/ Serve \/ Reject
  PROVE  PreviewInv'
<1>1. phase = "serving" /\ UNCHANGED <<request, preview>>
  BY DEF Authorize, RateLimit, ReadJson, Serve, Reject, At, client, world
<1>2. Proceed => PreviewInv'
  BY <1>1, PreviewProceed DEF Proceed
<1>3. CASE Authorize
  <2>1. Proceed \/ (~Comprehensible /\ Raise(Refused(401), FALSE, "none"))
    BY <1>3 DEF Authorize, Comprehensible
  <2>2. ASSUME ~Comprehensible, Raise(Refused(401), FALSE, "none") PROVE PreviewInv'
    <3>1. phase # "idle"
      BY <1>1
    <3> QED
      BY <1>1, <2>2, <3>1, PreviewRaise, Zenon
  <2> QED
    BY <1>2, <2>1, <2>2
<1>4. CASE RateLimit
  <2>1. Proceed \/ Raise(Refused(429), FALSE, "limited")
    BY <1>4 DEF RateLimit
  <2>2. ASSUME Raise(Refused(429), FALSE, "limited") PROVE PreviewInv'
    <3>1. phase # "idle" /\ "limited" # "none"
      BY <1>1
    <3> QED
      BY <1>1, <2>2, <3>1, PreviewRaise, Zenon
  <2> QED
    BY <1>2, <2>1, <2>2
<1>5. CASE ReadJson
  <2>1. \/ Proceed
        \/ /\ ~Comprehensible
           /\ Raise(Refused(400), FALSE, "none") \/ Raise(Raised("Unforeseen"), FALSE, "none")
    BY <1>5 DEF ReadJson, Comprehensible
  <2> QED
    BY <1>1, <1>2, <2>1, PreviewRaise
<1>6. CASE Serve
  <2>1. Proceed \/ Raise(Raised("Unforeseen"), FALSE, "no_service")
    BY <1>6 DEF Serve
  <2>2. Raise(Raised("Unforeseen"), FALSE, "no_service") => PreviewInv'
    BY <1>1, PreviewRaise
  <2> QED
    BY <1>2, <2>1, <2>2
<1>7. CASE Reject
  <2>1. /\ ~Comprehensible \/ request.endpoint # "confirm"
        /\ \/ Raise(NotAnObject(request.endpoint), FALSE, "none")
           \/ Raise(FaultError(request.endpoint, request.fault), FALSE, "none")
    BY <1>7 DEF Reject, Comprehensible
  <2> QED
    BY <1>1, <2>1, PreviewRaise
<1> QED
  BY <1>3, <1>4, <1>5, <1>6, <1>7

\* The other endpoints.
LEMMA PreviewElsewhere ==
  ASSUME PreviewInv, Dispatch \/ Simulate \/ Look \/ LookUp \/ Create \/ Update \/ Delete
  PROVE  PreviewInv'
<1>1. phase = "serving" /\ UNCHANGED <<request, preview>>
  BY DEF Dispatch, Simulate, Look, LookUp, Create, Update, Delete, Sound, To, At, client, world
<1>2. request.endpoint \notin {"analyze", "confirm"}
  BY DEF Dispatch, Simulate, Look, LookUp, Create, Update, Delete, Sound, To, Dispatches, Unserved
<1>3. (\E code, changed : Respond(code, changed)) \/ (\E x, changed, cause : Raise(x, changed, cause))
  <2>1. CASE Dispatch
    BY <2>1, Zenon DEF Dispatch
  <2>2. CASE Simulate \/ Create
    BY <2>2, Zenon DEF Simulate, Create, DatabaseBusy
  <2>5. CASE Look
    BY <2>5, Zenon DEF Look
  <2>6. CASE LookUp
    BY <2>6, Zenon DEF LookUp, DatabaseBusy
  <2>3. CASE Update
    BY <2>3 DEF Update, DatabaseBusy
  <2>4. CASE Delete
    BY <2>4 DEF Delete, DatabaseBusy
  <2> QED
    BY <2>1, <2>2, <2>3, <2>4, <2>5, <2>6
<1> QED
  BY <1>1, <1>2, <1>3, PreviewRaise, PreviewRespond

\* What an analysis is answered with is a normal form.
LEMMA PreviewAnalyze ==
  ASSUME GatewayInv, PreviewInv, Analyze
  PROVE  PreviewInv'
<1> DEFINE ask == request.ask
           Raw(reply) == [reply EXCEPT !.goal = ask.goal, !.scope = ask.scope]
<1>1. /\ phase = "serving" /\ request.endpoint = "analyze" /\ Comprehensible
      /\ UNCHANGED <<request, preview>>
  BY AtStep DEF Analyze, To, At, client, Comprehensible, Open
<1>2. \/ \E x, cause : Raise(x, FALSE, cause)
      \/ /\ GoalAccepted(ask) /\ Respond(200, FALSE)
         /\ \E reply \in Replies :
              ValidAnalysis(Raw(reply)) /\ Hashable(Raw(reply)) /\ made' = Normalised(Raw(reply))
  BY DEF Analyze
<1>3. CASE \E x, cause : Raise(x, FALSE, cause)
  BY <1>1, <1>3, PreviewRaise
<1>4. ASSUME GoalAccepted(ask), Respond(200, FALSE), NEW reply \in Replies,
             ValidAnalysis(Raw(reply)), Hashable(Raw(reply)), made' = Normalised(Raw(reply))
      PROVE  PreviewInv'
  <2>1. ask.goal \in AnyText /\ ask.scope \in AnyText
    <3> HIDE DEF ask
    <3>1. ask \in Goals
      BY <1>1 DEF PreviewInv, ask
    <3>2. ask \in [goal : AnyText, scope : Or(AnyText)]
      BY <3>1, GatewayAssumption
    <3>3. ask.goal \in AnyText /\ ask.scope \in Or(AnyText)
      BY <3>2
    <3>4. ask.scope # Wrong
      BY <1>4 DEF GoalAccepted
    <3> QED
      BY <3>3, <3>4 DEF Or
  <2>2. Raw(reply) \in RawAnalysis
    <3>1. reply \in RawAnalysis
      BY GatewayAssumption
    <3> HIDE DEF ask
    <3> QED
      BY <2>1, <3>1 DEF RawAnalysis
  <2>3. made' \in NormalForms
    BY <1>4, <2>2 DEF NormalForms
  <2>4. phase' = "answering" /\ Comprehensible' = Comprehensible
    BY <1>1, <1>4 DEF Respond, Comprehensible
  <2> QED
    BY <1>1, <2>3, <2>4 DEF PreviewInv
<1> QED
  BY <1>2, <1>3, <1>4

\* A confirmation is refused when the analysis is not valid, goes under when it
\* cannot be encoded, and otherwise is served unless the server is in trouble.
LEMMA PreviewConfirm ==
  ASSUME GatewayInv, PreviewInv, Confirm
  PROVE  PreviewInv'
<1>1. /\ phase = "serving" /\ request.endpoint = "confirm" /\ Comprehensible
      /\ UNCHANGED <<request, preview>>
  BY AtStep DEF Confirm, To, At, client, Comprehensible, Open
<1>2. Refusable' = Refusable /\ Comprehensible' = Comprehensible
  BY <1>1 DEF Refusable, Comprehensible
<1>3. CASE Refusable
  <2>1. \E x : x.class = "TaskAnalysisError" /\ Raise(x, FALSE, "none")
    BY <1>3 DEF Confirm, Refusable, Raised, Unsayable
  <2>2. phase' = "raised" /\ error'.class = "TaskAnalysisError"
    BY <2>1 DEF Raise
  <2>3. ConfirmFollows'
    BY <1>2, <1>3, <2>2 DEF ConfirmFollows
  <2> QED
    BY <1>1, <2>2, <2>3 DEF PreviewInv
<1>4. CASE ~Refusable /\ ~Hashable(request.analysis)
  <2>1. phase' = "raised"
    BY <1>4 DEF Confirm, Refusable, Raise
  <2>2. ConfirmFollows'
    BY <1>1, <1>2, <1>4, <2>1 DEF ConfirmFollows
  <2> QED
    BY <1>1, <2>1, <2>2 DEF PreviewInv
<1>5. CASE ~Refusable /\ Hashable(request.analysis)
  <2>1. \/ Respond(201, TRUE) /\ made' = ContentHash(request.analysis)
        \/ Raise(Raised("Unforeseen"), FALSE, "busy")
        \/ SaveFails
    BY <1>5 DEF Confirm, Refusable, DatabaseBusy
  <2>2. CASE Raise(Raised("Unforeseen"), FALSE, "busy")
    <3>1. phase # "idle" /\ "busy" # "none"
      BY <1>1
    <3> QED
      BY <1>1, <2>2, <3>1, PreviewRaise, Zenon
  <2>4. CASE SaveFails
    <3>1. \E x, changed, cause : Raise(x, changed, cause) /\ cause # "none"
      <4>1. "disk" # "none" /\ "kept" # "none"
        OBVIOUS
      <4> QED
        BY <2>4, <4>1, Zenon DEF SaveFails
    <3> QED
      BY <1>1, <3>1, PreviewRaise
  <2>3. CASE Respond(201, TRUE) /\ made' = ContentHash(request.analysis)
    <3>1. phase' = "answering" /\ status' = 201
      BY <2>3 DEF Respond
    <3>2. made' = ContentHash(request'.analysis)
      BY <1>1, <2>3
    <3>3. ConfirmFollows'
      BY <1>2, <1>5, <3>1, <3>2 DEF ConfirmFollows
    <3> QED
      BY <1>1, <3>1, <3>3 DEF PreviewInv
  <2> QED
    BY <2>1, <2>2, <2>3, <2>4
<1> QED
  BY <1>3, <1>4, <1>5

\* The refusal of an analysis is a 400.
LEMMA PreviewSafeError ==
  ASSUME GatewayInv, PreviewInv, SafeError
  PROVE  PreviewInv'
<1>1. /\ phase = "raised" /\ UNCHANGED <<request, preview, made, error, trouble>>
      /\ \/ phase' = "answering" /\ status' = StatusOf(error)
         \/ phase' = "closed"
  BY DEF SafeError, client, world
<1>2. status' = StatusOf(error) => status' # 200
  <2>1. IsException(error)
    BY <1>1 DEF GatewayInv, TypeOK, Orderly, IsException
  <2> QED
    BY <2>1, StatusKnown
<1>3. Refusable' = Refusable /\ Comprehensible' = Comprehensible
  BY <1>1 DEF Refusable, Comprehensible
<1>4. CASE phase' = "closed"
  BY <1>1, <1>4, PreviewProceed
<1>5. CASE phase' = "answering" /\ status' = StatusOf(error)
  <2>1. ASSUME request.endpoint = "confirm", Comprehensible, trouble = "none"
        PROVE  ConfirmFollows'
    <3>1. IF Refusable THEN error.class = "TaskAnalysisError" ELSE ~Hashable(request.analysis)
      BY <1>1, <2>1 DEF PreviewInv, ConfirmFollows
    <3>2. Refusable => status' = 400
      BY <1>5, <3>1, StatusFacts
    <3> QED
      BY <1>1, <1>3, <1>5, <3>1, <3>2 DEF ConfirmFollows
  <2> QED
    BY <1>1, <1>2, <1>3, <1>5, <2>1 DEF PreviewInv
<1> QED
  BY <1>1, <1>4, <1>5

\* The client, the connection and the process: only what was delivered becomes the
\* preview.
LEMMA PreviewOutside ==
  ASSUME GatewayInv, PreviewInv,
         Send \/ Retry \/ GiveUp \/ Deliver \/ Lose \/ Restart \/ OtherClients
  PROVE  PreviewInv'
<1>1. CASE Send
  <2>1. preview' = preview /\ phase' = "serving"
    BY <1>1 DEF Send, Serving
  <2>2. request'.endpoint = "analyze" /\ Comprehensible' => request'.ask \in Goals
    BY <1>1 DEF Send, Comprehensible, Request, Asking, Confirming, With, Unreadable
  <2> QED
    BY <2>1, <2>2 DEF PreviewInv, ConfirmFollows
<1>2. CASE Retry
  <2>1. phase = "over" /\ phase' = "serving" /\ UNCHANGED <<request, preview>>
    BY <1>2 DEF Retry, Serving
  <2> QED
    BY <2>1, PreviewProceed
<1>3. CASE GiveUp
  <2>1. phase' = "idle" /\ UNCHANGED preview
    BY <1>3 DEF GiveUp
  <2> QED
    BY <2>1 DEF PreviewInv, ConfirmFollows
<1>4. CASE Deliver
  <2>1. phase = "answering" /\ phase' = "over" /\ request' = request
        /\ preview' = IF request.endpoint = "analyze" /\ status = 200 THEN made ELSE preview
    BY <1>4 DEF Deliver, Ends
  <2>2. preview' = Wrong \/ preview' \in NormalForms
    BY <2>1 DEF PreviewInv
  <2>3. Comprehensible' = Comprehensible
    BY <2>1 DEF Comprehensible
  <2> QED
    BY <2>1, <2>2, <2>3 DEF PreviewInv, ConfirmFollows
<1>5. CASE Lose \/ Restart
  <2>1. phase # "idle" /\ phase' = "over" /\ UNCHANGED <<request, preview>>
    BY <1>5 DEF Lose, Restart, Ends
  <2> QED
    BY <2>1, PreviewProceed
<1>6. CASE OtherClients
  <2>1. phase \in {"serving", "over"} /\ phase' = phase /\ UNCHANGED <<request, preview>>
    BY <1>6 DEF OtherClients, client
  <2> QED
    BY <2>1, PreviewProceed
<1> QED
  BY <1>1, <1>2, <1>3, <1>4, <1>5, <1>6

\* Every step of the gateway keeps the preview a normal form.
LEMMA PreviewNext == GatewayInv /\ PreviewInv /\ [Next]_vars => PreviewInv'
<1> SUFFICES ASSUME GatewayInv, PreviewInv, [Next]_vars PROVE PreviewInv'
  OBVIOUS
<1>1. CASE UNCHANGED vars
  BY <1>1 DEF vars, PreviewInv, Comprehensible, Refusable, ConfirmFollows
<1> QED
  BY <1>1, PreviewOutside, PreviewBefore, PreviewElsewhere, PreviewAnalyze, PreviewConfirm,
     PreviewSafeError DEF Next

\* What has been said of normal forms, together.
LEMMA NormalFormFacts ==
  ASSUME NEW analysis \in NormalForms
  PROVE  /\ ValidAnalysis(analysis) <=> ~OutgrownByLower(analysis)
         /\ Hashable(analysis) /\ ContentHash(analysis) = analysis
<1>1. PICK raw \in RawAnalysis :
        ValidAnalysis(raw) /\ Hashable(raw) /\ analysis = Normalised(raw)
  BY DEF NormalForms
<1>2. ValidAnalysis(analysis) <=> ~OutgrownByLower(analysis)
  BY <1>1, NormalValid
<1>3. Hashable(analysis)
  BY <1>1, NormalHashable
<1>4. Normalised(analysis) = analysis
  BY <1>1, NormalIsNormal
<1> QED
  BY <1>2, <1>3, <1>4 DEF ContentHash

----------------------------------------------------------------------------
(* The theorems *)

\* Whatever the planner replies, whatever the client makes up and whenever the
\* connection breaks or the process restarts: a handler goes through its steps
\* in order, and what it did or could not do is accounted for.
THEOREM GatewayInvariant == Spec => []GatewayInv
  BY InitInv, NextInv, PTL DEF Spec

\* Every answer has a status this server knows, and the planning service is never
\* there without the task service.
THEOREM TypeCorrect == Spec => []TypeOK
<1>1. GatewayInv => TypeOK
  BY DEF GatewayInv
<1> QED
  BY <1>1, GatewayInvariant, PTL

\* The status of an answer tells whose fault it was: a client is blamed for its
\* request or the state of the task and not for the planner, a 502 or 503 is the
\* planner's, and a 500 of the task and planning endpoints the server's own.
THEOREM RightPartyBlamed == Spec => []BlameIsRight
<1>1. GatewayInv => BlameIsRight
  BY DEF GatewayInv, BlameToCome, BlameFor, BlameIsRight
<1> QED
  BY <1>1, GatewayInvariant, PTL

\* What took effect twice was left in the dark the first time, and was neither a
\* delete nor an update that names the version it is of.
THEOREM RepeatsHaveCause == Spec => []DoneTwiceHasCause
<1>1. GatewayInv => DoneTwiceHasCause
  <2> SUFFICES ASSUME GatewayInv, NEW i \in DOMAIN tries, NEW j \in DOMAIN tries,
                      i < j, tries[i].effect, tries[j].effect
               PROVE  /\ ~tries[i].delivered \/ tries[i].trouble \in {"broke_off", "kept"}
                      /\ request.endpoint # "delete"
                      /\ request.endpoint = "update" => request.version = NoVersion
    BY DEF DoneTwiceHasCause
  <2>1. i < Len(tries) /\ i # j
    <3>1. tries \in Seq(Try)
      BY DEF GatewayInv, Orderly
    <3>2. DOMAIN tries = 1..Len(tries) /\ Len(tries) \in Nat
      BY <3>1, LenProperties
    <3> QED
      BY <3>2
  <2>2. ~tries[i].delivered \/ tries[i].trouble \in Excuses
    <3>1. ~tries[i].delivered \/ tries[i].status \in Again
      BY <2>1 DEF GatewayInv, EffectsExplained
    <3>2. ~tries[i].delivered \/ tries[i].status \in {200, 201, 204} \/ tries[i].trouble \in Excuses
      BY DEF GatewayInv, EffectsExplained
    <3>3. tries[i].status \in Again => tries[i].status \notin {200, 201, 204}
      BY DEF Again
    <3> QED
      BY <3>1, <3>2, <3>3
  <2>3. Done
    BY DEF Done
  <2>4. ~OneShot
    BY <2>1, <2>3 DEF GatewayInv, OneShotsAreSpent
  <2>5. request.endpoint = "update" => request.token /\ request.form = "object"
    BY <2>3 DEF GatewayInv, OneShotsAreSpent
  <2> QED
    BY <2>2, <2>4, <2>5 DEF Excuses, OneShot
<1> QED
  BY <1>1, GatewayInvariant, PTL

\* An analysis that is confirmed as it was shown becomes a plan with the hash of
\* what was shown, whatever the planner replied; it is refused only where folding
\* the case made a tag or a category longer than the checks allow.
THEOREM PreviewIsConfirmed == Spec => []PreviewConfirms
<1>1. Init => PreviewInv
  BY DEF Init, PreviewInv, NoRequest, ConfirmFollows
<1>2. PreviewInv => PreviewConfirms
  <2> SUFFICES ASSUME PreviewInv, phase = "answering", request.endpoint = "confirm",
                      preview # Wrong, request.form = "object", trouble = "none",
                      request.token, request.analysis = preview
               PROVE  IF OutgrownByLower(preview) THEN status = 400
                      ELSE status = 201 /\ made = preview
    BY DEF PreviewConfirms
  <2>1. /\ ValidAnalysis(preview) <=> ~OutgrownByLower(preview)
        /\ Hashable(preview) /\ ContentHash(preview) = preview
    BY NormalFormFacts DEF PreviewInv
  <2>2. ConfirmFollows
    BY DEF PreviewInv, Comprehensible
  <2> QED
    BY <2>1, <2>2 DEF ConfirmFollows, Refusable
<1>3. Spec => [](GatewayInv /\ PreviewInv)
  BY <1>1, InitInv, NextInv, PreviewNext, PTL DEF Spec
<1> QED
  BY <1>2, <1>3, PTL

=============================================================================
