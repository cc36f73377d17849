------------------------------- MODULE Gateway -------------------------------
(***************************************************************************)
(* The dashboard server between a client and the services: what happens to *)
(* one request in its handler thread, from the check of the token to the   *)
(* status code, and what a client gets that tries again after a lost       *)
(* answer or a server error.  What other clients and the services' own     *)
(* failures do meanwhile is chosen freely and noted in `trouble`; their    *)
(* inner steps are the subject of RateLimiter, TaskCatalog and Dispatcher. *)
(* One task exists that the client may update and delete.                  *)
(***************************************************************************)
EXTENDS TaskAnalysis

CONSTANTS Goals,       \* goals and scopes the client may ask an analysis of
          Replies,     \* what the planner's model may reply, if it does
          Analyses,    \* analyses the client may make up or edit itself
          MaxVersion,  \* bound: the task is not edited beyond this version
          MaxTries     \* bound on the tries of one intent

ASSUME GatewayAssumption ==
  /\ MaxVersion \in Nat \ {0} /\ MaxTries \in Nat \ {0}
  /\ Goals \subseteq [goal : AnyText, scope : Or(AnyText)]
  /\ Replies \subseteq RawAnalysis

VARIABLES phase,     \* "idle", "serving", "raised", "answering", "closed" or "over"
          request,   \* what the client wants; it stays for the next try
          todo,      \* the steps of the handler still to come
          error,     \* the exception that ended them
          status,    \* the status code of the answer
          effect,    \* whether this try changed anything
          trouble,   \* what went wrong in this try that is not the request's fault
          tries,     \* the tries of this intent that are over
          row,       \* version of the task, or Gone
          services,  \* _TASK_SERVICE and _TASK_PLANNING_SERVICE, once made
          preview,   \* the analysis served last, as the client keeps it
          made       \* the analysis this try serves, or the content hash of its plan

vars == <<phase, request, todo, error, status, effect, trouble, tries, row, services,
          preview, made>>

----------------------------------------------------------------------------
(* Requests *)

Gone == 0
NoVersion == 0
NoPlan == [none |-> TRUE]

\* Paths nobody serves: GET, PUT and DELETE outside /api/ and within it, and POST
\* within /api/ and /v1/ and outside them.
Unserved == {"elsewhere", "unknown_api", "unknown_post", "stray_post"}
Posts == {"chat", "route", "simulate", "analyze", "confirm", "create", "unknown_post", "stray_post"}
Dispatches == {"chat", "route"}
PlanningEndpoints == {"analyze", "confirm", "plan"}
TaskEndpoints == {"create", "update", "delete", "task", "tasks"}
Endpoints == Posts \cup PlanningEndpoints \cup TaskEndpoints \cup Unserved
               \cup {"health", "page", "status"}

\* How a body may fail to be a JSON object, and what may be wrong with the
\* fields of one.  "incomplete" leaves out a required field, "odd" has a value
\* of a type nobody thought of, "unencodable" a text UTF-8 has no bytes for,
\* "unsayable" such a text where one of a few words must stand; "queue_type" is a
\* task type whose first candidate is the queue, which is no provider's model.
Unreadable == {"bad_length", "not_utf8", "not_json"}
FaultsOf(endpoint) ==
  CASE endpoint \in Dispatches -> {"none", "invalid", "odd", "forbidden"}
    [] endpoint = "simulate" -> {"none", "invalid", "queue_type"}
    [] endpoint = "create" -> {"none", "invalid", "incomplete", "unencodable", "unsayable"}
    [] endpoint = "update" -> {"none", "invalid", "unencodable", "unsayable"}
    [] endpoint = "plan" -> {"none", "bad_id"}
    [] OTHER -> {"none"}

NoRequest == [endpoint |-> "none"]

\* The order of the checks in _do_get, _do_post, _do_put and _do_delete: a POST
\* reads its body before it knows the path, even one that needs no token, and a
\* PUT after it has the service.
Steps(endpoint) ==
  CASE endpoint \in {"health", "page", "elsewhere"} -> <<"handle">>
    [] endpoint = "stray_post" -> <<"read", "handle">>
    [] endpoint \in {"analyze", "confirm", "create"} ->
         <<"authorize", "limit", "read", "serve", "handle">>
    [] endpoint \in {"chat", "route", "simulate", "unknown_post"} ->
         <<"authorize", "limit", "read", "handle">>
    [] endpoint = "update" -> <<"authorize", "limit", "serve", "read", "handle">>
    [] endpoint \in {"delete", "task", "tasks", "plan"} ->
         <<"authorize", "limit", "serve", "handle">>
    [] endpoint \in {"status", "unknown_api"} -> <<"authorize", "limit", "handle">>

\* Mutant of Needs: the planning service is made without the task service.
NeedsOneService(endpoint) ==
  IF endpoint \in PlanningEndpoints THEN {"planning"}
  ELSE IF endpoint \in TaskEndpoints THEN {"tasks"} ELSE {}

Needs(endpoint) ==
  (IF endpoint \in TaskEndpoints \cup PlanningEndpoints THEN {"tasks"} ELSE {})
    \cup (IF endpoint \in PlanningEndpoints THEN {"planning"} ELSE {})

----------------------------------------------------------------------------
(* Exceptions *)

Ancestors ==
  [GatewayRequestError |-> {"GatewayRequestError", "ValueError"},
   TaskPlannerUnavailable |-> {"TaskPlannerUnavailable", "RuntimeError"},
   TaskPlanningFailed |-> {"TaskPlanningFailed", "TaskAnalysisError", "ValueError"},
   TaskAnalysisError |-> {"TaskAnalysisError", "ValueError"},
   TaskPlanNotFound |-> {"TaskPlanNotFound", "LookupError"},
   TaskValidationError |-> {"TaskValidationError", "ValueError"},
   TaskNotFound |-> {"TaskNotFound", "LookupError"},
   TaskConflict |-> {"TaskConflict", "RuntimeError"},
   Unforeseen |-> {}]   \* TypeError, UnicodeEncodeError, OperationalError, OSError, ...

Rung(class, code) == [class |-> class, code |-> code]

\* Mutant of Ladder: the general case before the special one.
LadderGeneralFirst ==
  <<Rung("TaskPlannerUnavailable", 503), Rung("TaskAnalysisError", 400),
    Rung("TaskPlanningFailed", 502), Rung("TaskPlanNotFound", 404),
    Rung("TaskValidationError", 400), Rung("TaskNotFound", 404), Rung("TaskConflict", 409)>>

Ladder ==
  <<Rung("TaskPlannerUnavailable", 503), Rung("TaskPlanningFailed", 502),
    Rung("TaskAnalysisError", 400), Rung("TaskPlanNotFound", 404),
    Rung("TaskValidationError", 400), Rung("TaskNotFound", 404), Rung("TaskConflict", 409)>>

\* safe_error_payload: the first rung an exception is an instance of.
StatusOf(exception) ==
  LET rungs == {i \in DOMAIN Ladder : Ladder[i].class \in Ancestors[exception.class]}
  IN IF exception.class = "GatewayRequestError" THEN exception.code
     ELSE IF rungs = {} THEN 500 ELSE Ladder[Min(rungs)].code

Raised(class) == [class |-> class, code |-> 0, sayable |-> TRUE]
Unsayable(class) == [class |-> class, code |-> 0, sayable |-> FALSE]
Refused(code) == [class |-> "GatewayRequestError", code |-> code, sayable |-> TRUE]
NoError == [class |-> "none"]

\* What a body that is no object, and a fault in one, lead to.
NotAnObject(endpoint) ==
  Raised(CASE endpoint \in {"analyze", "confirm"} -> "TaskAnalysisError"
           [] endpoint \in {"create", "update"} -> "TaskValidationError"
           [] OTHER -> "Unforeseen")
FaultError(endpoint, fault) ==
  CASE fault = "invalid" /\ endpoint = "chat" -> Refused(400)
    [] fault = "forbidden" -> Refused(403)
    [] fault = "invalid" /\ endpoint \in {"create", "update"} -> Raised("TaskValidationError")
    [] fault = "unsayable" -> Unsayable("TaskValidationError")
    [] OTHER -> Raised("Unforeseen")

----------------------------------------------------------------------------
Init ==
  /\ phase = "idle" /\ request = NoRequest /\ todo = <<>> /\ error = NoError
  /\ status = 0 /\ effect = FALSE /\ trouble = "none" /\ tries = <<>>
  /\ row = 1 /\ services = {} /\ preview = Wrong /\ made = NoPlan

Request(endpoint, token, form) == [endpoint |-> endpoint, token |-> token, form |-> form]
Asking(goal) == [endpoint |-> "analyze", token |-> TRUE, form |-> "object", ask |-> goal]
Confirming(analysis) ==
  [endpoint |-> "confirm", token |-> TRUE, form |-> "object", analysis |-> analysis]
With(endpoint, fault, version) ==
  [endpoint |-> endpoint, token |-> TRUE, form |-> "object", fault |-> fault, version |-> version]

Serving ==
  /\ phase' = "serving" /\ todo' = Steps(request'.endpoint)
  /\ error' = NoError /\ status' = 0 /\ effect' = FALSE /\ trouble' = "none" /\ made' = NoPlan
  /\ UNCHANGED <<row, services, preview>>

\* The client turns to something new.  What it confirms is the preview as it
\* was served, or an analysis of its own.
Send ==
  /\ phase = "idle"
  /\ \/ \E endpoint \in Endpoints : request' = Request(endpoint, FALSE, "object")
     \/ \E endpoint \in Posts \cup {"update"}, form \in Unreadable \cup {"not_object"} :
          request' = Request(endpoint, TRUE, form)
     \/ \E goal \in Goals : request' = Asking(goal)
     \/ \E analysis \in Analyses \cup {preview} : request' = Confirming(analysis)
     \/ \E endpoint \in Endpoints \ {"analyze", "confirm"} :
        \E fault \in FaultsOf(endpoint),
           version \in IF endpoint = "update" THEN NoVersion..MaxVersion ELSE {NoVersion} :
          request' = With(endpoint, fault, version)
  /\ tries' = <<>>
  /\ Serving

\* It tries again what got no answer, or one that says try later.
Retry ==
  /\ phase = "over"
  /\ Len(tries) < MaxTries
  /\ ~Last(tries).delivered \/ Last(tries).status \in {429} \cup 500..599
  /\ UNCHANGED <<request, tries>>
  /\ Serving

GiveUp ==
  /\ phase = "over"
  /\ phase' = "idle" /\ request' = NoRequest /\ tries' = <<>> /\ todo' = <<>>
  /\ error' = NoError /\ status' = 0 /\ effect' = FALSE /\ trouble' = "none" /\ made' = NoPlan
  /\ UNCHANGED <<row, services, preview>>

----------------------------------------------------------------------------
(* The handler *)

At(step) == phase = "serving" /\ Head(todo) = step
To(endpoint) == At("handle") /\ request.endpoint = endpoint
client == <<request, tries>>
world  == <<row, services, preview, made>>

Proceed == todo' = Tail(todo) /\ UNCHANGED <<phase, error, status, effect, trouble>>

\* A try ends in an exception, or in an answer; either may have changed something.
Raise(exception, changed, cause) ==
  /\ phase' = "raised" /\ error' = exception /\ effect' = changed /\ trouble' = cause
  /\ UNCHANGED <<todo, status>>
Respond(code, changed) ==
  /\ phase' = "answering" /\ status' = code /\ effect' = changed
  /\ UNCHANGED <<todo, error, trouble>>

Authorize ==
  /\ At("authorize")
  /\ IF request.token THEN Proceed ELSE Raise(Refused(401), FALSE, "none")
  /\ UNCHANGED <<client, world>>

\* The other requests of the client decide whether the limit is reached.
RateLimit ==
  /\ At("limit")
  /\ Proceed \/ Raise(Refused(429), FALSE, "limited")
  /\ UNCHANGED <<client, world>>

ReadJson ==
  /\ At("read")
  /\ CASE request.form = "not_json" -> Raise(Refused(400), FALSE, "none")
       [] request.form \in {"bad_length", "not_utf8"} -> Raise(Raised("Unforeseen"), FALSE, "none")
       [] OTHER -> Proceed
  /\ UNCHANGED <<client, world>>

\* _task_service and _task_planning_service: made at the first request that
\* needs them, and again by the next one if that fails.
Serve ==
  /\ At("serve")
  /\ \/ services' = services \cup Needs(request.endpoint) /\ Proceed
     \/ /\ ~(Needs(request.endpoint) \subseteq services)
        /\ services' \in {services, services \cup (Needs(request.endpoint) \cap {"tasks"})}
        /\ services' # services \cup Needs(request.endpoint)
        /\ Raise(Raised("Unforeseen"), FALSE, "no_service")
  /\ UNCHANGED <<client, row, preview, made>>

\* Bodies that are no object, or have a fault in a field.
Reject ==
  /\ At("handle")
  /\ request.endpoint \in Posts \ Unserved
  /\ IF request.form = "not_object" THEN Raise(NotAnObject(request.endpoint), FALSE, "none")
     ELSE /\ request.endpoint \notin {"analyze", "confirm"}
          /\ request.fault # "none"
          /\ Raise(FaultError(request.endpoint, request.fault), FALSE, "none")
  /\ UNCHANGED <<client, world>>

Sound(endpoint) == To(endpoint) /\ request.form = "object" /\ request.fault = "none"

\* A dispatch may break off between subtasks, or when its answer is written.
Dispatch ==
  /\ \E endpoint \in Dispatches : Sound(endpoint)
  /\ \/ Respond(200, TRUE)
     \/ \E changed \in BOOLEAN : Raise(Raised("Unforeseen"), changed, "broke_off")
  /\ UNCHANGED <<client, world>>

Simulate ==
  /\ Sound("simulate")
  /\ Respond(200, FALSE)
  /\ UNCHANGED <<client, world>>

\* Pages, and paths nobody serves.
Look ==
  /\ \/ To("health") /\ Respond(200, FALSE)
     \/ To("page") /\ \E code \in {200, 403, 404} : Respond(code, FALSE)
     \/ To("status") /\ Respond(200, FALSE)
     \/ (\E endpoint \in Unserved : To(endpoint)) /\ Respond(404, FALSE)
  /\ UNCHANGED <<client, world>>

DatabaseBusy == Raise(Raised("Unforeseen"), FALSE, "busy")

LookUp ==
  /\ \/ To("tasks") /\ (Respond(200, FALSE) \/ DatabaseBusy)
     \/ To("task") /\ row # Gone /\ Respond(200, FALSE)
     \/ To("task") /\ row = Gone /\ Raise(Raised("TaskNotFound"), FALSE, "gone")
     \/ To("task") /\ DatabaseBusy
     \/ To("plan") /\ request.fault = "bad_id" /\ Raise(Raised("Unforeseen"), FALSE, "none")
     \/ To("plan") /\ request.fault = "none" /\ Respond(200, FALSE)
     \/ /\ To("plan") /\ request.fault = "none"
        /\ \/ Raise(Raised("TaskPlanNotFound"), FALSE, "gone")
           \/ Raise(Raised("Unforeseen"), FALSE, "disk")   \* the plan cannot be read
  /\ UNCHANGED <<client, world>>

GoalAccepted(ask) ==
  10 <= ask.goal.size /\ ask.goal.size <= 20000 /\ ask.scope # Wrong /\ ask.scope.size <= 10000

\* TaskPlanningService.analyze with DeepSeekTaskPlanner.
Analyze ==
  /\ To("analyze") /\ request.form = "object"
  /\ LET ask == request.ask IN
     \/ /\ ~GoalAccepted(ask)
        /\ Raise(Raised("TaskAnalysisError"), FALSE, "none") /\ UNCHANGED made
     \/ /\ GoalAccepted(ask)
        /\ \/ Raise(Raised("TaskPlannerUnavailable"), FALSE, "unavailable")
           \/ Raise(Raised("TaskPlanningFailed"), FALSE, "no_reply")
        /\ UNCHANGED made
     \/ /\ GoalAccepted(ask)
        /\ \E reply \in Replies :
             LET raw == [reply EXCEPT !.goal = ask.goal, !.scope = ask.scope] IN
             IF ~ValidAnalysis(raw)
             THEN Raise(Raised("TaskPlanningFailed"), FALSE, "bad_reply") /\ UNCHANGED made
             ELSE IF ~Hashable(raw)
             THEN Raise(Raised("Unforeseen"), FALSE, "bad_reply") /\ UNCHANGED made
             ELSE Respond(200, FALSE) /\ made' = Normalised(raw)
  /\ UNCHANGED <<client, row, services, preview>>

\* Mutant of SaveFails: the task of a plan that could not be written stays.
SaveFailsUncompensated == Raise(Raised("Unforeseen"), TRUE, "disk")

\* The plan file cannot be written: the task is deleted again, or is gone
\* already, or the delete is refused or fails in its turn.
SaveFails ==
  \/ Raise(Raised("Unforeseen"), FALSE, "disk")
  \/ Raise(Raised("TaskNotFound"), FALSE, "disk")
  \/ \E class \in {"TaskConflict", "Unforeseen"} : Raise(Raised(class), TRUE, "kept")

\* TaskPlanningService.create_from_analysis.
Confirm ==
  /\ To("confirm") /\ request.form = "object"
  /\ LET raw == request.analysis IN
     IF raw = Wrong THEN Raise(Raised("TaskAnalysisError"), FALSE, "none") /\ UNCHANGED made
     ELSE IF ~ValidAnalysis(raw)
     THEN /\ Raise(IF UnsayableError(raw) THEN Unsayable("TaskAnalysisError")
                   ELSE Raised("TaskAnalysisError"), FALSE, "none")
          /\ UNCHANGED made
     ELSE IF ~Hashable(raw) THEN Raise(Raised("Unforeseen"), FALSE, "none") /\ UNCHANGED made
     ELSE \/ Respond(201, TRUE) /\ made' = ContentHash(raw)
          \/ (DatabaseBusy \/ SaveFails) /\ UNCHANGED made
  /\ UNCHANGED <<client, row, services, preview>>

Create ==
  /\ Sound("create")
  /\ Respond(201, TRUE) \/ DatabaseBusy
  /\ UNCHANGED <<client, world>>

\* Mutant of VersionAccepted: the version of the payload is not looked at.
VersionNotCompared(supplied) == TRUE

VersionAccepted(supplied) == supplied \in {NoVersion, row}

\* TaskService.update; a status the task cannot move to is a matter of the row,
\* and another edit may still come before the UPDATE.
Update ==
  /\ To("update")
  /\ \/ row = Gone /\ Raise(Raised("TaskNotFound"), FALSE, "gone") /\ UNCHANGED row
     \/ DatabaseBusy /\ UNCHANGED row
     \/ /\ row # Gone /\ UNCHANGED row
        /\ IF request.form = "not_object" THEN Raise(NotAnObject("update"), FALSE, "none")
           ELSE IF ~VersionAccepted(request.version)
           THEN Raise(Raised("TaskConflict"), FALSE, "conflict")
           ELSE IF request.fault # "none"
           THEN Raise(FaultError("update", request.fault), FALSE, "none")
           ELSE \/ Raise(Raised("TaskValidationError"), FALSE, "not_allowed")
                \/ Raise(Raised("TaskConflict"), FALSE, "conflict")
     \/ /\ row \in 1..(MaxVersion - 1)
        /\ request.form = "object" /\ request.fault = "none"
        /\ VersionAccepted(request.version)
        /\ row' = row + 1 /\ Respond(200, TRUE)
  /\ UNCHANGED <<client, services, preview, made>>

Delete ==
  /\ To("delete")
  /\ \/ row = Gone /\ Raise(Raised("TaskNotFound"), FALSE, "gone") /\ UNCHANGED row
     \/ row # Gone /\ row' = Gone /\ Respond(204, TRUE)
     \/ row # Gone /\ Raise(Raised("TaskConflict"), FALSE, "conflict") /\ UNCHANGED row
     \/ DatabaseBusy /\ UNCHANGED row
  /\ UNCHANGED <<client, services, preview, made>>

\* except Exception: _safe_error.  A message that cannot be encoded is raised
\* past it, and the connection closed without a word.
SafeError ==
  /\ phase = "raised"
  /\ IF error.sayable THEN phase' = "answering" /\ status' = StatusOf(error)
     ELSE phase' = "closed" /\ UNCHANGED status
  /\ UNCHANGED <<client, world, todo, error, effect, trouble>>

----------------------------------------------------------------------------
(* The connection, the process and the other clients *)

Ends(delivered) ==
  /\ phase' = "over"
  /\ tries' = Append(tries, [status |-> status, effect |-> effect, trouble |-> trouble,
                             delivered |-> delivered])
  /\ UNCHANGED <<request, todo, error, status, effect, trouble, row, made>>

Deliver ==
  /\ phase = "answering"
  /\ Ends(TRUE)
  /\ preview' = IF request.endpoint = "analyze" /\ status = 200 THEN made ELSE preview
  /\ UNCHANGED services

\* A connection that broke: writing to it raises, which do_* passes over.
Lose ==
  /\ phase \in {"answering", "closed"}
  /\ Ends(FALSE)
  /\ UNCHANGED <<preview, services>>

\* The process stops, and starts again without its services.
Restart ==
  /\ phase \in {"serving", "raised", "answering"}
  /\ Ends(FALSE)
  /\ services' = {}
  /\ UNCHANGED preview

OtherClients ==
  /\ phase \in {"serving", "over"}
  /\ row # Gone
  /\ row' \in {Gone} \cup ({row + 1} \cap 1..MaxVersion)
  /\ UNCHANGED <<phase, client, todo, error, status, effect, trouble, services, preview, made>>

Next ==
  \/ Send \/ Retry \/ GiveUp
  \/ Authorize \/ RateLimit \/ ReadJson \/ Serve \/ Reject \/ Dispatch \/ Simulate \/ Look
  \/ LookUp \/ Analyze \/ Confirm \/ Create \/ Update \/ Delete \/ SafeError
  \/ Deliver \/ Lose \/ Restart \/ OtherClients

Spec == Init /\ [][Next]_vars

----------------------------------------------------------------------------
(* Properties *)

Statuses == {200, 201, 204, 400, 401, 403, 404, 409, 429, 500, 502, 503}
Troubles == {"none", "limited", "no_service", "unavailable", "no_reply", "bad_reply", "busy",
             "disk", "kept", "broke_off", "gone", "conflict", "not_allowed"}

\* Types, with two relations that hold between them: the planning service is
\* built upon the task service, and an answer is a status this server knows.
TypeOK ==
  /\ phase \in {"idle", "serving", "raised", "answering", "closed", "over"}
  /\ request # NoRequest => request.endpoint \in Endpoints
  /\ todo \in Seq({"authorize", "limit", "read", "serve", "handle"})
  /\ phase = "raised" => error.class \in DOMAIN Ancestors
  /\ status \in Statuses \cup {0} /\ (phase = "answering" => status # 0)
  /\ effect \in BOOLEAN /\ trouble \in Troubles
  /\ Len(tries) <= MaxTries
  /\ row \in 0..MaxVersion
  /\ services \subseteq {"tasks", "planning"} /\ ("planning" \in services => "tasks" \in services)

\* What the specification of a fault is silent about: bytes and texts that are
\* no UTF-8, a length that is no number, a missing title, an impossible task id.
OutsideContract ==
  \/ request.form \in {"bad_length", "not_utf8"}
  \/ "fault" \in DOMAIN request /\ request.fault \notin {"none", "invalid"}
  \/ "analysis" \in DOMAIN request /\ request.analysis # Wrong
       /\ ValidAnalysis(request.analysis) /\ ~Hashable(request.analysis)
FaultyRequest ==
  \/ OutsideContract \/ ~request.token \/ request.form # "object"
  \/ request.endpoint \in Unserved \cup {"page"}
  \/ "fault" \in DOMAIN request /\ request.fault # "none"
  \/ "ask" \in DOMAIN request /\ ~GoalAccepted(request.ask)
  \/ "analysis" \in DOMAIN request /\ (request.analysis = Wrong \/ ~ValidAnalysis(request.analysis))

\* The Errors of specs/task-planning/deepseek-task-analysis.md and task-crud.md:
\* whoever is at fault is told so.  A client is blamed (4xx) only for its request
\* or for the state of the task; 502 and 503 speak of the planner, which is never
\* blamed on the client although its error is a kind of TaskAnalysisError; and
\* the task and planning endpoints answer 500 only when something of the server's
\* failed.  A refusal means that nothing was done, and silence that the fault
\* could not be put into words.  No error hides something done, not even the 500
\* of a text that cannot be encoded, but for a dispatch that broke off and a
\* compensation that failed.
BlameIsRight ==
  /\ phase = "answering" /\ status \in 400..499 =>
       /\ \/ FaultyRequest
          \/ trouble \in {"limited", "gone", "conflict", "not_allowed"}
          \/ request.endpoint = "confirm" /\ trouble \in {"kept", "disk"}
       /\ effect => trouble = "kept"
  /\ phase = "answering" /\ status \in 400..599 /\ effect => trouble \in {"kept", "broke_off"}
  /\ phase = "answering" =>
       /\ status = 503 <=> trouble = "unavailable"
       /\ status = 502 => trouble \in {"no_reply", "bad_reply"}
       /\ trouble = "no_reply" => status = 502
       /\ status = 500 /\ request.endpoint \in TaskEndpoints \cup PlanningEndpoints =>
            trouble \in {"no_service", "busy", "disk", "kept", "bad_reply"} \/ OutsideContract
  /\ phase = "closed" => FaultyRequest /\ ~effect

\* "The user may edit ... before confirmation" - and one who does not gets what
\* was shown: a served analysis that comes back unchanged is accepted, and the
\* plan has the hash of the preview, so normalising twice changes nothing.  But
\* for one case: lower() made a tag or category longer than from_dict allows.
OutgrownByLower(analysis) ==
  \/ \E tag \in ToSet(analysis.tags) : tag.size > 500
  \/ \E c \in ToSet(analysis.acceptance_criteria) : c.category.size > 80
PreviewConfirms ==
  phase = "answering" /\ request.endpoint = "confirm" /\ preview # Wrong
    /\ request.form = "object" /\ trouble = "none" /\ request.token =>
    (request.analysis = preview =>
       IF OutgrownByLower(preview) THEN status = 400 ELSE status = 201 /\ made = preview)

\* No request carries a key that tells a repeated one.  Yet what a client asked
\* for once takes effect twice only if it was left in the dark the first time:
\* an answer was lost, a dispatch broke off, or a failed plan could not be taken
\* back.  An update with a version, and a delete, never do.
DoneTwiceHasCause ==
  \A i, j \in DOMAIN tries : i < j /\ tries[i].effect /\ tries[j].effect =>
    /\ ~tries[i].delivered \/ tries[i].trouble \in {"broke_off", "kept"}
    /\ request.endpoint # "delete"
    /\ request.endpoint = "update" => request.version = NoVersion
==============================================================================
