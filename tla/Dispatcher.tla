----------------------------- MODULE Dispatcher -----------------------------
(***************************************************************************)
(* TaskDispatcher.dispatch: a prompt is decomposed, and every subtask is   *)
(* classified, routed, planned and handed to one of four executors, one    *)
(* subtask after the other.  Decomposer, Classifier and RoutingTable say   *)
(* what becomes of a prompt and of what language models reply; the queue   *)
(* file with its other users is CursorQueue, the subprocesses are those of *)
(* CodexExecutor; the execution service is one step here and a module of   *)
(* its own.  An exception anywhere ends the request; nothing undoes what   *)
(* the earlier subtasks did.                                               *)
(***************************************************************************)
EXTENDS Classifier, Decomposer

CONSTANTS Requests,     \* dispatches that may be in flight
          CommandLine,  \* users of the queue besides them (cursor_cli.py)
          MaxSubtasks,  \* bound on the subtasks of a decomposition
          Prompts,      \* the marks of the prompts clients send
          Replies,      \* replies of the decomposer's model (see Decomposer)
          Texts,        \* prompts of single subtasks (see Classifier)
          Answers,      \* answers of the classifier's model (see Classifier)
          Ratios,       \* budget ratios the oracle may report
          Ids, Missing, Empty, Garbage, MaxPops, MaxCrashes,  \* of CursorQueue
          PushBeside    \* bound: stages of a dispatch beside which the command line
                        \* pushes; at any other time CursorQueue has it push

VARIABLES pc,         \* where each request is
          subtasks,   \* the hints of its decomposition
          ratio,      \* the budget ratio it read
          current,    \* decision and executor of the subtask in hand
          report,     \* sub_dispatches
          tickets,    \* the queue id drawn for each subtask that was queued
          answer,     \* the summary the client gets
          executed,   \* history: subtasks given to the execution service
          file, call, drawn, pushed, popped, finished, overlapped, crashes,
          run, process, message

own   == <<pc, subtasks, ratio, current, report, tickets, answer, executed>>
queue == <<file, call, drawn, pushed, popped, finished, overlapped, crashes>>
codex == <<run, process, message>>
vars  == <<own, queue, codex>>

Positions == 1..MaxSubtasks
Q == INSTANCE CursorQueue WITH Callers <- Requests \cup CommandLine
C == INSTANCE CodexExecutor WITH Runs <- Requests \X Positions, call <- run

----------------------------------------------------------------------------
(* Executors *)

CODEX_TYPES      == {"implementation", "debugging", "refactor", "uncertain"}
RELAY_API_TYPES  == {"boilerplate", "bulk_generation", "data_processing"}
BRAIN_ONLY_TYPES == {"architecture", "system_design", "deep_reasoning"}
Executors == {"codex", "cursor_queue", "brain_only", "relay_api"}
Unnamed   == "unnamed"   \* the plan names no executor, or none there is

DefaultExecutor(type, fallback) ==
  CASE type \in CURSOR_TYPES -> "cursor_queue"
    [] type \in BRAIN_ONLY_TYPES -> "brain_only"
    [] type \in RELAY_API_TYPES -> "relay_api"
    [] type \in CODEX_TYPES -> "codex"
    [] OTHER -> fallback

\* Mutants of ResolveExecutor: the planner's word first, and not even checked.
ResolveAsPlanned(type, planned, routed) ==
  IF planned \in Executors THEN planned ELSE DefaultExecutor(type, routed)
ResolveUnvalidated(type, planned, routed) == planned

\* _resolve_executor: what the planner may choose, and for which types.
ResolveExecutor(type, planned, routed) ==
  CASE type \in CURSOR_TYPES -> "cursor_queue"
    [] type \in BRAIN_ONLY_TYPES -> "brain_only"
    [] type \in CODEX_TYPES /\ planned \in {"brain_only", "relay_api"} -> "codex"
    [] type \in RELAY_API_TYPES /\ planned = "brain_only" -> routed
    [] OTHER -> IF planned \in Executors THEN planned ELSE DefaultExecutor(type, routed)

----------------------------------------------------------------------------
NoTicket == "no_ticket"
NoSubtask == [type |-> NoHint]
NoAnswerYet == [type |-> NoHint]

\* The command line runs in processes of its own, an id is never empty, and the
\* states of the queue file can be told apart.
ASSUME DispatcherAssumption ==
  /\ MaxSubtasks \in Nat \ {0}
  /\ \A reply \in Replies : /\ reply.subtasks \in Seq(ToSet(reply.subtasks))
                            /\ Len(reply.subtasks) <= MaxSubtasks
  /\ Requests \cap CommandLine = {}
  /\ NoTicket \notin Ids
  /\ {Missing, Empty, Garbage} \cap Q!Queue = {}
  /\ Missing # Empty /\ Missing # Garbage /\ Empty # Garbage
  /\ MaxCrashes \in Nat

\* A SubtaskDispatch, without its texts.
Entry(type, executor, model, success, ticket) ==
  [type |-> type, executor |-> executor, model |-> model, success |-> success,
   ticket |-> ticket]

Number(r)  == Len(report[r]) + 1       \* the subtask in hand
CodexRun(r) == <<r, Number(r)>>

Init ==
  /\ pc       = [r \in Requests |-> "new"]
  /\ subtasks = [r \in Requests |-> <<>>]
  /\ ratio    = [r \in Requests |-> 0]
  /\ current  = [r \in Requests |-> NoSubtask]
  /\ report   = [r \in Requests |-> <<>>]
  /\ tickets  = [r \in Requests |-> [i \in Positions |-> NoTicket]]
  /\ answer   = [r \in Requests |-> NoAnswerYet]
  /\ executed = [r \in Requests |-> {}]
  /\ Q!Init
  /\ C!Init

At(r, stage)   == pc[r] = stage
Goto(r, stage) == pc' = [pc EXCEPT ![r] = stage]
Abort(r)       == Goto(r, "aborted")

\* The subtask in hand is over: on to the next one, or to the aggregation.
Reports(r, model, success, ticket) ==
  /\ report' = [report EXCEPT ![r] =
       Append(@, Entry(current[r].type, current[r].executor, model, success, ticket))]
  /\ current' = [current EXCEPT ![r] = NoSubtask]
  /\ Goto(r, IF Number(r) < Len(subtasks[r]) THEN "classify" ELSE "aggregate")

Decompositions == {Decomposed(marks, reply) : marks \in Prompts, reply \in Replies \cup {NoReply}}
Hints == (UNION {ToSet(list) : list \in Decompositions}) \ {NoHint}
Verdicts == {Classified(text, reply) : text \in Texts, reply \in Answers \cup {NoAnswer}}

\* decompose() and get_budget_ratio(), which is read once for all subtasks.
Decompose(r) ==
  /\ At(r, "new")
  /\ \E list \in Decompositions, spent \in Ratios :
       /\ subtasks' = [subtasks EXCEPT ![r] = list]
       /\ ratio'    = [ratio EXCEPT ![r] = spent]
       /\ Goto(r, IF list = <<>> THEN "aggregate" ELSE "classify")
  /\ UNCHANGED <<current, report, tickets, answer, executed, queue, codex>>

\* _classify and route().  A hint is taken as it stands, at T2.
Classify(r) ==
  /\ At(r, "classify")
  /\ LET hint == subtasks[r][Number(r)]
     IN \E v \in IF hint = NoHint THEN Verdicts ELSE {Verdict(hint, 2)} :
          LET decision == Route([type |-> v.type, level |-> v.level, ratio |-> ratio[r]])
          IN current' = [current EXCEPT ![r] =
               [type |-> v.type, decision |-> decision, executor |-> decision.executor]]
  /\ Goto(r, "plan")
  /\ UNCHANGED <<subtasks, ratio, report, tickets, answer, executed, queue, codex>>

\* _plan and _resolve_executor.  A planner that fails, or answers no JSON,
\* leaves the routed executor standing.
Plan(r) ==
  /\ At(r, "plan")
  /\ LET type   == current[r].type
         routed == current[r].decision.executor
     IN \E planned \in Executors \cup {Unnamed} :
          current' = [current EXCEPT ![r].executor = ResolveExecutor(type, planned, routed)]
  /\ Goto(r, "dispatch")
  /\ UNCHANGED <<subtasks, ratio, report, tickets, answer, executed, queue, codex>>

\* A plan with a value of the wrong type (a number for the executor, null for
\* the summary, a list for the task type) raises outside the try statement.
PlanRaises(r) ==
  /\ At(r, "plan")
  /\ Abort(r)
  /\ UNCHANGED <<subtasks, ratio, current, report, tickets, answer, executed, queue, codex>>

----------------------------------------------------------------------------
(* Execution *)

For(r, executors) == At(r, "dispatch") /\ current[r].executor \in executors

\* cursor_push: load and change ...
QueuePush(r) ==
  /\ For(r, {"cursor_queue"})
  /\ Q!Push(r)
  /\ tickets' = [tickets EXCEPT ![r][Number(r)] = call'[r].id]
  /\ Goto(r, "queueing")
  /\ UNCHANGED <<subtasks, ratio, current, report, answer, executed, codex>>

\* ... unless somebody left the file unreadable; ...
QueueUnreadable(r) ==
  /\ For(r, {"cursor_queue"})
  /\ Q!LoadFails(r)
  /\ Abort(r)
  /\ UNCHANGED <<subtasks, ratio, current, report, tickets, answer, executed, codex>>

\* ... open, which empties the file; ...
QueueTruncate(r) ==
  /\ At(r, "queueing")
  /\ Q!Truncate(r)
  /\ UNCHANGED <<own, codex>>

\* ... write, and answer with the id; ...
QueueWrite(r) ==
  /\ At(r, "queueing")
  /\ Q!Write(r)
  /\ Reports(r, Queue, TRUE, tickets[r][Number(r)])
  /\ UNCHANGED <<subtasks, ratio, tickets, answer, executed, codex>>

\* ... or an OSError at either point, which leaves the file as it is.
QueueSaveRaises(r) ==
  /\ At(r, "queueing")
  /\ Q!Crash(r)
  /\ Abort(r)
  /\ UNCHANGED <<subtasks, ratio, current, report, tickets, answer, executed, codex>>

\* The list handed to the execution service; the queue is no provider.
Candidates(r) ==
  Keep(<<current[r].decision.primary>> \o current[r].decision.fallback, Models \ {Queue})

\* _dispatch_provider: a candidate answers, or none does and the routed model is
\* reported.  execute() raises on an empty list of candidates; no decision that
\* gets here has one, or EveryDispatchEnds would fail.
Execute(r) ==
  /\ For(r, {"brain_only", "relay_api"})
  /\ Candidates(r) # <<>>
  /\ \/ \E model \in ToSet(Candidates(r)) : Reports(r, model, TRUE, NoTicket)
     \/ Reports(r, current[r].decision.primary, FALSE, NoTicket)
  /\ executed' = [executed EXCEPT ![r] = @ \cup {Number(r)}]
  /\ UNCHANGED <<subtasks, ratio, tickets, answer, queue, codex>>

\* codex_available() says no.
CodexUnavailable(r) ==
  /\ For(r, {"codex"})
  /\ run[CodexRun(r)] = "new"
  /\ Reports(r, current[r].decision.primary, FALSE, NoTicket)
  /\ UNCHANGED <<subtasks, ratio, tickets, answer, executed, queue, codex>>

\* await run_codex(...)
CodexStep(r) ==
  /\ For(r, {"codex"})
  /\ C!Caller(CodexRun(r))
  /\ UNCHANGED <<own, queue>>

\* Mutant of CodexEnds: a timed-out run is given to the providers instead.
CodexEndsFallingBack(r) ==
  /\ For(r, {"codex"})
  /\ C!Ended(CodexRun(r))
  /\ IF run[CodexRun(r)] = "timeout"
     THEN /\ current' = [current EXCEPT ![r].executor = "relay_api"]
          /\ UNCHANGED <<pc, report>>
     ELSE Reports(r, current[r].decision.primary, run[CodexRun(r)] = "success", NoTicket)
  /\ UNCHANGED <<subtasks, ratio, tickets, answer, executed, queue, codex>>

\* Mutant of CodexEnds: a timeout counts as done.
CodexEndsOptimistic(r) ==
  /\ For(r, {"codex"})
  /\ C!Ended(CodexRun(r))
  /\ Reports(r, current[r].decision.primary,
             run[CodexRun(r)] \in {"success", "timeout"}, NoTicket)
  /\ UNCHANGED <<subtasks, ratio, tickets, answer, executed, queue, codex>>

CodexEnds(r) ==
  /\ For(r, {"codex"})
  /\ C!Ended(CodexRun(r))
  /\ IF run[CodexRun(r)] = "raised"
     THEN Abort(r) /\ UNCHANGED <<current, report>>
     ELSE Reports(r, current[r].decision.primary, run[CodexRun(r)] = "success", NoTicket)
  /\ UNCHANGED <<subtasks, ratio, tickets, answer, executed, queue, codex>>

Cost(type) ==
  CASE type \in BRAIN_ONLY_TYPES -> 2
    [] type \in CURSOR_TYPES \cup RELAY_API_TYPES -> 0
    [] OTHER -> 1

\* max(set(list), key=list.count): any of the most frequent, sets have no order.
MostFrequent(list) ==
  LET Count(x) == Cardinality({i \in DOMAIN list : list[i] = x})
  IN {x \in ToSet(list) : \A y \in ToSet(list) : Count(y) <= Count(x)}
Column(entries, field) == [i \in DOMAIN entries |-> entries[i][field]]

\* What dispatch_prompt names as the model, and what Orchestrator.handle lists
\* as waiting for the user of the queue.
SelectedModel(entries) == IF entries = <<>> THEN "none" ELSE entries[1].model
CursorTasks(entries) == ToSet(Column(entries, "ticket")) \ {NoTicket}

\* _aggregate.
Summaries(entries) ==
  LET types     == IF entries = <<>> THEN {"uncertain"} ELSE MostFrequent(Column(entries, "type"))
      executors == IF entries = <<>> THEN {"none"} ELSE MostFrequent(Column(entries, "executor"))
      costs     == {Cost(entries[i].type) : i \in DOMAIN entries}
  IN [type : types, executor : executors, model : {SelectedModel(entries)},
      cost : {Max(costs \cup {0})}, cursor_tasks : {CursorTasks(entries)}]

\* Mutant of Aggregate: the answer looks at the last subtask only.
AggregateLast(r) ==
  /\ At(r, "aggregate")
  /\ \E summary \in Summaries(IF report[r] = <<>> THEN <<>> ELSE <<Last(report[r])>>) :
       answer' = [answer EXCEPT ![r] = summary]
  /\ Goto(r, "answered")
  /\ UNCHANGED <<subtasks, ratio, current, report, tickets, executed, queue, codex>>

Aggregate(r) ==
  /\ At(r, "aggregate")
  /\ \E summary \in Summaries(report[r]) : answer' = [answer EXCEPT ![r] = summary]
  /\ Goto(r, "answered")
  /\ UNCHANGED <<subtasks, ratio, current, report, tickets, executed, queue, codex>>

----------------------------------------------------------------------------
(* Everybody else *)

\* Bound on the pushes of the command line: they come beside a dispatch, and
\* leave an id for each subtask that dispatches may still push.
ToCome(r) == {i \in Positions :
  /\ pc[r] \notin {"answered", "aborted"}
  /\ i >= Number(r) /\ tickets[r][i] = NoTicket
  /\ At(r, "new") \/ i <= Len(subtasks[r])}
PushesByHand ==
  /\ \E r \in Requests : pc[r] \in PushBeside
  /\ Cardinality(Ids \ drawn) > Cardinality(UNION {{r} \X ToCome(r) : r \in Requests})

\* The command line pushes tasks, pops them and marks them done, in processes
\* of its own.
UseQueue(c) ==
  /\ \/ PushesByHand /\ Q!Push(c)
     \/ Q!Pop(c) \/ Q!MarkDone(c) \/ Q!NothingToDo(c) \/ Q!LoadFails(c)
     \/ Q!Truncate(c) \/ Q!Write(c) \/ Q!Crash(c)
  /\ UNCHANGED <<own, codex>>

\* Codex processes run on, whatever became of the request that started them.
CodexRuns ==
  /\ \E x \in Requests \X Positions : C!Program(x)
  /\ UNCHANGED <<own, queue>>

Step(r) ==
  \/ Decompose(r) \/ Classify(r) \/ Plan(r) \/ PlanRaises(r)
  \/ QueuePush(r) \/ QueueUnreadable(r) \/ QueueTruncate(r) \/ QueueWrite(r)
  \/ QueueSaveRaises(r) \/ Execute(r) \/ CodexUnavailable(r) \/ CodexStep(r)
  \/ CodexEnds(r) \/ Aggregate(r)

Next ==
  \/ \E r \in Requests : Step(r)
  \/ \E c \in CommandLine : UseQueue(c)
  \/ CodexRuns

Spec == Init /\ [][Next]_vars

\* Each request has a thread and an event loop of its own, model calls carry a
\* timeout of two minutes and run_codex one of ten.  The budget oracle of
\* Decompose carries none: that it answers is an assumption about llm_router.
FairSpec == Spec /\ \A r \in Requests : WF_vars(Step(r))

----------------------------------------------------------------------------
(* Properties *)

Stages == {"new", "classify", "plan", "dispatch", "queueing", "aggregate",
           "answered", "aborted"}
SeenTypes == Hints \cup {v.type : v \in Verdicts}
InHand == [type : SeenTypes, decision : RoutingDecision, executor : Executors]
TypeOK ==
  /\ pc \in [Requests -> Stages]
  /\ \A r \in Requests :
       /\ subtasks[r] \in Seq(Hints \cup {NoHint})
       /\ Len(report[r]) <= Len(subtasks[r])
       /\ \A i \in DOMAIN report[r] :
            report[r][i] \in [type : SeenTypes, executor : Executors, model : Models,
                              success : BOOLEAN, ticket : Ids \cup {NoTicket}]
       /\ current[r] \in {NoSubtask} \cup InHand
  /\ ratio \in [Requests -> Ratios \cup {0}]
  /\ tickets \in [Requests -> [Positions -> Ids \cup {NoTicket}]]
  /\ \A r \in Requests : answer[r] # NoAnswerYet =>
       /\ answer[r].type \in SeenTypes \cup {"uncertain"}
       /\ answer[r].executor \in Executors \cup {"none"} /\ answer[r].cost \in 0..2
  /\ executed \in [Requests -> SUBSET Positions]
  /\ Q!TypeOK /\ C!TypeOK

\* Where a subtask has left traces so far.
Places(r, i) ==
  (IF tickets[r][i] # NoTicket THEN {"queue"} ELSE {})
    \cup (IF i \in executed[r] THEN {"providers"} ELSE {})
    \cup (IF process[<<r, i>>] # C!NoProcess THEN {"codex"} ELSE {})
PlaceOf(executor) ==
  CASE executor = "cursor_queue" -> "queue"
    [] executor = "codex" -> "codex"
    [] OTHER -> "providers"

\* However a request ends, each subtask went to one place at most, the one it is
\* reported under, and what an exception leaves behind is a prefix: the subtasks
\* reported so far and perhaps the one in hand, never a later one.
OnePlacePerSubtask == \A r \in Requests, i \in Positions :
  /\ Cardinality(Places(r, i)) <= 1
  /\ i \in DOMAIN report[r] => Places(r, i) \subseteq {PlaceOf(report[r][i].executor)}
  /\ i > Number(r) => Places(r, i) = {}

\* "code_patch / file_edit => executor must be cursor_queue" (prompts/planner.txt):
\* the planner is a language model, and whatever it answers, an edit of files
\* only ever waits in the queue, design work neither waits nor touches the work
\* directory, and repository work is not answered by a bare provider call.
AllowedPlaces(type) ==
  CASE type \in CURSOR_TYPES -> {"queue"}
    [] type \in BRAIN_ONLY_TYPES -> {"providers"}
    [] type \in CODEX_TYPES -> {"queue", "codex"}
    [] OTHER -> {"queue", "codex", "providers"}
PlannerStaysInBounds == \A r \in Requests : \A i \in DOMAIN report[r] :
  Places(r, i) \subseteq AllowedPlaces(report[r][i].type)

\* What is reported as done is done: the ticket was written, the providers were
\* called, and a Codex process has exited well and will not write any more,
\* also while later subtasks start in the same work directory.
SuccessIsSettled == \A r \in Requests : \A i \in DOMAIN report[r] :
  LET entry == report[r][i] IN entry.success =>
    CASE entry.executor = "cursor_queue" -> entry.ticket \in ToSet(pushed)
      [] entry.executor = "codex" ->
           process[<<r, i>>] \in {C!Exited(TRUE, spoke) : spoke \in BOOLEAN}
      [] OTHER -> i \in executed[r]

\* Nothing waits in the queue that its client does not know of: the answer of a
\* dispatch names every ticket the request drew, and an answer that nothing was
\* done is given only when no subtask left a trace anywhere.
AnswerTellsAll == \A r \in Requests : At(r, "answered") =>
  /\ answer[r].cursor_tasks = ToSet(tickets[r]) \ {NoTicket}
  /\ answer[r].executor = "none" => \A i \in Positions : Places(r, i) = {}

\* "split failed -> do not split, the whole prompt goes to the router"
\* (task_decomposer.py): whatever the decomposer's model replies, an answered
\* prompt was dispatched to something.
PromptIsDispatched == \A r \in Requests : At(r, "answered") => report[r] # <<>>

\* A dispatch ends in an answer or an error, whatever models, providers, Codex
\* and the other users of the queue do, hanging or dying included.
EveryDispatchEnds ==
  \A r \in Requests : pc[r] # "new" ~> pc[r] \in {"answered", "aborted"}
============================================================================
