--------------------------- MODULE TaskLifecycle ---------------------------
(***************************************************************************)
(* The vocabulary of an execution task that the store, the service and     *)
(* the planner share: its statuses, the transition matrix, and the         *)
(* statuses in which a task may not be deleted                             *)
(* (model_router/domain/execution_task.py).                                *)
(*                                                                         *)
(* A row keeps the fields the properties tell apart: the lifecycle status, *)
(* the optimistic-lock version, and "body", which stands for the free      *)
(* text (title, description, tags and so on) a client may edit.            *)
(***************************************************************************)
EXTENDS Integers

CONSTANTS Bodies,   \* values of the editable text of a task
          NoRow     \* stands for "no such row in execution_tasks"

TASK_STATUSES ==
  {"draft", "ready", "running", "validating", "completed", "failed", "cancelled"}

TASK_STATUS_TRANSITIONS ==
  [draft      |-> {"ready", "cancelled"},
   ready      |-> {"running", "draft", "cancelled"},
   running    |-> {"validating", "failed", "cancelled"},
   validating |-> {"completed", "failed", "running"},
   completed  |-> {},
   failed     |-> {"ready", "cancelled"},
   cancelled  |-> {}]

\* TaskService.delete passes these to the repository as expected_status_not_in.
ProtectedStatuses == {"running", "validating"}

\* What TaskAnalysis.initial_status can give a task made from an analysis.
AnalysisStatuses == {"draft", "ready"}

Row == [status : TASK_STATUSES, version : Nat \ {0}, body : Bodies]

ASSUME NoRowAssumption == NoRow \notin Row

\* ensure_transition_allowed: writing the same status again is not a transition.
TransitionAllowed(from, to) == to = from \/ to \in TASK_STATUS_TRANSITIONS[from]

============================================================================
