---------------------------- MODULE TaskCatalog ----------------------------
(***************************************************************************)
(* The task catalogue behind /api/tasks: TaskService, TaskPlanningService, *)
(* the SQLite repository and the plan files, as the threads of the         *)
(* dashboard's ThreadingHTTPServer run them.                               *)
(*                                                                         *)
(* One worker is one handler thread, serving a request at a time.  Each    *)
(* repository method opens its own connection and transaction, so it is    *)
(* one step; a PUT is two of them (read, then conditional UPDATE) and a    *)
(* POST from an analysis is an INSERT, a temporary file, a rename and, if  *)
(* the file cannot be written, a compensating DELETE.  Any other worker    *)
(* may run between those steps, the process may stop there, and a          *)
(* statement may give up waiting for the database lock.                    *)
(***************************************************************************)
EXTENDS TaskLifecycle

CONSTANTS Tasks,        \* the ids uuid4 may draw (each is drawn once)
          Workers,      \* handler threads
          MaxVersion,   \* bound: no edit starts from a row at this version
          MaxFaults     \* bound: crashes and database-lock timeouts, together

ASSUME CatalogAssumption == MaxVersion \in Nat /\ MaxFaults \in Nat

VARIABLES rows,     \* the table execution_tasks: task id -> row, or NoRow
          plans,    \* the ids whose .runtime/task-plans/<id>.md exists
          temp,     \* the ids whose <id>.md.tmp exists
          handler,  \* what each worker is in the middle of
          reply,    \* the latest answer: which worker gave it, and what it was
          issued,   \* ids given out so far (uuid4 does not repeat itself)
          analysed, \* history: the ids created from an analysis
          faults,   \* crashes and lock timeouts so far
          struck    \* history: the plannings one of them ended, and at which stage

vars == <<rows, plans, temp, handler, reply, issued, analysed, faults, struck>>

----------------------------------------------------------------------------
(* Requests *)

Keep   == "keep"    \* a field the PUT payload does not mention
NoVersion == 0      \* the PUT payload carries no version

Changes == [status : TASK_STATUSES \cup {Keep}, body : Bodies \cup {Keep}]

Idle == [pc |-> "idle"]

\* A PUT whose row has been read and checked and is about to be written.
Editing(t, row, change, supplied) ==
  [pc |-> "editing", task |-> t, snapshot |-> row, change |-> change,
   supplied |-> supplied]

\* A POST from an analysis at one of the stages of TaskPlanningService.
PlanningStages == {"inserted", "temp_written", "save_failed"}
Planning(t, stage) == [pc |-> stage, task |-> t]
Plannings == [pc : PlanningStages, task : Tasks]

Handlers ==
  {Idle}
    \cup [pc : {"editing"}, task : Tasks, snapshot : Row, change : Changes,
          supplied : Nat]
    \cup Plannings

ReplyCodes ==
  {"created", "updated", "deleted", "planned", "invalid", "not_found",
   "conflict", "busy", "plan_failed"}
NoReply == [code |-> "none"]
Replied(w, code) == reply' = [worker |-> w, code |-> code]

Answer(w, code) ==
  /\ handler' = [handler EXCEPT ![w] = Idle]
  /\ Replied(w, code)

Continue(w, next) ==
  /\ handler' = [handler EXCEPT ![w] = next]
  /\ reply'   = NoReply

----------------------------------------------------------------------------
(* The repository: one operator per SQL statement *)

Inserted(t, row) == [rows EXCEPT ![t] = row]
Written(t, row)  == [rows EXCEPT ![t] = row]
Deleted(t)       == [rows EXCEPT ![t] = NoRow]

\* Mutants of UpdateMatches: the version guard forgotten, and the new version
\* passed where the old one is expected.
UpdateMatchesAnyVersion(t, expected) == rows[t] # NoRow
UpdateMatchesNewVersion(t, expected) ==
  rows[t] # NoRow /\ rows[t].version = expected + 1

\* WHERE task_id = ? AND version = ?
UpdateMatches(t, expected) == rows[t] # NoRow /\ rows[t].version = expected

\* Mutant of DeleteMatches: the service forgets the protected statuses.
DeleteMatchesAnyStatus(t) == rows[t] # NoRow

\* WHERE task_id = ? AND status NOT IN (running, validating)
DeleteMatches(t) == rows[t] # NoRow /\ rows[t].status \notin ProtectedStatuses

\* Mutant of NewRow: tasks start unversioned.
NewRowUnversioned(status, body) == [status |-> status, version |-> 0, body |-> body]

\* ExecutionTask.create
NewRow(status, body) == [status |-> status, version |-> 1, body |-> body]

\* Mutant of Updated: replace(self, ...) without version=self.version + 1.
UpdatedSameVersion(row, change) ==
  [status  |-> IF change.status = Keep THEN row.status ELSE change.status,
   version |-> row.version,
   body    |-> IF change.body = Keep THEN row.body ELSE change.body]

\* ExecutionTask.update: the fields of the payload over those of the row read.
Updated(row, change) ==
  [status  |-> IF change.status = Keep THEN row.status ELSE change.status,
   version |-> row.version + 1,
   body    |-> IF change.body = Keep THEN row.body ELSE change.body]

----------------------------------------------------------------------------
Init ==
  /\ rows     = [t \in Tasks |-> NoRow]
  /\ plans    = {}
  /\ temp     = {}
  /\ handler  = [w \in Workers |-> Idle]
  /\ reply    = NoReply
  /\ issued   = {}
  /\ analysed = {}
  /\ faults   = 0
  /\ struck   = {}

\* POST /api/tasks.  Any status of the vocabulary is accepted at creation.
Create(w) ==
  /\ handler[w] = Idle
  /\ \E t \in Tasks \ issued, status \in TASK_STATUSES, body \in Bodies :
       /\ rows'   = Inserted(t, NewRow(status, body))
       /\ issued' = issued \cup {t}
       /\ Answer(w, "created")
  /\ UNCHANGED <<plans, temp, analysed, faults, struck>>

\* The first half of PUT /api/tasks/<id>: read the row, compare the version
\* the client supplied, check the status transition.
VersionAccepted(row, supplied) == supplied \in {NoVersion, row.version}
StatusAccepted(row, change) ==
  change.status = Keep \/ TransitionAllowed(row.status, change.status)

BeginUpdate(w) ==
  /\ handler[w] = Idle
  /\ \E t \in Tasks, change \in Changes, supplied \in 0..MaxVersion :
       LET row == rows[t] IN
       \/ row = NoRow /\ Answer(w, "not_found")
       \/ /\ row # NoRow
          /\ ~VersionAccepted(row, supplied)
          /\ Answer(w, "conflict")
       \/ /\ row # NoRow
          /\ VersionAccepted(row, supplied)
          /\ ~StatusAccepted(row, change)
          /\ Answer(w, "invalid")
       \/ /\ row # NoRow
          /\ row.version < MaxVersion
          /\ VersionAccepted(row, supplied)
          /\ StatusAccepted(row, change)
          /\ Continue(w, Editing(t, row, change, supplied))
  /\ UNCHANGED <<rows, plans, temp, issued, analysed, faults, struck>>

\* The second half: UPDATE ... WHERE version = the version that was read.
CommitUpdate(w) ==
  /\ handler[w].pc = "editing"
  /\ LET t == handler[w].task
         snapshot == handler[w].snapshot
     IN IF UpdateMatches(t, snapshot.version)
        THEN /\ rows' = Written(t, Updated(snapshot, handler[w].change))
             /\ Answer(w, "updated")
        ELSE /\ UNCHANGED rows
             /\ Answer(w, "conflict")
  /\ UNCHANGED <<plans, temp, issued, analysed, faults, struck>>

\* DELETE /api/tasks/<id>: the conditional DELETE and the lookup that tells a
\* missing row from a protected one share a transaction.
Delete(w) ==
  /\ handler[w] = Idle
  /\ \E t \in Tasks :
       \/ DeleteMatches(t) /\ rows' = Deleted(t) /\ Answer(w, "deleted")
       \/ rows[t] = NoRow /\ UNCHANGED rows /\ Answer(w, "not_found")
       \/ /\ rows[t] # NoRow /\ ~DeleteMatches(t)
          /\ UNCHANGED rows
          /\ Answer(w, "conflict")
  /\ UNCHANGED <<plans, temp, issued, analysed, faults, struck>>

----------------------------------------------------------------------------
(* POST /api/tasks/from-analysis *)

InsertAnalysed(w) ==
  /\ handler[w] = Idle
  /\ \E t \in Tasks \ issued, status \in AnalysisStatuses, body \in Bodies :
       /\ rows'     = Inserted(t, NewRow(status, body))
       /\ issued'   = issued \cup {t}
       /\ analysed' = analysed \cup {t}
       /\ Continue(w, Planning(t, "inserted"))
  /\ UNCHANGED <<plans, temp, faults, struck>>

\* save() writes the markdown beside the plan, never into it ...
WriteTemp(w) ==
  /\ handler[w].pc = "inserted"
  /\ LET t == handler[w].task IN
     /\ temp' = temp \cup {t}
     /\ Continue(w, Planning(t, "temp_written"))
  /\ UNCHANGED <<rows, plans, issued, analysed, faults, struck>>

\* ... and renames it into place.
PublishPlan(w) ==
  /\ handler[w].pc = "temp_written"
  /\ LET t == handler[w].task IN
     /\ plans' = plans \cup {t}
     /\ temp'  = temp \ {t}
     /\ Answer(w, "planned")
  /\ UNCHANGED <<rows, issued, analysed, faults, struck>>

\* Mutant of SaveFails: no except clause in create_from_analysis.
SaveFailsUncompensated(w) ==
  /\ handler[w].pc \in {"inserted", "temp_written"}
  /\ temp' = temp \ {handler[w].task}
  /\ Answer(w, "plan_failed")
  /\ UNCHANGED <<rows, plans, issued, analysed, faults, struck>>

\* Either file operation may raise; the finally clause removes the temporary.
SaveFails(w) ==
  /\ handler[w].pc \in {"inserted", "temp_written"}
  /\ LET t == handler[w].task IN
     /\ temp' = temp \ {t}
     /\ Continue(w, Planning(t, "save_failed"))
  /\ UNCHANGED <<rows, plans, issued, analysed, faults, struck>>

\* except Exception: task_service.delete(...), then raise.  When the delete
\* itself raises, its exception replaces the first one and the row stays.
Compensate(w) ==
  /\ handler[w].pc = "save_failed"
  /\ LET t == handler[w].task IN
     \/ DeleteMatches(t) /\ rows' = Deleted(t) /\ Answer(w, "plan_failed")
     \/ rows[t] = NoRow /\ UNCHANGED rows /\ Answer(w, "not_found")
     \/ /\ rows[t] # NoRow /\ ~DeleteMatches(t)
        /\ UNCHANGED rows
        /\ Answer(w, "conflict")
  /\ UNCHANGED <<plans, temp, issued, analysed, faults, struck>>

----------------------------------------------------------------------------
(* Faults *)

\* sqlite3.OperationalError after five seconds on a locked database.
DatabaseBusy(w) ==
  /\ faults < MaxFaults
  /\ handler[w].pc \in {"idle", "editing", "save_failed"}
  /\ Answer(w, "busy")
  /\ faults' = faults + 1
  /\ struck' = struck \cup ({handler[w]} \cap Plannings)
  /\ UNCHANGED <<rows, plans, temp, issued, analysed>>

\* The process stops and is started again: threads are gone, files and rows
\* stay, and nothing at start-up looks for work left half done.
Restart ==
  /\ faults < MaxFaults
  /\ handler' = [w \in Workers |-> Idle]
  /\ reply'   = NoReply
  /\ faults'  = faults + 1
  /\ struck'  = struck \cup ({handler[w] : w \in Workers} \cap Plannings)
  /\ UNCHANGED <<rows, plans, temp, issued, analysed>>

Step(w) ==
  \/ Create(w) \/ BeginUpdate(w) \/ CommitUpdate(w) \/ Delete(w)
  \/ InsertAnalysed(w) \/ WriteTemp(w) \/ PublishPlan(w) \/ SaveFails(w)
  \/ Compensate(w) \/ DatabaseBusy(w)

Next == Restart \/ \E w \in Workers : Step(w)

Spec == Init /\ [][Next]_vars
----------------------------------------------------------------------------
(* Properties *)

TypeOK ==
  /\ rows \in [Tasks -> Row \cup {NoRow}]
  /\ plans \subseteq Tasks
  /\ temp \subseteq Tasks
  /\ handler \in [Workers -> Handlers]
  /\ reply \in {NoReply} \cup [worker : Workers, code : ReplyCodes]
  /\ issued \subseteq Tasks
  /\ analysed \subseteq issued
  /\ faults \in Nat
  /\ struck \subseteq Plannings

\* The optimistic lock is sound: while a PUT is between its read and its
\* UPDATE, either the row still is exactly what was read, or its version has
\* moved on, or the row is gone for good.  Without this the version check in
\* SQLiteTaskRepository.update would let a stale row through.
SnapshotCurrentOrOutdated ==
  \A w \in Workers : handler[w].pc = "editing" =>
    LET row == rows[handler[w].task]
        snapshot == handler[w].snapshot
    IN row \in {NoRow, snapshot} \/ row.version > snapshot.version

\* The read-check-write of TaskService over three SQL statements behaves as
\* one atomic step of the task store: every committed status change follows
\* the transition matrix from the status the row has when it is written, no
\* version is skipped or written twice, no running task disappears.
Store == INSTANCE TaskStore WITH store <- rows, used <- issued
AtomicStore == Store!Spec

\* An update that is answered "updated" was applied to the row the client
\* meant: the version it supplied was current at the UPDATE, the fields its
\* payload left out keep the values they have at that moment, not those of
\* an older read, and the fields it gave are the ones stored.
NoLostUpdate ==
  [][\A w \in Workers :
       handler[w].pc = "editing" /\ Replied(w, "updated") =>
         LET t == handler[w].task
             change == handler[w].change
         IN /\ handler[w].supplied \in {NoVersion, rows[t].version}
            /\ rows'[t].body = IF change.body = Keep THEN rows[t].body
                               ELSE change.body
            /\ rows'[t].status = IF change.status = Keep THEN rows[t].status
                                 ELSE change.status]_vars

\* A PUT refused at the UPDATE lost to somebody: the row it read was edited or
\* deleted since, so of two colliding edits one always goes through.
ConflictMeansInterference ==
  [][\A w \in Workers :
       handler[w].pc = "editing" /\ Replied(w, "conflict") =>
         rows[handler[w].task] # handler[w].snapshot]_vars

\* A task made from an analysis and left without its plan file is explained by
\* a fault that struck while its own plan was being saved or taken back, or by
\* somebody who edited it meanwhile; a fault of any other request explains
\* nothing.  And a temporary file exists only while its request is still writing
\* the plan, unless the process stopped just there: an error of the disk, or a
\* lock timeout in the compensation, leaves none.
BeingPlanned(t) ==
  \E w \in Workers : handler[w].pc \in PlanningStages /\ handler[w].task = t
Struck(t, stages) == \E stage \in stages : Planning(t, stage) \in struck
HalfMadePlanHasCause ==
  /\ \A t \in analysed \ plans :
       \/ rows[t] = NoRow \/ BeingPlanned(t) \/ rows[t].version > 1
       \/ Struck(t, PlanningStages)
  /\ \A t \in temp :
       \/ \E w \in Workers : handler[w] = Planning(t, "temp_written")
       \/ Struck(t, {"temp_written"})

\* "A failed Artifact write is compensated by deleting the new Task"
\* (specs/task-planning/deepseek-task-analysis.md): when the request ends
\* without a plan and no fault struck, the task is gone.
FailedArtifactCompensated ==
  [][\A w \in Workers :
       handler[w].pc = "save_failed" /\ handler'[w] = Idle /\ faults' = faults =>
         rows'[handler[w].task] = NoRow]_vars
============================================================================
