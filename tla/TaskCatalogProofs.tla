------------------------- MODULE TaskCatalogProofs -------------------------
(***************************************************************************)
(* Proofs about TaskCatalog, for any sets of tasks, workers and texts and  *)
(* any bounds: type correctness, soundness of the optimistic lock, and     *)
(* that the catalogue implements the atomic store of TaskStore.            *)
(***************************************************************************)
EXTENDS TaskCatalog, TLAPS

\* Rows and requests only ever concern ids that were given out, so the id of a
\* deleted task is never inserted again under another worker's feet.
RowsAreIssued ==
  /\ \A t \in Tasks : rows[t] # NoRow => t \in issued
  /\ \A w \in Workers : handler[w].pc = "editing" => handler[w].task \in issued

\* A PUT that waits for its UPDATE passed the checks of TaskService.update.
EditingWasAccepted ==
  \A w \in Workers : handler[w].pc = "editing" =>
    /\ VersionAccepted(handler[w].snapshot, handler[w].supplied)
    /\ StatusAccepted(handler[w].snapshot, handler[w].change)

\* The inductive invariant.
CatalogInv ==
  /\ TypeOK
  /\ RowsAreIssued
  /\ EditingWasAccepted
  /\ SnapshotCurrentOrOutdated

----------------------------------------------------------------------------
(* Lemmas about the operators *)

\* A new row is a row at version 1.
LEMMA NewRowType ==
  ASSUME NEW status \in TASK_STATUSES, NEW body \in Bodies
  PROVE  NewRow(status, body) \in Row /\ NewRow(status, body).version = 1
  BY DEF NewRow, Row

\* An update yields a row one version further, and the fields of the payload
\* win over those of the row.
LEMMA UpdatedType ==
  ASSUME NEW row \in Row, NEW change \in Changes
  PROVE  /\ Updated(row, change) \in Row
         /\ Updated(row, change).version = row.version + 1
  BY DEF Updated, Row, Changes, Keep

\* The statuses an analysis can produce are statuses.
LEMMA AnalysisStatusType == AnalysisStatuses \subseteq TASK_STATUSES
  BY DEF AnalysisStatuses, TASK_STATUSES

\* The three kinds of handler have different program counters, so a worker
\* whose program counter is "editing" holds a whole editing record.
LEMMA EditingType ==
  ASSUME NEW h \in Handlers, h.pc = "editing"
  PROVE  /\ h.task \in Tasks
         /\ h.snapshot \in Row
         /\ h.change \in Changes
         /\ h.supplied \in Nat
  BY DEF Handlers, Idle, Plannings, PlanningStages

\* A worker in a planning stage is at work on one of the tasks.
LEMMA PlanningType ==
  ASSUME NEW h \in Handlers, h.pc \in PlanningStages
  PROVE  h.task \in Tasks /\ h \in Plannings /\ h = Planning(h.task, h.pc)
  BY DEF Handlers, Idle, Plannings, Planning, PlanningStages

\* What the actions store in handler are handlers.
LEMMA HandlerTypes ==
  /\ Idle \in Handlers
  /\ \A t \in Tasks, stage \in PlanningStages : Planning(t, stage) \in Handlers
  /\ \A t \in Tasks, row \in Row, change \in Changes, supplied \in Nat :
       Editing(t, row, change, supplied) \in Handlers
  BY DEF Handlers, Idle, Plannings, Planning, Editing

----------------------------------------------------------------------------
(* Type correctness *)

\* Every answer keeps the variables of the request typed.
LEMMA AnswerType ==
  ASSUME TypeOK, NEW w \in Workers, NEW code \in ReplyCodes, Answer(w, code)
  PROVE  /\ handler' \in [Workers -> Handlers]
         /\ reply' \in {NoReply} \cup [worker : Workers, code : ReplyCodes]
  BY HandlerTypes DEF TypeOK, Answer, Replied

\* A request that goes on with its next step stays typed.
LEMMA ContinueType ==
  ASSUME TypeOK, NEW w \in Workers, NEW next \in Handlers, Continue(w, next)
  PROVE  /\ handler' \in [Workers -> Handlers]
         /\ reply' \in {NoReply} \cup [worker : Workers, code : ReplyCodes]
  BY DEF TypeOK, Continue

\* The initial state is typed.
LEMMA InitTypeOK == Init => TypeOK
  BY HandlerTypes DEF Init, TypeOK

\* TypeOK is inductive on its own: one step per action.
LEMMA NextTypeOK == TypeOK /\ [Next]_vars => TypeOK'
<1> SUFFICES ASSUME TypeOK, [Next]_vars PROVE TypeOK'
  OBVIOUS
<1>1. ASSUME NEW w \in Workers, Create(w) PROVE TypeOK'
  <2>1. PICK t \in Tasks \ issued, status \in TASK_STATUSES, body \in Bodies :
          /\ rows' = Inserted(t, NewRow(status, body))
          /\ issued' = issued \cup {t}
          /\ Answer(w, "created")
    BY <1>1 DEF Create
  <2>2. rows' \in [Tasks -> Row \cup {NoRow}]
    BY <2>1, NewRowType DEF TypeOK, Inserted
  <2>3. "created" \in ReplyCodes
    BY DEF ReplyCodes
  <2>4. QED
    BY <1>1, <2>1, <2>2, <2>3, AnswerType DEF Create, TypeOK
<1>2. ASSUME NEW w \in Workers, BeginUpdate(w) PROVE TypeOK'
  <2>1. {"not_found", "conflict", "invalid"} \subseteq ReplyCodes
    BY DEF ReplyCodes
  <2>2. PICK t \in Tasks, change \in Changes, supplied \in 0..MaxVersion :
          \/ \E code \in ReplyCodes : Answer(w, code)
          \/ /\ rows[t] # NoRow
             /\ Continue(w, Editing(t, rows[t], change, supplied))
    BY <1>2, <2>1 DEF BeginUpdate
  <2>3. CASE \E code \in ReplyCodes : Answer(w, code)
    BY <1>2, <2>3, AnswerType DEF BeginUpdate, TypeOK
  <2>4. CASE /\ rows[t] # NoRow
             /\ Continue(w, Editing(t, rows[t], change, supplied))
    <3>1. supplied \in Nat /\ rows[t] \in Row
      BY <2>4, CatalogAssumption DEF TypeOK
    <3>2. Editing(t, rows[t], change, supplied) \in Handlers
      BY <3>1, HandlerTypes
    <3>3. QED
      BY <1>2, <2>4, <3>2, ContinueType DEF BeginUpdate, TypeOK
  <2>5. QED
    BY <2>2, <2>3, <2>4
<1>3. ASSUME NEW w \in Workers, CommitUpdate(w) PROVE TypeOK'
  <2> DEFINE t == handler[w].task
             snapshot == handler[w].snapshot
             change == handler[w].change
  <2>1. t \in Tasks /\ snapshot \in Row /\ change \in Changes
    BY <1>3, EditingType DEF CommitUpdate, TypeOK
  <2>2. rows' \in [Tasks -> Row \cup {NoRow}]
    BY <1>3, <2>1, UpdatedType DEF CommitUpdate, TypeOK, Written
  <2>3. \E code \in ReplyCodes : Answer(w, code)
    BY <1>3 DEF CommitUpdate, ReplyCodes
  <2>4. QED
    BY <1>3, <2>2, <2>3, AnswerType DEF CommitUpdate, TypeOK
<1>4. ASSUME NEW w \in Workers, Delete(w) PROVE TypeOK'
  <2>1. rows' \in [Tasks -> Row \cup {NoRow}]
    BY <1>4 DEF Delete, TypeOK, Deleted
  <2>2. \E code \in ReplyCodes : Answer(w, code)
    BY <1>4 DEF Delete, ReplyCodes
  <2>3. QED
    BY <1>4, <2>1, <2>2, AnswerType DEF Delete, TypeOK
<1>5. ASSUME NEW w \in Workers, InsertAnalysed(w) PROVE TypeOK'
  <2>1. PICK t \in Tasks \ issued, status \in AnalysisStatuses, body \in Bodies :
          /\ rows' = Inserted(t, NewRow(status, body))
          /\ issued' = issued \cup {t}
          /\ analysed' = analysed \cup {t}
          /\ Continue(w, Planning(t, "inserted"))
    BY <1>5 DEF InsertAnalysed
  <2>2. rows' \in [Tasks -> Row \cup {NoRow}]
    BY <2>1, NewRowType, AnalysisStatusType DEF TypeOK, Inserted
  <2>3. Planning(t, "inserted") \in Handlers
    BY <2>1, HandlerTypes DEF PlanningStages
  <2>4. QED
    BY <1>5, <2>1, <2>2, <2>3, ContinueType DEF InsertAnalysed, TypeOK
<1>6. ASSUME NEW w \in Workers, WriteTemp(w) \/ SaveFails(w) PROVE TypeOK'
  <2>1. handler[w].pc \in PlanningStages /\ handler[w].task \in Tasks
    BY <1>6, PlanningType DEF WriteTemp, SaveFails, TypeOK, PlanningStages
  <2>2. PICK stage \in PlanningStages : Continue(w, Planning(handler[w].task, stage))
    BY <1>6 DEF WriteTemp, SaveFails, PlanningStages
  <2>3. Planning(handler[w].task, stage) \in Handlers
    BY <2>1, <2>2, HandlerTypes
  <2>4. temp' \subseteq Tasks
    BY <1>6, <2>1 DEF WriteTemp, SaveFails, TypeOK
  <2>5. QED
    BY <1>6, <2>2, <2>3, <2>4, ContinueType DEF WriteTemp, SaveFails, TypeOK
<1>7. ASSUME NEW w \in Workers, PublishPlan(w) PROVE TypeOK'
  <2>1. handler[w].task \in Tasks
    BY <1>7, PlanningType DEF PublishPlan, TypeOK, PlanningStages
  <2>2. "planned" \in ReplyCodes
    BY DEF ReplyCodes
  <2>3. QED
    BY <1>7, <2>1, <2>2, AnswerType DEF PublishPlan, TypeOK
<1>8. ASSUME NEW w \in Workers, Compensate(w) PROVE TypeOK'
  <2>1. rows' \in [Tasks -> Row \cup {NoRow}]
    BY <1>8 DEF Compensate, TypeOK, Deleted
  <2>2. \E code \in ReplyCodes : Answer(w, code)
    BY <1>8 DEF Compensate, ReplyCodes
  <2>3. QED
    BY <1>8, <2>1, <2>2, AnswerType DEF Compensate, TypeOK
<1>9. ASSUME NEW w \in Workers, DatabaseBusy(w) PROVE TypeOK'
  <2>1. "busy" \in ReplyCodes
    BY DEF ReplyCodes
  <2>2. QED
    BY <1>9, <2>1, AnswerType DEF DatabaseBusy, TypeOK
<1>10. CASE Restart
  BY <1>10, HandlerTypes DEF Restart, TypeOK
<1>11. CASE UNCHANGED vars
  BY <1>11 DEF vars, TypeOK
<1>12. QED
  BY <1>1, <1>2, <1>3, <1>4, <1>5, <1>6, <1>7, <1>8, <1>9, <1>10, <1>11
     DEF Next, Step

\* The variables of the catalogue keep their types in every behaviour.
THEOREM TypeCorrect == Spec => []TypeOK
<1>1. QED
  BY InitTypeOK, NextTypeOK, PTL DEF Spec

----------------------------------------------------------------------------
(* The optimistic lock *)

\* How one step may change the table under an id that was already issued:
\* leave the row, replace it by one with a higher version, or delete it.
RowAdvances(t) ==
  \/ rows'[t] = rows[t]
  \/ rows'[t] = NoRow
  \/ /\ rows[t] # NoRow /\ rows'[t] # NoRow
     /\ rows'[t].version = rows[t].version + 1

\* Only BeginUpdate moves a worker to "editing", with the row as it stands.
StillEditing(w) ==
  handler'[w].pc = "editing" =>
    \/ handler'[w] = handler[w]
    \/ \E t \in Tasks, change \in Changes, supplied \in 0..MaxVersion :
         /\ handler'[w] = Editing(t, rows[t], change, supplied)
         /\ rows[t] # NoRow
         /\ VersionAccepted(rows[t], supplied)
         /\ StatusAccepted(rows[t], change)
         /\ UNCHANGED rows

\* No step takes a row back: under an id that was issued the version only grows,
\* and the id stays issued.
LEMMA StepAdvancesRows ==
  ASSUME CatalogInv, [Next]_vars, NEW t \in issued
  PROVE  RowAdvances(t) /\ t \in issued'
<1> USE DEF RowAdvances
<1>0. t \in Tasks /\ rows \in [Tasks -> Row \cup {NoRow}]
  BY DEF CatalogInv, TypeOK
<1>1. ASSUME NEW w \in Workers, Create(w) \/ InsertAnalysed(w)
      PROVE  RowAdvances(t) /\ t \in issued'
  BY <1>0, <1>1 DEF Create, InsertAnalysed, Inserted
<1>2. ASSUME NEW w \in Workers, CommitUpdate(w)
      PROVE  RowAdvances(t) /\ t \in issued'
  <2> DEFINE s == handler[w].task
  <2>1. /\ s \in Tasks
        /\ handler[w].snapshot \in Row
        /\ handler[w].change \in Changes
    BY <1>2, EditingType DEF CommitUpdate, CatalogInv, TypeOK
  <2>2. Updated(handler[w].snapshot, handler[w].change).version
          = handler[w].snapshot.version + 1
    BY <2>1, UpdatedType
  <2>3. Updated(handler[w].snapshot, handler[w].change) # NoRow
    BY <2>1, UpdatedType, NoRowAssumption
  <2>4. QED
    BY <1>0, <1>2, <2>1, <2>2, <2>3 DEF CommitUpdate, UpdateMatches, Written
<1>3. ASSUME NEW w \in Workers, Delete(w) \/ Compensate(w)
      PROVE  RowAdvances(t) /\ t \in issued'
  BY <1>0, <1>3 DEF Delete, Compensate, Deleted
<1>4. ASSUME NEW w \in Workers,
             \/ BeginUpdate(w) \/ WriteTemp(w) \/ PublishPlan(w)
             \/ SaveFails(w) \/ DatabaseBusy(w)
      PROVE  RowAdvances(t) /\ t \in issued'
  BY <1>4 DEF BeginUpdate, WriteTemp, PublishPlan, SaveFails, DatabaseBusy
<1>5. CASE Restart \/ UNCHANGED vars
  BY <1>5 DEF Restart, vars
<1>6. QED
  BY <1>1, <1>2, <1>3, <1>4, <1>5 DEF Next, Step

\* A worker is at its UPDATE because it was before, or because BeginUpdate just
\* read the row and accepted the payload.
LEMMA StepEditing ==
  ASSUME TypeOK, [Next]_vars, NEW w \in Workers
  PROVE  StillEditing(w)
<1> USE DEF StillEditing
<1>0. handler \in [Workers -> Handlers]
  BY DEF TypeOK
<1>1. ASSUME NEW v \in Workers, NEW code, Answer(v, code) PROVE StillEditing(w)
  BY <1>0, <1>1 DEF Answer, Idle
<1>2. ASSUME NEW v \in Workers, NEW t, NEW stage \in PlanningStages,
             Continue(v, Planning(t, stage))
      PROVE  StillEditing(w)
  BY <1>0, <1>2 DEF Continue, Planning, PlanningStages
<1>3. ASSUME NEW v \in Workers, BeginUpdate(v) PROVE StillEditing(w)
  <2>1. PICK t \in Tasks, change \in Changes, supplied \in 0..MaxVersion :
          \/ \E code : Answer(v, code)
          \/ /\ Continue(v, Editing(t, rows[t], change, supplied))
             /\ rows[t] # NoRow
             /\ VersionAccepted(rows[t], supplied)
             /\ StatusAccepted(rows[t], change)
    BY <1>3 DEF BeginUpdate
  <2>2. UNCHANGED rows
    BY <1>3 DEF BeginUpdate
  <2>3. CASE Continue(v, Editing(t, rows[t], change, supplied))
             /\ rows[t] # NoRow
             /\ VersionAccepted(rows[t], supplied)
             /\ StatusAccepted(rows[t], change)
    BY <1>0, <2>2, <2>3 DEF Continue
  <2>4. QED
    BY <1>1, <2>1, <2>3
<1>4. ASSUME NEW v \in Workers,
             \/ Create(v) \/ CommitUpdate(v) \/ Delete(v) \/ PublishPlan(v)
             \/ Compensate(v) \/ DatabaseBusy(v)
      PROVE  StillEditing(w)
  <2>1. \E code : Answer(v, code)
    BY <1>4 DEF Create, CommitUpdate, Delete, PublishPlan, Compensate, DatabaseBusy
  <2>2. QED
    BY <1>1, <2>1
<1>5. ASSUME NEW v \in Workers, InsertAnalysed(v) \/ WriteTemp(v) \/ SaveFails(v)
      PROVE  StillEditing(w)
  <2>1. \E t : \E stage \in PlanningStages : Continue(v, Planning(t, stage))
    BY <1>5 DEF InsertAnalysed, WriteTemp, SaveFails, PlanningStages
  <2>2. QED
    BY <1>2, <2>1
<1>6. CASE Restart
  BY <1>6 DEF Restart, Idle
<1>7. CASE UNCHANGED vars
  BY <1>7 DEF vars
<1>8. QED
  BY <1>3, <1>4, <1>5, <1>6, <1>7 DEF Next, Step

\* The initial state satisfies the invariant: nobody is editing, no row is there.
LEMMA InitInv == Init => CatalogInv
<1> SUFFICES ASSUME Init PROVE CatalogInv
  OBVIOUS
<1>1. TypeOK
  BY InitTypeOK
<1>2. \A w \in Workers : handler[w].pc # "editing"
  BY DEF Init, Idle
<1>3. QED
  BY <1>1, <1>2
     DEF CatalogInv, RowsAreIssued, EditingWasAccepted, SnapshotCurrentOrOutdated, Init

\* An id that holds a row was issued, before and after the step.
LEMMA NextRowsAreIssued ==
  ASSUME CatalogInv, [Next]_vars, NEW t \in Tasks, rows'[t] # NoRow
  PROVE  t \in issued'
<1>0. /\ rows \in [Tasks -> Row \cup {NoRow}]
      /\ \A s \in Tasks : rows[s] # NoRow => s \in issued
  BY DEF CatalogInv, TypeOK, RowsAreIssued
<1>1. ASSUME NEW w \in Workers, Create(w) \/ InsertAnalysed(w)
      PROVE  t \in issued'
  BY <1>0, <1>1 DEF Create, InsertAnalysed, Inserted
<1>2. ASSUME NEW w \in Workers, CommitUpdate(w)
      PROVE  t \in issued'
  BY <1>0, <1>2 DEF CommitUpdate, UpdateMatches, Written
<1>3. ASSUME NEW w \in Workers, Delete(w) \/ Compensate(w)
      PROVE  t \in issued'
  BY <1>0, <1>3 DEF Delete, Compensate, Deleted
<1>4. ASSUME NEW w \in Workers,
             \/ BeginUpdate(w) \/ WriteTemp(w) \/ PublishPlan(w)
             \/ SaveFails(w) \/ DatabaseBusy(w)
      PROVE  t \in issued'
  BY <1>0, <1>4 DEF BeginUpdate, WriteTemp, PublishPlan, SaveFails, DatabaseBusy
<1>5. CASE Restart \/ UNCHANGED vars
  BY <1>0, <1>5 DEF Restart, vars
<1>6. QED
  BY <1>1, <1>2, <1>3, <1>4, <1>5 DEF Next, Step

\* Every step preserves the invariant.  The hard part is a PUT in flight: either
\* it was before, and rows only advance, or it starts from the row as it stands.
LEMMA NextInv == CatalogInv /\ [Next]_vars => CatalogInv'
<1> SUFFICES ASSUME CatalogInv, [Next]_vars PROVE CatalogInv'
  OBVIOUS
<1>1. TypeOK /\ TypeOK'
  BY NextTypeOK DEF CatalogInv
<1>2. \A w \in Workers : StillEditing(w)
  BY <1>1, StepEditing
<1>3. ASSUME NEW w \in Workers, handler'[w].pc = "editing"
      PROVE  /\ handler'[w].task \in issued'
             /\ VersionAccepted(handler'[w].snapshot, handler'[w].supplied)
             /\ StatusAccepted(handler'[w].snapshot, handler'[w].change)
             /\ \/ rows'[handler'[w].task] \in {NoRow, handler'[w].snapshot}
                \/ rows'[handler'[w].task].version > handler'[w].snapshot.version
  <2>1. CASE handler'[w] = handler[w]
    <3> DEFINE t == handler[w].task
               snapshot == handler[w].snapshot
    <3>1. /\ handler[w].pc = "editing"
          /\ t \in issued /\ snapshot \in Row /\ t \in Tasks
      BY <1>1, <1>3, <2>1, EditingType DEF CatalogInv, RowsAreIssued, TypeOK
    <3>2. /\ VersionAccepted(snapshot, handler[w].supplied)
          /\ StatusAccepted(snapshot, handler[w].change)
      BY <3>1 DEF CatalogInv, EditingWasAccepted
    <3>3. \/ rows[t] \in {NoRow, snapshot}
          \/ rows[t].version > snapshot.version
      BY <3>1 DEF CatalogInv, SnapshotCurrentOrOutdated
    <3>4. RowAdvances(t) /\ t \in issued'
      BY <3>1, StepAdvancesRows
    <3>5. rows[t] \in Row \cup {NoRow}
      BY <1>1, <3>1 DEF TypeOK
    <3>6. \/ rows'[t] \in {NoRow, snapshot}
          \/ rows'[t].version > snapshot.version
      <4>1. CASE rows'[t] = rows[t] \/ rows'[t] = NoRow
        BY <3>3, <4>1
      <4>2. CASE /\ rows[t] # NoRow
                 /\ rows'[t].version = rows[t].version + 1
        <5>1. rows[t].version \in Nat /\ snapshot.version \in Nat
          BY <3>1, <3>5, <4>2 DEF Row
        <5>2. rows[t].version >= snapshot.version
          BY <3>3, <4>2, <5>1
        <5>3. QED
          BY <4>2, <5>1, <5>2
      <4>3. QED
        BY <3>4, <4>1, <4>2 DEF RowAdvances
    <3>7. QED
      BY <2>1, <3>2, <3>4, <3>6
  <2>2. CASE \E t \in Tasks, change \in Changes, supplied \in 0..MaxVersion :
               /\ handler'[w] = Editing(t, rows[t], change, supplied)
               /\ rows[t] # NoRow
               /\ VersionAccepted(rows[t], supplied)
               /\ StatusAccepted(rows[t], change)
               /\ UNCHANGED rows
    <3>1. PICK t \in Tasks, change \in Changes, supplied \in 0..MaxVersion :
               /\ handler'[w] = Editing(t, rows[t], change, supplied)
               /\ rows[t] # NoRow
               /\ VersionAccepted(rows[t], supplied)
               /\ StatusAccepted(rows[t], change)
               /\ UNCHANGED rows
      BY <2>2
    <3>2. t \in issued /\ t \in issued'
      BY <3>1, StepAdvancesRows DEF CatalogInv, RowsAreIssued
    <3>3. QED
      BY <3>1, <3>2 DEF Editing
  <2>3. QED
    BY <1>2, <1>3, <2>1, <2>2 DEF StillEditing
<1>4. RowsAreIssued'
  BY <1>3, NextRowsAreIssued DEF RowsAreIssued
<1>5. EditingWasAccepted'
  BY <1>3 DEF EditingWasAccepted, VersionAccepted, StatusAccepted
<1>6. SnapshotCurrentOrOutdated'
  BY <1>3 DEF SnapshotCurrentOrOutdated
<1>7. QED
  BY <1>1, <1>4, <1>5, <1>6 DEF CatalogInv

\* The invariant holds in every reachable state.
LEMMA Invariance == Spec => []CatalogInv
<1>1. QED
  BY InitInv, NextInv, PTL DEF Spec

\* A row that a PUT is about to write over is the row it read, or is beyond
\* recall: its version has moved on or it was deleted.
THEOREM OptimisticLockIsSound == Spec => []SnapshotCurrentOrOutdated
<1>1. CatalogInv => SnapshotCurrentOrOutdated
  BY DEF CatalogInv
<1>2. QED
  BY <1>1, Invariance, PTL

----------------------------------------------------------------------------
(* The catalogue implements the atomic store *)

\* When the version test of the UPDATE succeeds, the row is the very row the PUT
\* read: this is what the optimistic lock is for.
LEMMA CommitWritesCurrentRow ==
  ASSUME CatalogInv, NEW w \in Workers, CommitUpdate(w),
         UpdateMatches(handler[w].task, handler[w].snapshot.version)
  PROVE  /\ rows[handler[w].task] = handler[w].snapshot
         /\ handler[w].task \in Tasks
         /\ handler[w].snapshot \in Row
         /\ handler[w].change \in Changes
         /\ handler[w].pc = "editing"
<1>1. /\ handler[w].pc = "editing"
      /\ handler[w].task \in Tasks
      /\ handler[w].snapshot \in Row
      /\ handler[w].change \in Changes
  BY EditingType DEF CommitUpdate, CatalogInv, TypeOK
<1>2. \/ rows[handler[w].task] \in {NoRow, handler[w].snapshot}
      \/ rows[handler[w].task].version > handler[w].snapshot.version
  BY <1>1 DEF CatalogInv, SnapshotCurrentOrOutdated
<1>3. handler[w].snapshot.version \in Nat
  BY <1>1 DEF Row
<1>4. QED
  BY <1>1, <1>2, <1>3 DEF UpdateMatches

\* The store speaks of the same rows.
LEMMA StoreRows == Store!Row = Row
  BY DEF Store!Row, Row, Store!TASK_STATUSES, TASK_STATUSES

\* Every step of the catalogue is one step of the store, or leaves it alone.
LEMMA StepRefinesStore ==
  ASSUME CatalogInv, [Next]_vars
  PROVE  [Store!Next]_<<rows, issued>>
<1>0. rows \in [Tasks -> Row \cup {NoRow}]
  BY DEF CatalogInv, TypeOK
<1>1. ASSUME NEW w \in Workers, Create(w) \/ InsertAnalysed(w)
      PROVE  Store!Next
  <2>1. PICK t \in Tasks \ issued, status \in TASK_STATUSES, body \in Bodies :
          /\ rows' = [rows EXCEPT ![t] = NewRow(status, body)]
          /\ issued' = issued \cup {t}
    BY <1>1, AnalysisStatusType DEF Create, InsertAnalysed, Inserted
  <2>2. rows'[t] = NewRow(status, body)
    BY <1>0, <2>1
  <2>3. rows'[t] \in Row /\ Store!Add(t, rows'[t])
    BY <2>1, <2>2, NewRowType DEF Store!Add
  <2>4. QED
    BY <2>1, <2>3, StoreRows DEF Store!Next
<1>2. ASSUME NEW w \in Workers, CommitUpdate(w)
      PROVE  [Store!Next]_<<rows, issued>>
  <2> DEFINE t == handler[w].task
             snapshot == handler[w].snapshot
             change == handler[w].change
  <2>1. CASE UpdateMatches(t, snapshot.version)
    <3>1. /\ rows[t] = snapshot /\ t \in Tasks /\ snapshot \in Row
          /\ change \in Changes /\ handler[w].pc = "editing"
      BY <1>2, <2>1, CommitWritesCurrentRow
    <3>2. rows' = [rows EXCEPT ![t] = Updated(snapshot, change)] /\ UNCHANGED issued
      BY <1>2, <2>1 DEF CommitUpdate, Written
    <3>3. /\ rows'[t] = Updated(snapshot, change)
          /\ rows'[t] \in Row
          /\ rows'[t].version = rows[t].version + 1
      BY <1>0, <3>1, <3>2, UpdatedType
    <3>4. StatusAccepted(snapshot, change)
      BY <3>1 DEF CatalogInv, EditingWasAccepted
    <3>5. TransitionAllowed(rows[t].status, rows'[t].status)
      BY <3>1, <3>3, <3>4 DEF StatusAccepted, TransitionAllowed, Updated
    <3>6. rows[t] # NoRow
      BY <2>1 DEF UpdateMatches
    <3>7. Store!Edit(t, rows'[t])
      BY <3>2, <3>3, <3>5, <3>6
         DEF Store!Edit, Store!TransitionAllowed, TransitionAllowed,
             Store!TASK_STATUS_TRANSITIONS, TASK_STATUS_TRANSITIONS
    <3>8. QED
      BY <3>1, <3>3, <3>7, StoreRows DEF Store!Next
  <2>2. CASE ~UpdateMatches(t, snapshot.version)
    BY <1>2, <2>2 DEF CommitUpdate
  <2>3. QED
    BY <2>1, <2>2
<1>3. ASSUME NEW w \in Workers, Delete(w) \/ Compensate(w)
      PROVE  [Store!Next]_<<rows, issued>>
  <2>1. ASSUME NEW t \in Tasks, DeleteMatches(t), rows' = Deleted(t), UNCHANGED issued
        PROVE  Store!Next
    BY <2>1 DEF Store!Next, Store!Remove, DeleteMatches, Deleted,
                Store!ProtectedStatuses, ProtectedStatuses
  <2>2. CASE Delete(w)
    BY <2>1, <2>2 DEF Delete
  <2>3. CASE Compensate(w)
    <3>1. handler[w].task \in Tasks
      BY <2>3, PlanningType DEF Compensate, CatalogInv, TypeOK, PlanningStages
    <3>2. QED
      BY <2>1, <2>3, <3>1 DEF Compensate
  <2>4. QED
    BY <1>3, <2>2, <2>3
<1>4. ASSUME NEW w \in Workers,
             \/ BeginUpdate(w) \/ WriteTemp(w) \/ PublishPlan(w)
             \/ SaveFails(w) \/ DatabaseBusy(w)
      PROVE  UNCHANGED <<rows, issued>>
  BY <1>4 DEF BeginUpdate, WriteTemp, PublishPlan, SaveFails, DatabaseBusy
<1>5. CASE Restart \/ UNCHANGED vars
  BY <1>5 DEF Restart, vars
<1>6. QED
  BY <1>1, <1>2, <1>3, <1>4, <1>5 DEF Next, Step

\* Reading a row, checking it in Python and writing it back under a version
\* guard is, seen from outside, one atomic edit of a versioned store.
THEOREM CatalogImplementsStore == Spec => AtomicStore
<1>1. Init => Store!Init
  BY DEF Init, Store!Init
<1>2. CatalogInv /\ [Next]_vars => [Store!Next]_<<rows, issued>>
  BY StepRefinesStore
<1>3. QED
  BY <1>1, <1>2, Invariance, PTL DEF Spec, AtomicStore, Store!Spec

\* A committed edit was made against the row it overwrites: the version the
\* client supplied is current and the fields it left out are kept as they are.
THEOREM NoUpdateIsLost == Spec => NoLostUpdate
<1> DEFINE Applied(w) ==
      handler[w].pc = "editing" /\ Replied(w, "updated") =>
        LET t == handler[w].task
            change == handler[w].change
        IN /\ handler[w].supplied \in {NoVersion, rows[t].version}
           /\ rows'[t].body = IF change.body = Keep THEN rows[t].body
                              ELSE change.body
           /\ rows'[t].status = IF change.status = Keep THEN rows[t].status
                                ELSE change.status
<1>1. ASSUME CatalogInv, Next, NEW w \in Workers,
             handler[w].pc = "editing", Replied(w, "updated")
      PROVE  CommitUpdate(w) /\ UpdateMatches(handler[w].task, handler[w].snapshot.version)
  <2>1. PICK v \in Workers : Step(v)
    BY <1>1 DEF Next, Restart, NoReply, Replied
  <2>2. v = w
    BY <1>1, <2>1
       DEF Replied, Step, Create, BeginUpdate, CommitUpdate, Delete, InsertAnalysed,
           WriteTemp, PublishPlan, SaveFails, Compensate, DatabaseBusy, Answer,
           Continue, NoReply
  <2>3. CommitUpdate(w) \/ DatabaseBusy(w)
    BY <1>1, <2>1, <2>2
       DEF Step, Create, BeginUpdate, Delete, InsertAnalysed, WriteTemp,
           PublishPlan, SaveFails, Compensate, Idle
  <2>4. ~DatabaseBusy(w)
    BY <1>1 DEF DatabaseBusy, Answer, Replied
  <2>5. QED
    BY <1>1, <2>3, <2>4 DEF CommitUpdate, Answer, Replied
<1>2. ASSUME CatalogInv, Next, NEW w \in Workers PROVE Applied(w)
  <2> SUFFICES ASSUME handler[w].pc = "editing", Replied(w, "updated")
               PROVE  LET t == handler[w].task
                          change == handler[w].change
                      IN /\ handler[w].supplied \in {NoVersion, rows[t].version}
                         /\ rows'[t].body = IF change.body = Keep THEN rows[t].body
                                            ELSE change.body
                         /\ rows'[t].status = IF change.status = Keep THEN rows[t].status
                                              ELSE change.status
    OBVIOUS
  <2> DEFINE t == handler[w].task
             snapshot == handler[w].snapshot
             change == handler[w].change
  <2>1. CommitUpdate(w) /\ UpdateMatches(t, snapshot.version)
    BY <1>1, <1>2
  <2>2. /\ rows[t] = snapshot /\ t \in Tasks
    BY <1>2, <2>1, CommitWritesCurrentRow
  <2>3. handler[w].supplied \in {NoVersion, rows[t].version}
    BY <1>2, <2>1, <2>2 DEF CatalogInv, EditingWasAccepted, VersionAccepted, CommitUpdate
  <2>4. rows' = [rows EXCEPT ![t] = Updated(snapshot, change)]
    BY <2>1 DEF CommitUpdate, Written
  <2>5. rows'[t] = Updated(snapshot, change)
    BY <1>2, <2>2, <2>4 DEF CatalogInv, TypeOK
  <2>6. QED
    BY <2>2, <2>3, <2>5 DEF Updated
<1>3. CatalogInv /\ [Next]_vars => [\A w \in Workers : Applied(w)]_vars
  BY <1>2
<1>4. QED
  BY <1>3, Invariance, PTL DEF Spec, NoLostUpdate

----------------------------------------------------------------------------
(* Plans left half made *)

\* What Compensate finds when it may not delete: a row of an analysed task that
\* nobody edited has one of the statuses an analysis gives, none protected.
UneditedStatus ==
  \A t \in analysed :
    rows[t] = NoRow \/ rows[t].version > 1 \/ rows[t].status \in AnalysisStatuses

PlanInv == CatalogInv /\ HalfMadePlanHasCause /\ UneditedStatus

\* A worker that leaves the planning of a task leaves its plan, no row, a
\* protected row, or was struck by a fault at the stage it was in; and no
\* temporary file, but for the fault.
LEMMA StepPlanning ==
  ASSUME CatalogInv, [Next]_vars, NEW w \in Workers, handler[w].pc \in PlanningStages
  PROVE  LET t == handler[w].task IN
         \/ handler[w] \in struck'
         \/ handler'[w] = handler[w]
         \/ handler'[w] = Planning(t, "temp_written")
         \/ /\ t \notin temp'
            /\ \/ handler'[w] = Planning(t, "save_failed")
               \/ handler'[w] = Idle /\ t \in plans'
         \/ /\ handler[w].pc = "save_failed"
            /\ \/ rows'[t] = NoRow
               \/ rows'[t] = rows[t] /\ rows[t].status \in ProtectedStatuses
<1> DEFINE t == handler[w].task
<1>0. /\ handler \in [Workers -> Handlers] /\ handler[w] \in Plannings /\ t \in Tasks
      /\ rows \in [Tasks -> Row \cup {NoRow}]
  BY PlanningType DEF CatalogInv, TypeOK
<1>1. handler[w].pc # "idle" /\ handler[w] # Idle /\ handler[w].pc # "editing"
  BY DEF PlanningStages, Idle
<1>2. ASSUME NEW v \in Workers, v # w, Step(v) PROVE handler'[w] = handler[w]
  BY <1>0, <1>2
  DEF Step, Create, BeginUpdate, CommitUpdate, Delete, InsertAnalysed, WriteTemp,
      PublishPlan, SaveFails, Compensate, DatabaseBusy, Answer, Continue
<1>3. CASE WriteTemp(w)
  BY <1>0, <1>3 DEF WriteTemp, Continue
<1>4. CASE PublishPlan(w)
  BY <1>0, <1>4 DEF PublishPlan, Answer
<1>5. CASE SaveFails(w)
  BY <1>0, <1>5 DEF SaveFails, Continue
<1>6. CASE Compensate(w)
  BY <1>0, <1>6 DEF Compensate, DeleteMatches, Deleted
<1>7. CASE DatabaseBusy(w)
  BY <1>0, <1>7 DEF DatabaseBusy
<1>8. CASE Restart
  BY <1>0, <1>8 DEF Restart
<1>9. CASE UNCHANGED vars
  BY <1>9 DEF vars
<1>10. CASE Step(w)
  BY <1>1, <1>3, <1>4, <1>5, <1>6, <1>7, <1>10
  DEF Step, Create, BeginUpdate, CommitUpdate, Delete, InsertAnalysed
<1> QED
  BY <1>2, <1>8, <1>9, <1>10 DEF Next

\* A task becomes analysed, and a temporary file appears, only in the hands of
\* a worker that is planning it.
LEMMA StepAnalyses ==
  ASSUME CatalogInv, [Next]_vars
  PROVE  /\ \A t \in analysed' \ analysed :
              /\ rows'[t] # NoRow /\ rows'[t].status \in AnalysisStatuses
              /\ BeingPlanned(t)'
         /\ \A t \in temp' \ temp : \E w \in Workers : handler'[w] = Planning(t, "temp_written")
         /\ struck \subseteq struck'
         /\ plans \subseteq plans' /\ analysed \subseteq analysed'
<1>0. TypeOK
  BY DEF CatalogInv
<1>1. ASSUME NEW w \in Workers, InsertAnalysed(w)
      PROVE  \A t \in analysed' \ analysed :
               /\ rows'[t] # NoRow /\ rows'[t].status \in AnalysisStatuses
               /\ BeingPlanned(t)'
  <2>1. PICK t \in Tasks \ issued, status \in AnalysisStatuses, body \in Bodies :
          /\ rows' = Inserted(t, NewRow(status, body))
          /\ analysed' = analysed \cup {t}
          /\ Continue(w, Planning(t, "inserted"))
    BY <1>1 DEF InsertAnalysed
  <2>2. NewRow(status, body) \in Row
    BY NewRowType, AnalysisStatusType
  <2>3. rows'[t] = NewRow(status, body)
    BY <1>0, <2>1 DEF TypeOK, Inserted
  <2>4. rows'[t].status \in AnalysisStatuses /\ rows'[t] # NoRow
    BY <2>2, <2>3, NoRowAssumption DEF NewRow
  <2>5. handler'[w] = Planning(t, "inserted")
    BY <1>0, <2>1 DEF Continue, TypeOK
  <2>6. handler'[w].pc \in PlanningStages /\ handler'[w].task = t
    BY <2>5 DEF Planning, PlanningStages
  <2> QED
    BY <2>1, <2>4, <2>6 DEF BeingPlanned
<1>2. ASSUME NEW w \in Workers, WriteTemp(w)
      PROVE  \A t \in temp' \ temp : \E v \in Workers : handler'[v] = Planning(t, "temp_written")
  BY <1>0, <1>2 DEF WriteTemp, Continue, TypeOK
<1>3. \/ analysed' = analysed
      \/ \E w \in Workers : InsertAnalysed(w)
  BY DEF Next, Step, Create, BeginUpdate, CommitUpdate, Delete, WriteTemp, PublishPlan,
         SaveFails, Compensate, DatabaseBusy, Restart, vars
<1>4. \/ temp' \subseteq temp
      \/ \E w \in Workers : WriteTemp(w)
  BY DEF Next, Step, Create, BeginUpdate, CommitUpdate, Delete, InsertAnalysed, PublishPlan,
         SaveFails, Compensate, DatabaseBusy, Restart, vars
<1>5. /\ struck \subseteq struck'
      /\ plans \subseteq plans' /\ analysed \subseteq analysed'
  BY DEF Next, Step, Create, BeginUpdate, CommitUpdate, Delete, InsertAnalysed, WriteTemp,
         PublishPlan, SaveFails, Compensate, DatabaseBusy, Restart, vars
<1> QED
  BY <1>1, <1>2, <1>3, <1>4, <1>5

\* Every step that leaves a plan half made has a cause.
LEMMA NextPlanInv == PlanInv /\ [Next]_vars => PlanInv'
<1> SUFFICES ASSUME PlanInv, [Next]_vars PROVE PlanInv'
  OBVIOUS
<1>1. CatalogInv /\ CatalogInv'
  BY NextInv DEF PlanInv
<1>2. \A t \in analysed : t \in issued /\ t \in Tasks /\ rows[t] \in Row \cup {NoRow}
  BY <1>1 DEF CatalogInv, TypeOK
<1>3. \A t \in analysed : RowAdvances(t)
  BY <1>1, <1>2, StepAdvancesRows
<1>4. UneditedStatus'
  <2> SUFFICES ASSUME NEW t \in analysed'
               PROVE  \/ rows'[t] = NoRow \/ rows'[t].version > 1
                      \/ rows'[t].status \in AnalysisStatuses
    BY DEF UneditedStatus
  <2>1. CASE t \in analysed
    BY <1>2, <1>3, <2>1 DEF RowAdvances, Row, PlanInv, UneditedStatus
  <2>2. CASE t \notin analysed
    BY <1>1, <2>2, StepAnalyses
  <2> QED
    BY <2>1, <2>2
<1>5. struck \subseteq struck'
  BY <1>1, StepAnalyses
<1>6. ASSUME NEW t \in analysed' \ plans', ~Struck(t, PlanningStages)'
      PROVE  rows'[t] = NoRow \/ BeingPlanned(t)' \/ rows'[t].version > 1
  <2>1. CASE t \notin analysed
    BY <1>1, <2>1, StepAnalyses
  <2>2. CASE t \in analysed
    <3>1. ~Struck(t, PlanningStages) /\ t \notin plans
      BY <1>1, <1>5, <1>6, StepAnalyses DEF Struck
    <3>2. rows[t] = NoRow \/ BeingPlanned(t) \/ rows[t].version > 1
      BY <2>2, <3>1 DEF PlanInv, HalfMadePlanHasCause
    <3>3. CASE rows[t] = NoRow \/ rows[t].version > 1
      BY <1>2, <1>3, <2>2, <3>3 DEF RowAdvances, Row
    <3>4. CASE BeingPlanned(t)
      <4>1. PICK w \in Workers : handler[w].pc \in PlanningStages /\ handler[w].task = t
        BY <3>4 DEF BeingPlanned
      <4>2. \/ handler[w] \in struck'
            \/ handler'[w] = handler[w]
            \/ handler'[w] = Planning(t, "temp_written")
            \/ handler'[w] = Planning(t, "save_failed")
            \/ t \in plans'
            \/ rows'[t] = NoRow
            \/ rows'[t] = rows[t] /\ rows[t].status \in ProtectedStatuses
        BY <1>1, <4>1, StepPlanning
      <4>3. CASE \/ handler'[w] = handler[w]
                 \/ handler'[w] = Planning(t, "temp_written")
                 \/ handler'[w] = Planning(t, "save_failed")
        <5>1. handler'[w].pc \in PlanningStages /\ handler'[w].task = t
          BY <4>1, <4>3 DEF Planning, PlanningStages
        <5> QED
          BY <5>1 DEF BeingPlanned
      <4>4. CASE rows'[t] = rows[t] /\ rows[t].status \in ProtectedStatuses
        <5>1. rows[t].status \notin AnalysisStatuses
          BY <4>4 DEF ProtectedStatuses, AnalysisStatuses
        <5> QED
          BY <2>2, <4>4, <5>1 DEF PlanInv, UneditedStatus
      <4>5. handler[w] \notin struck'
        BY <1>1, <1>6, <4>1, PlanningType DEF Struck, CatalogInv, TypeOK
      <4> QED
        BY <4>2, <4>3, <4>4, <4>5
    <3> QED
      BY <3>2, <3>3, <3>4
  <2> QED
    BY <2>1, <2>2
<1>7. ASSUME NEW t \in temp', ~Struck(t, {"temp_written"})'
      PROVE  \E w \in Workers : handler'[w] = Planning(t, "temp_written")
  <2>1. CASE t \notin temp
    BY <1>1, <2>1, StepAnalyses
  <2>2. CASE t \in temp
    <3>1. ~Struck(t, {"temp_written"})
      BY <1>5, <1>7 DEF Struck
    <3>2. PICK w \in Workers : handler[w] = Planning(t, "temp_written")
      BY <2>2, <3>1 DEF PlanInv, HalfMadePlanHasCause
    <3>3. /\ handler[w].pc \in PlanningStages /\ handler[w].pc # "save_failed"
          /\ handler[w].task = t
      BY <3>2 DEF Planning, PlanningStages
    <3>4. handler[w] \notin struck'
      BY <1>7, <3>2 DEF Struck
    <3> QED
      BY <1>1, <1>7, <3>2, <3>3, <3>4, StepPlanning
  <2> QED
    BY <2>1, <2>2
<1>8. HalfMadePlanHasCause'
  BY <1>6, <1>7 DEF HalfMadePlanHasCause
<1> QED
  BY <1>1, <1>4, <1>8 DEF PlanInv

\* A task made from an analysis and left without its plan, or a temporary plan
\* file left behind, is explained by an edit or by a fault of the request that
\* planned it; nothing else leaves create_from_analysis half done.
THEOREM PlansAreExplained == Spec => []HalfMadePlanHasCause
<1>1. Init => PlanInv
  BY InitInv DEF Init, PlanInv, HalfMadePlanHasCause, UneditedStatus
<1>2. PlanInv => HalfMadePlanHasCause
  BY DEF PlanInv
<1> QED
  BY <1>1, <1>2, NextPlanInv, PTL DEF Spec

\* A PUT refused at its UPDATE lost to somebody: the row it read is no longer
\* there, so of two colliding edits one always goes through.
THEOREM ConflictsAreReal == Spec => ConflictMeansInterference
<1> DEFINE Interference ==
      \A w \in Workers :
        handler[w].pc = "editing" /\ Replied(w, "conflict") =>
          rows[handler[w].task] # handler[w].snapshot
<1>1. CatalogInv /\ [Next]_vars => [Interference]_vars
  <2> SUFFICES ASSUME CatalogInv, Next, NEW w \in Workers,
                      handler[w].pc = "editing", Replied(w, "conflict")
               PROVE  rows[handler[w].task] # handler[w].snapshot
    OBVIOUS
  <2>1. reply' = [worker |-> w, code |-> "conflict"]
    BY DEF Replied
  <2>2. ASSUME NEW v \in Workers, NEW code, Answer(v, code) PROVE v = w /\ code = "conflict"
    BY <2>1, <2>2 DEF Answer, Replied
  <2>3. ASSUME NEW v \in Workers, NEW next, Continue(v, next) PROVE FALSE
    BY <2>1, <2>3 DEF Continue, NoReply
  <2>4. handler[w] # Idle /\ handler[w].pc \notin {"idle", "save_failed", "inserted"}
    BY DEF Idle
  <2>5. PICK v \in Workers : Step(v)
    BY <2>1 DEF Next, Restart, NoReply
  <2>6. CASE Create(v) \/ Delete(v) \/ Compensate(v) \/ DatabaseBusy(v) \/ PublishPlan(v)
    BY <2>2, <2>4, <2>6 DEF Create, Delete, Compensate, DatabaseBusy, PublishPlan
  <2>7. CASE InsertAnalysed(v) \/ WriteTemp(v) \/ SaveFails(v)
    BY <2>3, <2>7 DEF InsertAnalysed, WriteTemp, SaveFails
  <2>8. CASE BeginUpdate(v)
    BY <2>2, <2>3, <2>4, <2>8 DEF BeginUpdate
  <2>9. CASE CommitUpdate(v)
    <3>1. handler[w].snapshot \in Row /\ handler[w].snapshot # NoRow
      BY EditingType, NoRowAssumption DEF CatalogInv, TypeOK
    <3>2. ~UpdateMatches(handler[w].task, handler[w].snapshot.version)
      BY <2>2, <2>9 DEF CommitUpdate
    <3> QED
      BY <3>1, <3>2 DEF UpdateMatches
  <2> QED
    BY <2>5, <2>6, <2>7, <2>8, <2>9 DEF Step
<1> QED
  BY <1>1, Invariance, PTL DEF Spec, ConflictMeansInterference

============================================================================
