---------------------------- MODULE CursorQueue ----------------------------
(***************************************************************************)
(* The hand-off queue of src/cursor_queue.py: one JSON file that threads   *)
(* of the dashboard (push) and runs of the command line (push, pop, done)  *)
(* read, change in memory and write back whole.  Nothing locks the file:   *)
(* every call is a load, then an open for writing, which empties the file, *)
(* then the write; other calls and a crash may come in between.            *)
(***************************************************************************)
EXTENDS Integers, FiniteSets, Sequences, SequencesExt

CONSTANTS Callers,     \* threads and processes that call the module
          Ids,         \* ids push may draw (the second and 24 random bits:
                       \* taken to be drawn once each)
          Missing,     \* the file does not exist yet
          Empty,       \* opened for writing, nothing written yet
          Garbage,     \* two texts written over each other: not JSON
          MaxPops,     \* bound on the calls of pop that return a task
          MaxCrashes   \* bound on crashes

VARIABLES file,        \* what cursor_queue.json holds
          call,        \* what each caller is in the middle of
          drawn,       \* ids given to a push so far
          pushed,      \* history: ids whose push returned, in that order
          popped,      \* history: ids pop returned, in that order
          finished,    \* history: ids whose mark_done returned True
          overlapped,  \* history: some call began while another was under way
          crashes

vars == <<file, call, drawn, pushed, popped, finished, overlapped, crashes>>

----------------------------------------------------------------------------
(* The queue as a value *)

Statuses == {"pending", "in_progress", "done"}
Entry == [id : Ids, status : Statuses]
Stats == [total : Nat, pending : Nat, done : Nat]
Queue == [tasks : Seq(Entry), stats : Stats]

\* What the file holds when it is not a queue is none, and one of three things.
ASSUME MarkersAssumption ==
  /\ {Missing, Empty, Garbage} \cap Queue = {}
  /\ Missing # Empty /\ Missing # Garbage /\ Empty # Garbage
ASSUME CrashesAssumption == MaxCrashes \in Nat

EmptyQueue == [tasks |-> <<>>, stats |-> [total |-> 0, pending |-> 0, done |-> 0]]

CountOf(tasks, status) ==
  Cardinality({i \in DOMAIN tasks : tasks[i].status = status})

IndexOf(tasks, id) == SelectInSeq(tasks, LAMBDA entry : entry.id = id)

\* Mutant of FirstPending: the newest pending task instead of the oldest.
LastPending(tasks) == SelectLastInSeq(tasks, LAMBDA entry : entry.status = "pending")

FirstPending(tasks) == SelectInSeq(tasks, LAMBDA entry : entry.status = "pending")

\* Mutant of AfterPush: insert at the front.
AfterPushFront(queue, id) ==
  LET tasks == <<[id |-> id, status |-> "pending"]>> \o queue.tasks
  IN [tasks |-> tasks,
      stats |-> [total   |-> Len(tasks),
                 pending |-> CountOf(tasks, "pending"),
                 done    |-> CountOf(tasks, "done")]]

\* push(): append, then recount everything.
AfterPush(queue, id) ==
  LET tasks == Append(queue.tasks, [id |-> id, status |-> "pending"])
  IN [tasks |-> tasks,
      stats |-> [total   |-> Len(tasks),
                 pending |-> CountOf(tasks, "pending"),
                 done    |-> CountOf(tasks, "done")]]

\* pop(): the oldest pending task is handed out; the counters are not touched.
AfterPop(queue) ==
  [queue EXCEPT !.tasks[FirstPending(queue.tasks)].status = "in_progress"]

\* Mutants of AfterDone: count down from whatever pending says, and forget to
\* count the task as done.
AfterDoneCountingDown(queue, id) ==
  [tasks |-> [queue.tasks EXCEPT ![IndexOf(queue.tasks, id)].status = "done"],
   stats |-> [queue.stats EXCEPT !.pending = @ - 1, !.done = @ + 1]]
AfterDoneUncounted(queue, id) ==
  [queue EXCEPT !.tasks[IndexOf(queue.tasks, id)].status = "done"]

\* mark_done(): from any status; total is not recounted.
AfterDone(queue, id) ==
  LET tasks == [queue.tasks EXCEPT ![IndexOf(queue.tasks, id)].status = "done"]
  IN [tasks |-> tasks,
      stats |-> [queue.stats EXCEPT !.pending = CountOf(tasks, "pending"),
                                    !.done    = CountOf(tasks, "done")]]

----------------------------------------------------------------------------
(* Calls *)

Idle == [pc |-> "idle"]
Calls ==
  {Idle} \cup [pc : {"loaded", "writing"}, op : {"push", "pop", "done"}, id : Ids,
               queue : Queue]

Readable == file \notin {Empty, Garbage}
Loaded == IF file = Missing THEN EmptyQueue ELSE file

Init ==
  /\ file = Missing
  /\ call = [c \in Callers |-> Idle]
  /\ drawn = {}
  /\ pushed = <<>>
  /\ popped = <<>>
  /\ finished = {}
  /\ overlapped = FALSE
  /\ crashes = 0

\* _load_queue and the change in memory: nobody sees the latter before the save.
Load(c, op, id, queue) ==
  /\ call[c] = Idle
  /\ Readable
  /\ call' = [call EXCEPT ![c] = [pc |-> "loaded", op |-> op, id |-> id, queue |-> queue]]
  /\ overlapped' = (overlapped \/ \E d \in Callers : call[d] # Idle)
  /\ UNCHANGED <<file, pushed, popped, finished, crashes>>

\* Mutant of Push: ids made of the time alone, so two pushes may share one.
PushSharedId(c) ==
  \E id \in Ids :
    /\ Readable
    /\ Len(Loaded.tasks) < 3
    /\ Load(c, "push", id, AfterPush(Loaded, id))
    /\ drawn' = drawn \cup {id}

\* Mutant of Push: an unreadable file is taken for an empty queue.
PushStartingOver(c) ==
  \E id \in Ids \ drawn :
    LET queue == AfterPush(IF Readable THEN Loaded ELSE EmptyQueue, id) IN
    /\ call[c] = Idle
    /\ call' = [call EXCEPT ![c] = [pc |-> "loaded", op |-> "push", id |-> id, queue |-> queue]]
    /\ overlapped' = (overlapped \/ \E d \in Callers : call[d] # Idle)
    /\ drawn' = drawn \cup {id}
    /\ UNCHANGED <<file, pushed, popped, finished, crashes>>

Push(c) ==
  \E id \in Ids \ drawn :
    /\ Load(c, "push", id, AfterPush(Loaded, id))
    /\ drawn' = drawn \cup {id}

Pop(c) ==
  LET first == FirstPending(Loaded.tasks) IN
  /\ Readable
  /\ first # 0
  /\ Len(popped) + Cardinality({d \in Callers : call[d] # Idle}) < MaxPops
  /\ Load(c, "pop", Loaded.tasks[first].id, AfterPop(Loaded))
  /\ UNCHANGED drawn

MarkDone(c) ==
  \E id \in Ids :
    /\ Readable
    /\ IndexOf(Loaded.tasks, id) # 0
    /\ Load(c, "done", id, AfterDone(Loaded, id))
    /\ UNCHANGED drawn

\* pop() on a queue with nothing pending returns None, mark_done() of an
\* unknown id returns False: neither writes.
NothingToDo(c) ==
  /\ call[c] = Idle
  /\ Readable
  /\ FirstPending(Loaded.tasks) = 0 \/ \E id \in Ids : IndexOf(Loaded.tasks, id) = 0
  /\ UNCHANGED vars

\* json.loads raises JSONDecodeError: every call fails on an unreadable file.
LoadFails(c) ==
  /\ call[c] = Idle
  /\ ~Readable
  /\ UNCHANGED vars

\* Path.write_text, first half: open(path, "w") truncates.
Truncate(c) ==
  /\ call[c].pc = "loaded"
  /\ file' = Empty
  /\ call' = [call EXCEPT ![c].pc = "writing"]
  /\ UNCHANGED <<drawn, pushed, popped, finished, overlapped, crashes>>

\* Second half: the text goes to the start of the file.  Over an emptied file
\* that is the whole text; over a text another caller has just written, what
\* is left of that one may stick out behind.
Overlaid(queue) == IF file = Empty THEN {queue} ELSE {queue, Garbage}

Write(c) ==
  /\ call[c].pc = "writing"
  /\ file' \in Overlaid(call[c].queue)
  /\ call' = [call EXCEPT ![c] = Idle]
  /\ LET op == call[c].op
         id == call[c].id
     IN /\ pushed'   = IF op = "push" THEN Append(pushed, id) ELSE pushed
        /\ popped'   = IF op = "pop" THEN Append(popped, id) ELSE popped
        /\ finished' = IF op = "done" THEN finished \cup {id} ELSE finished
  /\ UNCHANGED <<drawn, overlapped, crashes>>

\* The thread or process dies before its call returns; the file stays.
Crash(c) ==
  /\ crashes < MaxCrashes
  /\ call[c] # Idle
  /\ call' = [call EXCEPT ![c] = Idle]
  /\ crashes' = crashes + 1
  /\ UNCHANGED <<file, drawn, pushed, popped, finished, overlapped>>

Next ==
  \E c \in Callers :
    \/ Push(c) \/ Pop(c) \/ MarkDone(c) \/ NothingToDo(c) \/ LoadFails(c)
    \/ Truncate(c) \/ Write(c) \/ Crash(c)

Spec == Init /\ [][Next]_vars

----------------------------------------------------------------------------
(* Properties *)

TypeOK ==
  /\ file \in {Missing, Empty, Garbage} \/ file \in Queue
  /\ call \in [Callers -> Calls]
  /\ drawn \subseteq Ids
  /\ pushed \in Seq(Ids) /\ popped \in Seq(Ids) /\ finished \subseteq Ids
  /\ overlapped \in BOOLEAN
  /\ crashes \in 0..MaxCrashes

Queues ==
  (IF Readable /\ file # Missing THEN {file} ELSE {})
    \cup {call[c].queue : c \in {d \in Callers : call[d] # Idle}}

\* However calls interleave, a queue that can be read lists no task twice: a
\* stale copy may drop or revive a task, never duplicate one.
NoTaskListedTwice == \A queue \in Queues :
  \A i, j \in DOMAIN queue.tasks : queue.tasks[i].id = queue.tasks[j].id => i = j

\* The counters kept beside the list can be trusted this far, even under
\* races: total and done are exact, and pending, which pop leaves alone,
\* never counts too few, and too many only by tasks already handed out.
CountersBound == \A queue \in Queues :
  /\ queue.stats.total = Len(queue.tasks)
  /\ queue.stats.done = CountOf(queue.tasks, "done")
  /\ queue.stats.pending >= CountOf(queue.tasks, "pending")
  /\ queue.stats.pending <=
       CountOf(queue.tasks, "pending") + CountOf(queue.tasks, "in_progress")

\* If calls never overlapped and nobody crashed, the file between two calls is
\* the replay of the calls that returned: every push in order, each task done
\* if mark_done said so, else handed out if pop returned it, else pending.
Quiet == \A c \in Callers : call[c] = Idle
StatusByHistory(id) ==
  CASE id \in finished -> "done"
    [] id \notin finished /\ id \in ToSet(popped) -> "in_progress"
    [] OTHER -> "pending"
FileIsReplayOfCalls ==
  Quiet /\ ~overlapped /\ crashes = 0 =>
    Readable /\ Loaded.tasks =
      [i \in DOMAIN pushed |-> [id |-> pushed[i], status |-> StatusByHistory(pushed[i])]]

\* Without overlap and crash, pop hands out the oldest task that was neither
\* handed out nor finished before, so no task is handed out twice.
PopsInOrder ==
  [][~overlapped' /\ crashes = 0 /\ popped' # popped =>
       LET waiting == {i \in DOMAIN pushed :
                         pushed[i] \notin ToSet(popped) \cup finished}
       IN \E i \in waiting : /\ Last(popped') = pushed[i]
                             /\ \A j \in waiting : i <= j]_vars

\* Only a call that was under way when a push returned can make its task
\* disappear: if nobody else was at work then, no copy of the queue lacks the
\* task, on disk or in somebody's memory, and none ever will, however later
\* calls overlap and whoever dies; a file they spoil is not taken for a new queue.
NoCopyLacks(id) == file # Missing /\ \A queue \in Queues : IndexOf(queue.tasks, id) # 0
SettledTasksStay ==
  [][\A id \in ToSet(pushed') :
       (IF id \in ToSet(pushed) THEN NoCopyLacks(id) ELSE Quiet') => NoCopyLacks(id)']_vars

\* "Queued in Cursor Queue ... Run: python scripts/cursor_cli.py pop"
\* (dispatcher.py, _dispatch_cursor): between calls, a task whose push
\* returned is in the file.
QueuedTaskIsInTheFile ==
  Quiet => Readable /\ \A i \in DOMAIN pushed : IndexOf(Loaded.tasks, pushed[i]) # 0
============================================================================
