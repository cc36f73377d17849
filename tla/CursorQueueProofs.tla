------------------------- MODULE CursorQueueProofs -------------------------
(***************************************************************************)
(* Proofs about CursorQueue, for any callers and any ids: what no race and *)
(* no crash can do to the hand-off queue, that what was pushed in quiet    *)
(* stays whatever comes after it, and that calls made one after the other  *)
(* are served first in, first out.                                         *)
(***************************************************************************)
EXTENDS CursorQueue, CollectionLemmas

----------------------------------------------------------------------------
(* The inductive invariants *)

\* What holds of every copy of the queue, on disk or in memory, whose tasks
\* were given ids of a set.
Sound(queue, ids) ==
  /\ queue \in Queue
  /\ \A i \in DOMAIN queue.tasks : queue.tasks[i].id \in ids
  /\ \A i, j \in DOMAIN queue.tasks : queue.tasks[i].id = queue.tasks[j].id => i = j
  /\ queue.stats.total = Len(queue.tasks)
  /\ queue.stats.done = CountOf(queue.tasks, "done")
  /\ queue.stats.pending >= CountOf(queue.tasks, "pending")
  /\ queue.stats.pending <=
       CountOf(queue.tasks, "pending") + CountOf(queue.tasks, "in_progress")

\* Whatever overlaps and whoever dies: every copy is sound, and no id is older
\* than its push.
AnyOrderInv ==
  /\ TypeOK
  /\ file \in Queue => Sound(file, drawn)
  /\ \A c \in Callers : call[c] # Idle => /\ Sound(call[c].queue, drawn)
                                          /\ call[c].id \in drawn
  /\ ToSet(pushed) \cup ToSet(popped) \cup finished \subseteq drawn

\* The task list that a history of returned calls stands for.
StatusIn(id, handedOut, done) ==
  IF id \in done THEN "done" ELSE IF id \in handedOut THEN "in_progress" ELSE "pending"
Replay(ids, handedOut, done) ==
  [i \in DOMAIN ids |-> [id |-> ids[i], status |-> StatusIn(ids[i], handedOut, done)]]

\* What a call under way is about to write: the replay of the history with the
\* call added to it.
WritesReplay(c) ==
  LET id == call[c].id
      tasks == call[c].queue.tasks
  IN /\ call[c].op = "push" =>
          tasks = Replay(Append(pushed, id), ToSet(popped), finished)
     /\ call[c].op = "pop" =>
          tasks = Replay(pushed, ToSet(popped) \cup {id}, finished)
     /\ call[c].op = "done" =>
          tasks = Replay(pushed, ToSet(popped), finished \cup {id})

\* Who has been neither handed out nor finished, and the oldest of them.
Waiting == {i \in DOMAIN pushed : pushed[i] \notin ToSet(popped) \cup finished}
IsOldestWaiting(id) == \E i \in Waiting : id = pushed[i] /\ \A j \in Waiting : i <= j

\* One call at a time, nobody dead: at most one call is under way, it is about
\* to write the next replay over an emptied file, and between calls the file
\* is the replay.
OneAtATimeInv ==
  ~overlapped /\ crashes = 0 =>
    /\ \A c, d \in Callers : call[c] # Idle /\ call[d] # Idle => c = d
    /\ Quiet => /\ Readable
                /\ Loaded.tasks = Replay(pushed, ToSet(popped), finished)
    /\ \A c \in Callers : call[c] # Idle =>
         /\ WritesReplay(c)
         /\ call[c].op = "pop" => IsOldestWaiting(call[c].id)
         /\ call[c].pc = "writing" => file = Empty

QueueInv == AnyOrderInv /\ OneAtATimeInv

----------------------------------------------------------------------------
(* Lemmas about the operators *)

\* Changing the status of an entry leaves an entry.
LEMMA EntryChange ==
  ASSUME NEW entry \in Entry, NEW status \in Statuses
  PROVE  [entry EXCEPT !.status = status] \in Entry
  BY DEF Entry

\* A count is a natural number.
LEMMA CountType ==
  ASSUME NEW tasks \in Seq(Entry), NEW status
  PROVE  /\ IsFiniteSet({i \in DOMAIN tasks : tasks[i].status = status})
         /\ CountOf(tasks, status) \in Nat
<1>1. IsFiniteSet(1..Len(tasks))
  BY FS_Interval
<1>2. {i \in DOMAIN tasks : tasks[i].status = status} \in SUBSET (1..Len(tasks))
  OBVIOUS
<1> QED
  BY <1>1, <1>2, FS_Subset, FS_CardinalityType DEF CountOf

\* IndexOf is the first place of an id in the list, 0 when it has none.
LEMMA IndexOfFacts ==
  ASSUME NEW tasks \in Seq(Entry), NEW id
  PROVE  /\ IndexOf(tasks, id) # 0 => /\ IndexOf(tasks, id) \in DOMAIN tasks
                                      /\ tasks[IndexOf(tasks, id)].id = id
         /\ IndexOf(tasks, id) = 0 => \A i \in DOMAIN tasks : tasks[i].id # id
<1> DEFINE I == {i \in 1..Len(tasks) : tasks[i].id = id}
<1>1. IndexOf(tasks, id) = IF I # {} THEN Min(I) ELSE 0
  BY DEF IndexOf, SelectInSeq
<1>2. I # {} => Min(I) \in I
  <2>1. I \in SUBSET Nat
    OBVIOUS
  <2> HIDE DEF I
  <2> QED
    BY <2>1, MinOfNaturals
<1> QED
  BY <1>1, <1>2

\* FirstPending is the oldest pending task, 0 when there is none.
LEMMA FirstPendingFacts ==
  ASSUME NEW tasks \in Seq(Entry)
  PROVE  FirstPending(tasks) # 0 =>
           /\ FirstPending(tasks) \in DOMAIN tasks
           /\ tasks[FirstPending(tasks)].status = "pending"
           /\ \A i \in DOMAIN tasks :
                tasks[i].status = "pending" => FirstPending(tasks) <= i
<1> DEFINE I == {i \in 1..Len(tasks) : tasks[i].status = "pending"}
<1>1. FirstPending(tasks) = IF I # {} THEN Min(I) ELSE 0
  BY DEF FirstPending, SelectInSeq
<1>2. I # {} => Min(I) \in I /\ \A y \in I : Min(I) <= y
  <2>1. I \in SUBSET Nat
    OBVIOUS
  <2> HIDE DEF I
  <2> QED
    BY <2>1, MinOfNaturals
<1> QED
  BY <1>1, <1>2

\* Handing a task out takes one from the pending and gives one to the tasks in
\* progress; nothing else is counted differently.
LEMMA CountHandedOut ==
  ASSUME NEW tasks \in Seq(Entry), NEW k \in DOMAIN tasks,
         tasks[k].status = "pending"
  PROVE  LET after == [tasks EXCEPT ![k].status = "in_progress"]
         IN  /\ CountOf(after, "pending") = CountOf(tasks, "pending") - 1
             /\ CountOf(after, "in_progress") = CountOf(tasks, "in_progress") + 1
             /\ CountOf(after, "done") = CountOf(tasks, "done")
<1> DEFINE after == [tasks EXCEPT ![k].status = "in_progress"]
           At(list, status) == {i \in DOMAIN list : list[i].status = status}
<1>1. \A i \in DOMAIN tasks :
        after[i].status = IF i = k THEN "in_progress" ELSE tasks[i].status
  BY DEF Entry
<1>2. DOMAIN after = DOMAIN tasks
  OBVIOUS
<1>3. At(after, "pending") = At(tasks, "pending") \ {k}
  BY <1>1, <1>2
<1>4. At(after, "in_progress") = At(tasks, "in_progress") \cup {k}
  BY <1>1, <1>2
<1>5. At(after, "done") = At(tasks, "done")
  BY <1>1, <1>2
<1>6. /\ IsFiniteSet(At(tasks, "pending"))
      /\ IsFiniteSet(At(tasks, "in_progress"))
  BY CountType
<1>7. k \in At(tasks, "pending") /\ k \notin At(tasks, "in_progress")
  OBVIOUS
<1>8. Cardinality(At(after, "pending")) = Cardinality(At(tasks, "pending")) - 1
  BY <1>3, <1>6, <1>7, FS_RemoveElement
<1>9. Cardinality(At(after, "in_progress")) = Cardinality(At(tasks, "in_progress")) + 1
  BY <1>4, <1>6, <1>7, FS_AddElement
<1> QED
  BY <1>5, <1>8, <1>9 DEF CountOf

----------------------------------------------------------------------------
(* Sound copies stay sound *)

\* The queue of a file that does not exist yet is sound.
LEMMA EmptyQueueSound == \A ids : Sound(EmptyQueue, ids)
<1>1. \A status : CountOf(<<>>, status) = 0
  BY FS_EmptySet DEF CountOf
<1>2. EmptyQueue \in Queue
  BY DEF EmptyQueue, Queue, Stats
<1> QED
  BY <1>1, <1>2 DEF Sound, EmptyQueue

\* A copy stays sound as ids are drawn.
LEMMA SoundMonotonic ==
  ASSUME NEW queue, NEW ids, NEW more, ids \subseteq more, Sound(queue, ids)
  PROVE  Sound(queue, more)
  BY DEF Sound

\* push() of a fresh id keeps a copy sound.
LEMMA PushSound ==
  ASSUME NEW queue, NEW ids, NEW id \in Ids, id \notin ids, Sound(queue, ids)
  PROVE  Sound(AfterPush(queue, id), ids \cup {id})
<1> DEFINE entry == [id |-> id, status |-> "pending"]
           tasks == Append(queue.tasks, entry)
           after == AfterPush(queue, id)
<1>1. queue.tasks \in Seq(Entry) /\ entry \in Entry
  BY DEF Sound, Queue, Entry, Statuses
<1>2. /\ tasks \in Seq(Entry)
      /\ Len(tasks) = Len(queue.tasks) + 1
      /\ \A i \in 1..Len(queue.tasks) : tasks[i] = queue.tasks[i]
      /\ tasks[Len(queue.tasks) + 1] = entry
  BY <1>1, AppendProperties
<1>3. /\ after.tasks = tasks
      /\ after.stats.total = Len(tasks)
      /\ after.stats.pending = CountOf(tasks, "pending")
      /\ after.stats.done = CountOf(tasks, "done")
      /\ after = [tasks |-> tasks, stats |-> after.stats]
      /\ after.stats = [total |-> Len(tasks), pending |-> CountOf(tasks, "pending"),
                        done |-> CountOf(tasks, "done")]
  BY DEF AfterPush
<1>4. \A status : CountOf(tasks, status) \in Nat
  BY <1>2, CountType
<1>5. after \in Queue
  <2>1. Len(tasks) \in Nat
    BY <1>2, LenProperties
  <2>2. after.stats \in Stats
    BY <1>3, <1>4, <2>1 DEF Stats
  <2> QED
    BY <1>2, <1>3, <2>2 DEF Queue
<1>6. \A i \in DOMAIN tasks : tasks[i].id \in ids \cup {id}
  BY <1>1, <1>2 DEF Sound
<1>7. \A i, j \in DOMAIN tasks : tasks[i].id = tasks[j].id => i = j
  <2>1. \A i \in 1..Len(queue.tasks) : tasks[i].id # id
    BY <1>1, <1>2 DEF Sound
  <2>2. tasks[Len(queue.tasks) + 1].id = id
    BY <1>2
  <2>3. \A i, j \in 1..Len(queue.tasks) : tasks[i].id = tasks[j].id => i = j
    BY <1>1, <1>2 DEF Sound
  <2> QED
    BY <1>1, <1>2, <2>1, <2>2, <2>3
<1> QED
  BY <1>3, <1>4, <1>5, <1>6, <1>7 DEF Sound

\* pop() keeps a copy sound, though it leaves the counters alone.
LEMMA PopSound ==
  ASSUME NEW queue, NEW ids, Sound(queue, ids), FirstPending(queue.tasks) # 0
  PROVE  Sound(AfterPop(queue), ids)
<1> DEFINE k == FirstPending(queue.tasks)
           tasks == [queue.tasks EXCEPT ![k].status = "in_progress"]
<1>1. queue.tasks \in Seq(Entry) /\ queue.stats \in Stats
  BY DEF Sound, Queue
<1>2. k \in DOMAIN queue.tasks /\ queue.tasks[k].status = "pending"
  BY <1>1, FirstPendingFacts
<1>3. AfterPop(queue) = [queue EXCEPT !.tasks = tasks]
  BY DEF AfterPop, Sound, Queue
<1>4. /\ tasks \in Seq(Entry)
      /\ Len(tasks) = Len(queue.tasks)
      /\ \A i \in DOMAIN tasks : tasks[i].id = queue.tasks[i].id
      /\ DOMAIN tasks = DOMAIN queue.tasks
  <2>1. queue.tasks[k] \in Entry
    BY <1>1, <1>2
  <2>2. [queue.tasks[k] EXCEPT !.status = "in_progress"] \in Entry
    BY <2>1, EntryChange DEF Statuses
  <2> QED
    BY <1>1, <1>2, <2>2, ExceptSeq, LenProperties DEF Entry
<1>5. /\ CountOf(tasks, "pending") = CountOf(queue.tasks, "pending") - 1
      /\ CountOf(tasks, "in_progress") = CountOf(queue.tasks, "in_progress") + 1
      /\ CountOf(tasks, "done") = CountOf(queue.tasks, "done")
  BY <1>1, <1>2, CountHandedOut
<1>6. \A status : CountOf(queue.tasks, status) \in Nat
  BY <1>1, CountType
<1>7. /\ AfterPop(queue).tasks = tasks
      /\ AfterPop(queue).stats = queue.stats
      /\ AfterPop(queue) \in Queue
  BY <1>1, <1>3, <1>4 DEF Sound, Queue
<1>8. queue.stats.pending \in Nat
  BY <1>1 DEF Stats
<1>9. /\ queue.stats.pending >= CountOf(tasks, "pending")
      /\ queue.stats.pending <= CountOf(tasks, "pending") + CountOf(tasks, "in_progress")
  <2>1. \A before, held, after, holding, counted \in Nat :
          /\ counted >= before /\ counted <= before + held
          /\ after = before - 1 /\ holding = held + 1
          => counted >= after /\ counted <= after + holding
    OBVIOUS
  <2>2. \A status : CountOf(tasks, status) \in Nat
    BY <1>4, CountType
  <2> HIDE DEF tasks
  <2> QED
    BY <1>5, <1>6, <1>8, <2>1, <2>2 DEF Sound
<1>10. /\ \A i \in DOMAIN tasks : tasks[i].id \in ids
       /\ \A i, j \in DOMAIN tasks : tasks[i].id = tasks[j].id => i = j
  BY <1>4 DEF Sound
<1>11. queue.stats.total = Len(tasks) /\ queue.stats.done = CountOf(tasks, "done")
  BY <1>4, <1>5 DEF Sound
<1> HIDE DEF tasks
<1> QED
  BY <1>7, <1>9, <1>10, <1>11 DEF Sound

\* mark_done() keeps a copy sound.
LEMMA DoneSound ==
  ASSUME NEW queue, NEW ids, NEW id, Sound(queue, ids), IndexOf(queue.tasks, id) # 0
  PROVE  Sound(AfterDone(queue, id), ids)
<1> DEFINE k == IndexOf(queue.tasks, id)
           tasks == [queue.tasks EXCEPT ![k].status = "done"]
           after == AfterDone(queue, id)
<1>1. queue.tasks \in Seq(Entry) /\ queue.stats \in Stats
  BY DEF Sound, Queue
<1>2. k \in DOMAIN queue.tasks
  BY <1>1, IndexOfFacts
<1>3. /\ tasks \in Seq(Entry)
      /\ Len(tasks) = Len(queue.tasks)
      /\ \A i \in DOMAIN tasks : tasks[i].id = queue.tasks[i].id
      /\ DOMAIN tasks = DOMAIN queue.tasks
  <2>1. queue.tasks[k] \in Entry
    BY <1>1, <1>2
  <2>2. [queue.tasks[k] EXCEPT !.status = "done"] \in Entry
    BY <2>1, EntryChange DEF Statuses
  <2> QED
    BY <1>1, <1>2, <2>2, ExceptSeq, LenProperties DEF Entry
<1>4. \A status : CountOf(tasks, status) \in Nat
  BY <1>3, CountType
<1>5. /\ after.tasks = tasks
      /\ after.stats.total = queue.stats.total
      /\ after.stats.pending = CountOf(tasks, "pending")
      /\ after.stats.done = CountOf(tasks, "done")
      /\ after \in Queue
  BY <1>1, <1>3, <1>4 DEF AfterDone, Queue, Stats
<1> QED
  BY <1>3, <1>4, <1>5 DEF Sound

----------------------------------------------------------------------------
(* Any order, any crash *)

\* A file that can be read is a sound queue.
LEMMA LoadedSound ==
  ASSUME AnyOrderInv, Readable
  PROVE  Sound(Loaded, drawn) /\ Loaded \in Queue
  BY EmptyQueueSound DEF AnyOrderInv, TypeOK, Readable, Loaded, Sound

\* The initial states satisfy the invariants.
LEMMA InitInv == Init => QueueInv
<1> SUFFICES ASSUME Init PROVE QueueInv
  OBVIOUS
<1>1. TypeOK
  <2>1. Idle \in Calls
    BY DEF Calls
  <2>2. <<>> \in Seq(Ids) /\ 0 \in 0..MaxCrashes
    BY CrashesAssumption
  <2>3. call \in [Callers -> Calls]
    BY <2>1 DEF Init
  <2> QED
    BY <2>2, <2>3 DEF Init, TypeOK
<1>2. file \notin Queue
  BY MarkersAssumption DEF Init
<1>3. ToSet(pushed) = {} /\ ToSet(popped) = {} /\ finished = {}
  BY DEF Init, ToSet
<1>4. AnyOrderInv
  BY <1>1, <1>2, <1>3 DEF Init, AnyOrderInv
<1>5. Readable /\ Loaded.tasks = <<>>
  BY MarkersAssumption DEF Init, Readable, Loaded, EmptyQueue
<1>6. Replay(pushed, ToSet(popped), finished) = <<>>
  BY DEF Init, Replay
<1>7. OneAtATimeInv
  BY <1>5, <1>6 DEF Init, OneAtATimeInv
<1> QED
  BY <1>4, <1>7 DEF QueueInv

\* A load keeps the invariant when the copy it leaves in memory is sound.
LEMMA LoadKeepsOrder ==
  ASSUME AnyOrderInv, NEW c \in Callers, NEW op \in {"push", "pop", "done"}, NEW id \in Ids,
         NEW queue, Load(c, op, id, queue),
         drawn \subseteq drawn', drawn' \subseteq Ids, id \in drawn', Sound(queue, drawn')
  PROVE  AnyOrderInv'
<1> DEFINE under == [pc |-> "loaded", op |-> op, id |-> id, queue |-> queue]
<1>1. under \in Calls /\ under # Idle
  BY DEF Calls, Idle, Sound
<1>2. call' \in [Callers -> Calls]
  BY <1>1 DEF Load, AnyOrderInv, TypeOK
<1>3. TypeOK'
  BY <1>2 DEF Load, AnyOrderInv, TypeOK
<1>4. file \in Queue => Sound(file, drawn')
  BY SoundMonotonic DEF AnyOrderInv
<1>5. ASSUME NEW d \in Callers, call'[d] # Idle
      PROVE  Sound(call'[d].queue, drawn') /\ call'[d].id \in drawn'
  <2>1. CASE d = c
    BY <2>1 DEF Load, AnyOrderInv, TypeOK
  <2>2. CASE d # c
    BY <1>5, <2>2, SoundMonotonic DEF Load, AnyOrderInv, TypeOK
  <2> QED
    BY <2>1, <2>2
<1>6. ToSet(pushed) \cup ToSet(popped) \cup finished \subseteq drawn'
  BY DEF AnyOrderInv
<1> QED
  BY <1>3, <1>4, <1>5, <1>6 DEF Load, AnyOrderInv

\* Every step, of any caller in any order, keeps every copy sound.
LEMMA NextAnyOrder == AnyOrderInv /\ [Next]_vars => AnyOrderInv'
<1> SUFFICES ASSUME AnyOrderInv, [Next]_vars PROVE AnyOrderInv'
  OBVIOUS
<1>1. CASE UNCHANGED vars
  BY <1>1 DEF AnyOrderInv, TypeOK, vars
<1>2. ASSUME NEW c \in Callers, Push(c) PROVE AnyOrderInv'
  <2>1. PICK id \in Ids \ drawn : /\ Load(c, "push", id, AfterPush(Loaded, id))
                                  /\ drawn' = drawn \cup {id}
    BY <1>2 DEF Push
  <2>2. Sound(Loaded, drawn)
    BY <2>1, LoadedSound DEF Load
  <2>3. Sound(AfterPush(Loaded, id), drawn')
    BY <2>1, <2>2, PushSound
  <2> QED
    BY <2>1, <2>3, LoadKeepsOrder DEF AnyOrderInv, TypeOK
<1>3. ASSUME NEW c \in Callers, Pop(c) PROVE AnyOrderInv'
  <2> DEFINE first == FirstPending(Loaded.tasks)
             id == Loaded.tasks[first].id
  <2>1. Readable /\ first # 0 /\ Load(c, "pop", id, AfterPop(Loaded)) /\ drawn' = drawn
    BY <1>3 DEF Pop
  <2>2. Sound(Loaded, drawn)
    BY <2>1, LoadedSound
  <2>3. Sound(AfterPop(Loaded), drawn')
    BY <2>1, <2>2, PopSound
  <2>4. id \in drawn /\ drawn \subseteq Ids
    BY <2>1, <2>2, FirstPendingFacts DEF Sound, Queue, AnyOrderInv, TypeOK
  <2> QED
    BY <2>1, <2>3, <2>4, LoadKeepsOrder
<1>4. ASSUME NEW c \in Callers, MarkDone(c) PROVE AnyOrderInv'
  <2>1. PICK id \in Ids : /\ Readable
                          /\ IndexOf(Loaded.tasks, id) # 0
                          /\ Load(c, "done", id, AfterDone(Loaded, id))
                          /\ drawn' = drawn
    BY <1>4 DEF MarkDone
  <2>2. Sound(Loaded, drawn)
    BY <2>1, LoadedSound
  <2>3. Sound(AfterDone(Loaded, id), drawn')
    BY <2>1, <2>2, DoneSound
  <2>4. id \in drawn /\ drawn \subseteq Ids
    BY <2>1, <2>2, IndexOfFacts DEF Sound, Queue, AnyOrderInv, TypeOK
  <2> QED
    BY <2>1, <2>3, <2>4, LoadKeepsOrder
<1>5. ASSUME NEW c \in Callers, Truncate(c) PROVE AnyOrderInv'
  <2>1. call[c] # Idle
    BY <1>5 DEF Truncate, Idle
  <2>2. /\ call[c] \in [pc : {"loaded", "writing"}, op : {"push", "pop", "done"}, id : Ids,
                        queue : Queue]
        /\ call' = [call EXCEPT ![c].pc = "writing"]
    BY <1>5, <2>1 DEF Truncate, AnyOrderInv, TypeOK, Calls
  <2>3. /\ call'[c] = [pc |-> "writing", op |-> call[c].op, id |-> call[c].id,
                       queue |-> call[c].queue]
        /\ \A d \in Callers : d # c => call'[d] = call[d]
        /\ call' \in [Callers -> Calls]
    BY <2>2 DEF AnyOrderInv, TypeOK, Calls
  <2>4. TypeOK'
    BY <1>5, <2>3 DEF Truncate, AnyOrderInv, TypeOK
  <2>5. file' \notin Queue
    BY <1>5, MarkersAssumption DEF Truncate
  <2>6. \A d \in Callers : call'[d] # Idle => /\ Sound(call'[d].queue, drawn)
                                              /\ call'[d].id \in drawn
    BY <2>1, <2>3 DEF AnyOrderInv
  <2> QED
    BY <1>5, <2>4, <2>5, <2>6 DEF Truncate, AnyOrderInv
<1>6. ASSUME NEW c \in Callers, Write(c) PROVE AnyOrderInv'
  <2>1. call[c] # Idle
    BY <1>6 DEF Write, Idle
  <2>2. /\ Sound(call[c].queue, drawn) /\ call[c].id \in drawn
        /\ call[c].id \in Ids /\ call[c].queue \in Queue
    BY <2>1 DEF AnyOrderInv, TypeOK, Sound
  <2>3. /\ \A d \in Callers : call'[d] # Idle => d # c /\ call'[d] = call[d]
        /\ call' \in [Callers -> Calls]
    BY <1>6 DEF Write, AnyOrderInv, TypeOK, Calls
  <2>4. file' = call[c].queue \/ file' = Garbage
    BY <1>6 DEF Write, Overlaid
  <2>5. /\ pushed' \in Seq(Ids) /\ ToSet(pushed') \subseteq drawn
        /\ popped' \in Seq(Ids) /\ ToSet(popped') \subseteq drawn
        /\ finished' \subseteq drawn
    BY <1>6, <2>2, ToSetOfAppend, AppendProperties DEF Write, AnyOrderInv, TypeOK
  <2>6. TypeOK'
    BY <1>6, <2>2, <2>3, <2>4, <2>5 DEF Write, AnyOrderInv, TypeOK
  <2>7. file' \in Queue => Sound(file', drawn)
    BY <2>2, <2>4, MarkersAssumption
  <2>8. \A d \in Callers : call'[d] # Idle => /\ Sound(call'[d].queue, drawn)
                                              /\ call'[d].id \in drawn
    BY <2>3 DEF AnyOrderInv
  <2> QED
    BY <1>6, <2>5, <2>6, <2>7, <2>8 DEF Write, AnyOrderInv
<1>7. ASSUME NEW c \in Callers, Crash(c) PROVE AnyOrderInv'
  <2>1. /\ \A d \in Callers : call'[d] # Idle => d # c /\ call'[d] = call[d]
        /\ call' \in [Callers -> Calls]
    BY <1>7 DEF Crash, AnyOrderInv, TypeOK, Calls
  <2>2. crashes' \in 0..MaxCrashes
    BY <1>7, CrashesAssumption DEF Crash, AnyOrderInv, TypeOK
  <2>3. TypeOK'
    BY <1>7, <2>1, <2>2 DEF Crash, AnyOrderInv, TypeOK
  <2> QED
    BY <1>7, <2>1, <2>3 DEF Crash, AnyOrderInv
<1> QED
  BY <1>1, <1>2, <1>3, <1>4, <1>5, <1>6, <1>7 DEF Next, NothingToDo, LoadFails

----------------------------------------------------------------------------
(* One call at a time *)

\* A replay has a task for every push, and they are entries.
LEMMA ReplayType ==
  ASSUME NEW ids \in Seq(Ids), NEW handedOut, NEW done
  PROVE  /\ Replay(ids, handedOut, done) \in Seq(Entry)
         /\ DOMAIN Replay(ids, handedOut, done) = 1..Len(ids)
         /\ Len(Replay(ids, handedOut, done)) = Len(ids)
         /\ \A i \in 1..Len(ids) :
              Replay(ids, handedOut, done)[i] =
                [id |-> ids[i], status |-> StatusIn(ids[i], handedOut, done)]
<1>1. \A id : StatusIn(id, handedOut, done) \in Statuses
  BY DEF StatusIn, Statuses
<1>2. Len(ids) \in Nat /\ DOMAIN ids = 1..Len(ids)
  BY LenProperties
<1>3. \A i \in 1..Len(ids) :
        [id |-> ids[i], status |-> StatusIn(ids[i], handedOut, done)] \in Entry
  BY <1>1, <1>2 DEF Entry
<1> QED
  BY <1>2, <1>3 DEF Replay

\* A push adds its task, pending, at the end of the replay.
LEMMA ReplayOfPush ==
  ASSUME NEW ids \in Seq(Ids), NEW handedOut, NEW done,
         NEW id \in Ids, id \notin handedOut \cup done
  PROVE  Replay(Append(ids, id), handedOut, done) =
           Append(Replay(ids, handedOut, done), [id |-> id, status |-> "pending"])
<1> DEFINE longer == Append(ids, id)
           before == Replay(ids, handedOut, done)
           after == Replay(longer, handedOut, done)
           entry == [id |-> id, status |-> "pending"]
<1>1. /\ longer \in Seq(Ids)
      /\ Len(longer) = Len(ids) + 1
      /\ \A i \in 1..Len(ids) : longer[i] = ids[i]
      /\ longer[Len(ids) + 1] = id
      /\ Len(ids) \in Nat
  BY AppendProperties, LenProperties
<1>2. /\ before \in Seq(Entry) /\ Len(before) = Len(ids)
      /\ \A i \in 1..Len(ids) :
           before[i] = [id |-> ids[i], status |-> StatusIn(ids[i], handedOut, done)]
  BY ReplayType
<1>3. /\ after \in Seq(Entry) /\ Len(after) = Len(ids) + 1
      /\ \A i \in 1..(Len(ids) + 1) :
           after[i] = [id |-> longer[i], status |-> StatusIn(longer[i], handedOut, done)]
  <2> HIDE DEF longer, before
  <2> QED
    BY <1>1, ReplayType
<1>4. entry \in Entry
  BY DEF Entry, Statuses
<1>5. StatusIn(id, handedOut, done) = "pending"
  BY DEF StatusIn
<1> HIDE DEF longer, before, after
<1>6. after[Len(ids) + 1] = entry
  BY <1>1, <1>3, <1>5
<1>7. \A i \in 1..Len(ids) : after[i] = before[i]
  BY <1>1, <1>2, <1>3
<1> HIDE DEF entry
<1>8. /\ Append(before, entry) \in Seq(Entry)
      /\ Len(Append(before, entry)) = Len(ids) + 1
      /\ \A i \in 1..Len(ids) : Append(before, entry)[i] = before[i]
      /\ Append(before, entry)[Len(ids) + 1] = entry
  BY <1>2, <1>4, AppendProperties
<1>9. \A i \in 1..(Len(ids) + 1) : after[i] = Append(before, entry)[i]
  BY <1>1, <1>6, <1>7, <1>8
<1>10. after = Append(before, entry)
  BY <1>3, <1>8, <1>9, SeqEqual
<1> QED
  BY <1>10 DEF longer, before, after, entry

\* The list with the status of one task changed.
WithStatus(tasks, k, status) == [tasks EXCEPT ![k].status = status]

\* Handing out a pending task is the replay with its id handed out.
LEMMA ReplayOfPop ==
  ASSUME NEW ids \in Seq(Ids), NEW handedOut, NEW done, NEW k \in DOMAIN ids,
         StatusIn(ids[k], handedOut, done) = "pending",
         \A i, j \in DOMAIN ids : ids[i] = ids[j] => i = j
  PROVE  WithStatus(Replay(ids, handedOut, done), k, "in_progress") =
           Replay(ids, handedOut \cup {ids[k]}, done)
<1>1. \A i \in DOMAIN ids :
        StatusIn(ids[i], handedOut \cup {ids[k]}, done) =
          IF i = k THEN "in_progress" ELSE StatusIn(ids[i], handedOut, done)
  BY DEF StatusIn
<1> DEFINE entry(i) == [id |-> ids[i], status |-> StatusIn(ids[i], handedOut, done)]
<1>2. [entry(k) EXCEPT !.status = "in_progress"] = [id |-> ids[k], status |-> "in_progress"]
  OBVIOUS
<1> QED
  BY <1>1, <1>2 DEF Replay, WithStatus

\* Finishing a task is the replay with its id finished.
LEMMA ReplayOfDone ==
  ASSUME NEW ids \in Seq(Ids), NEW handedOut, NEW done, NEW k \in DOMAIN ids,
         \A i, j \in DOMAIN ids : ids[i] = ids[j] => i = j
  PROVE  WithStatus(Replay(ids, handedOut, done), k, "done") =
           Replay(ids, handedOut, done \cup {ids[k]})
<1>1. \A i \in DOMAIN ids :
        StatusIn(ids[i], handedOut, done \cup {ids[k]}) =
          IF i = k THEN "done" ELSE StatusIn(ids[i], handedOut, done)
  BY DEF StatusIn
<1> DEFINE entry(i) == [id |-> ids[i], status |-> StatusIn(ids[i], handedOut, done)]
<1>2. [entry(k) EXCEPT !.status = "done"] = [id |-> ids[k], status |-> "done"]
  OBVIOUS
<1> QED
  BY <1>1, <1>2 DEF Replay, WithStatus

\* A load by the only caller keeps the invariant when it is about to write the
\* next replay.
LEMMA LoadKeepsReplay ==
  ASSUME QueueInv, NEW c \in Callers, NEW op, NEW id, NEW queue,
         Load(c, op, id, queue), ~overlapped', crashes' = 0,
         op = "push" => queue.tasks = Replay(Append(pushed, id), ToSet(popped), finished),
         op = "pop" => queue.tasks = Replay(pushed, ToSet(popped) \cup {id}, finished),
         op = "done" => queue.tasks = Replay(pushed, ToSet(popped), finished \cup {id}),
         op = "pop" => IsOldestWaiting(id)
  PROVE  OneAtATimeInv'
<1> DEFINE under == [pc |-> "loaded", op |-> op, id |-> id, queue |-> queue]
<1>1. /\ call' = [call EXCEPT ![c] = under]
      /\ \A d \in Callers : call[d] = Idle
      /\ UNCHANGED <<file, pushed, popped, finished>>
  BY DEF Load
<1>2. call'[c] = under /\ \A d \in Callers : d # c => call'[d] = Idle
  BY <1>1 DEF QueueInv, AnyOrderInv, TypeOK
<1>3. under # Idle
  BY DEF Idle
<1>4. ~Quiet'
  BY <1>2, <1>3 DEF Quiet
<1>5. WritesReplay(c)'
  BY <1>1, <1>2 DEF WritesReplay
<1>6. op = "pop" => IsOldestWaiting(id)'
  BY <1>1 DEF IsOldestWaiting, Waiting
<1> QED
  BY <1>2, <1>4, <1>5, <1>6 DEF OneAtATimeInv

\* What the file says between calls when nothing overlapped.
LEMMA QuietFile ==
  ASSUME QueueInv, NEW c \in Callers, NEW op, NEW id, NEW queue,
         Load(c, op, id, queue), ~overlapped', crashes' = 0
  PROVE  /\ Loaded.tasks = Replay(pushed, ToSet(popped), finished)
         /\ DOMAIN Loaded.tasks = DOMAIN pushed
         /\ \A i \in DOMAIN pushed :
              /\ Loaded.tasks[i].id = pushed[i]
              /\ Loaded.tasks[i].status = StatusIn(pushed[i], ToSet(popped), finished)
         /\ \A i, j \in DOMAIN pushed : pushed[i] = pushed[j] => i = j
         /\ Sound(Loaded, drawn) /\ Loaded.tasks \in Seq(Entry)
<1>1. ~overlapped /\ crashes = 0 /\ Quiet /\ Readable
  BY DEF Load, Quiet
<1>2. Loaded.tasks = Replay(pushed, ToSet(popped), finished)
  BY <1>1 DEF QueueInv, OneAtATimeInv
<1>3. Sound(Loaded, drawn) /\ Loaded.tasks \in Seq(Entry)
  BY <1>1, LoadedSound DEF QueueInv, Sound, Queue
<1> QED
  BY <1>2, <1>3 DEF Replay, Sound

\* Every step by the only caller keeps the file, or what is about to be written
\* into it, the replay of the calls.
LEMMA NextOneAtATime == QueueInv /\ [Next]_vars => OneAtATimeInv'
<1> SUFFICES ASSUME QueueInv, [Next]_vars PROVE OneAtATimeInv'
  OBVIOUS
<1>1. CASE UNCHANGED vars
  BY <1>1 DEF QueueInv, OneAtATimeInv, Quiet, Readable, Loaded, WritesReplay,
              IsOldestWaiting, Waiting, vars
<1> SUFFICES ASSUME ~overlapped', crashes' = 0, Next PROVE OneAtATimeInv'
  BY <1>1 DEF OneAtATimeInv
<1>2. ASSUME NEW c \in Callers, Push(c) PROVE OneAtATimeInv'
  <2>1. PICK id \in Ids \ drawn : Load(c, "push", id, AfterPush(Loaded, id))
    BY <1>2 DEF Push
  <2>2. Loaded.tasks = Replay(pushed, ToSet(popped), finished)
    BY <2>1, QuietFile
  <2>3. pushed \in Seq(Ids) /\ id \notin ToSet(popped) \cup finished
    BY DEF QueueInv, AnyOrderInv, TypeOK
  <2>4. AfterPush(Loaded, id).tasks = Append(Loaded.tasks, [id |-> id, status |-> "pending"])
    BY DEF AfterPush
  <2>5. AfterPush(Loaded, id).tasks = Replay(Append(pushed, id), ToSet(popped), finished)
    BY <2>2, <2>3, <2>4, ReplayOfPush
  <2> DEFINE after == AfterPush(Loaded, id)
  <2> HIDE DEF after
  <2>6. /\ Load(c, "push", id, after)
        /\ after.tasks = Replay(Append(pushed, id), ToSet(popped), finished)
    BY <2>1, <2>5 DEF after
  <2> QED
    BY <2>6, LoadKeepsReplay
<1>3. ASSUME NEW c \in Callers, Pop(c) PROVE OneAtATimeInv'
  <2> DEFINE first == FirstPending(Loaded.tasks)
             id == Loaded.tasks[first].id
  <2>1. first # 0 /\ Load(c, "pop", id, AfterPop(Loaded))
    BY <1>3 DEF Pop
  <2>2. /\ Loaded.tasks = Replay(pushed, ToSet(popped), finished)
        /\ DOMAIN Loaded.tasks = DOMAIN pushed
        /\ \A i \in DOMAIN pushed :
             /\ Loaded.tasks[i].id = pushed[i]
             /\ Loaded.tasks[i].status = StatusIn(pushed[i], ToSet(popped), finished)
        /\ \A i, j \in DOMAIN pushed : pushed[i] = pushed[j] => i = j
        /\ Sound(Loaded, drawn) /\ Loaded.tasks \in Seq(Entry)
    <3> HIDE DEF id, first
    <3> QED
      BY <2>1, QuietFile
  <2>3. /\ first \in DOMAIN pushed
        /\ StatusIn(pushed[first], ToSet(popped), finished) = "pending"
        /\ \A i \in DOMAIN pushed :
             StatusIn(pushed[i], ToSet(popped), finished) = "pending" => first <= i
    BY <2>1, <2>2, FirstPendingFacts
  <2>4. id = pushed[first]
    BY <2>2, <2>3
  <2>5. AfterPop(Loaded).tasks = [Loaded.tasks EXCEPT ![first].status = "in_progress"]
    BY <2>2 DEF AfterPop, Sound, Queue
  <2>6. pushed \in Seq(Ids)
    BY DEF QueueInv, AnyOrderInv, TypeOK
  <2> HIDE DEF first, id
  <2>7. AfterPop(Loaded).tasks = Replay(pushed, ToSet(popped) \cup {id}, finished)
    <3>1. WithStatus(Replay(pushed, ToSet(popped), finished), first, "in_progress") =
            Replay(pushed, ToSet(popped) \cup {pushed[first]}, finished)
      BY <2>2, <2>3, <2>6, ReplayOfPop
    <3> QED
      BY <2>2, <2>4, <2>5, <3>1 DEF WithStatus
  <2>8. \A i \in DOMAIN pushed :
          i \in Waiting <=> StatusIn(pushed[i], ToSet(popped), finished) = "pending"
    BY DEF Waiting, StatusIn
  <2>9. IsOldestWaiting(id)
    BY <2>3, <2>4, <2>8 DEF IsOldestWaiting, Waiting
  <2> QED
    BY <2>1, <2>7, <2>9, LoadKeepsReplay
<1>4. ASSUME NEW c \in Callers, MarkDone(c) PROVE OneAtATimeInv'
  <2>1. PICK id \in Ids : /\ IndexOf(Loaded.tasks, id) # 0
                          /\ Load(c, "done", id, AfterDone(Loaded, id))
    BY <1>4 DEF MarkDone
  <2> DEFINE k == IndexOf(Loaded.tasks, id)
  <2>2. /\ Loaded.tasks = Replay(pushed, ToSet(popped), finished)
        /\ DOMAIN Loaded.tasks = DOMAIN pushed
        /\ \A i \in DOMAIN pushed : Loaded.tasks[i].id = pushed[i]
        /\ \A i, j \in DOMAIN pushed : pushed[i] = pushed[j] => i = j
        /\ Loaded.tasks \in Seq(Entry)
    BY <2>1, QuietFile
  <2>3. k \in DOMAIN pushed /\ pushed[k] = id
    BY <2>1, <2>2, IndexOfFacts
  <2>4. AfterDone(Loaded, id).tasks = [Loaded.tasks EXCEPT ![k].status = "done"]
    BY DEF AfterDone
  <2>5. pushed \in Seq(Ids)
    BY DEF QueueInv, AnyOrderInv, TypeOK
  <2> HIDE DEF k
  <2>6. AfterDone(Loaded, id).tasks = Replay(pushed, ToSet(popped), finished \cup {id})
    <3>1. WithStatus(Replay(pushed, ToSet(popped), finished), k, "done") =
            Replay(pushed, ToSet(popped), finished \cup {pushed[k]})
      BY <2>2, <2>3, <2>5, ReplayOfDone
    <3> QED
      BY <2>2, <2>3, <2>4, <3>1 DEF WithStatus
  <2> DEFINE after == AfterDone(Loaded, id)
  <2> HIDE DEF after
  <2>7. /\ Load(c, "done", id, after)
        /\ after.tasks = Replay(pushed, ToSet(popped), finished \cup {id})
    BY <2>1, <2>6 DEF after
  <2> QED
    BY <2>7, LoadKeepsReplay
<1>5. ASSUME NEW c \in Callers, Truncate(c) PROVE OneAtATimeInv'
  <2>1. call[c] # Idle
    BY <1>5 DEF Truncate, Idle
  <2>2. /\ call[c] \in [pc : {"loaded", "writing"}, op : {"push", "pop", "done"}, id : Ids,
                        queue : Queue]
        /\ call' = [call EXCEPT ![c].pc = "writing"]
    BY <1>5, <2>1 DEF Truncate, QueueInv, AnyOrderInv, TypeOK, Calls
  <2>3. /\ call'[c] = [pc |-> "writing", op |-> call[c].op, id |-> call[c].id,
                       queue |-> call[c].queue]
        /\ \A d \in Callers : d # c => call'[d] = call[d]
    BY <2>2 DEF QueueInv, AnyOrderInv, TypeOK
  <2>4. /\ \A d \in Callers : call[d] # Idle => d = c
        /\ WritesReplay(c)
        /\ call[c].op = "pop" => IsOldestWaiting(call[c].id)
    BY <1>5, <2>1 DEF Truncate, QueueInv, OneAtATimeInv
  <2>5. call'[c] # Idle
    BY <2>3 DEF Idle
  <2>6. \A d \in Callers : call'[d] # Idle => d = c
    BY <2>3, <2>4
  <2>7. ~Quiet'
    BY <2>5 DEF Quiet
  <2>8. /\ WritesReplay(c)'
        /\ call'[c].op = "pop" => IsOldestWaiting(call[c].id)'
        /\ call'[c].id = call[c].id
    BY <1>5, <2>3, <2>4 DEF Truncate, WritesReplay, IsOldestWaiting, Waiting
  <2>9. file' = Empty
    BY <1>5 DEF Truncate
  <2> QED
    BY <2>6, <2>7, <2>8, <2>9 DEF OneAtATimeInv
<1>6. ASSUME NEW c \in Callers, Write(c) PROVE OneAtATimeInv'
  <2>1. call[c] # Idle
    BY <1>6 DEF Write, Idle
  <2>2. /\ \A d \in Callers : call[d] # Idle => d = c
        /\ WritesReplay(c)
        /\ file = Empty
    BY <1>6, <2>1 DEF Write, QueueInv, OneAtATimeInv
  <2>3. \A d \in Callers : call'[d] = Idle
    BY <1>6, <2>2 DEF Write, QueueInv, AnyOrderInv, TypeOK
  <2>4. file' = call[c].queue /\ call[c].queue \in Queue
    BY <1>6, <2>1, <2>2 DEF Write, Overlaid, QueueInv, AnyOrderInv, Sound
  <2>5. Readable' /\ Loaded' = call[c].queue
    BY <2>4, MarkersAssumption DEF Readable, Loaded
  <2>6. /\ call[c].op \in {"push", "pop", "done"} /\ call[c].id \in Ids
        /\ popped \in Seq(Ids)
    BY <2>1 DEF QueueInv, AnyOrderInv, TypeOK, Calls
  <2>7. call[c].queue.tasks = Replay(pushed', ToSet(popped'), finished')
    <3>1. CASE call[c].op = "push"
      BY <1>6, <2>2, <3>1 DEF Write, WritesReplay
    <3>2. CASE call[c].op = "pop"
      <4>1. /\ pushed' = pushed /\ finished' = finished
            /\ popped' = Append(popped, call[c].id)
        BY <1>6, <3>2 DEF Write
      <4>2. ToSet(popped') = ToSet(popped) \cup {call[c].id}
        BY <2>6, <4>1, ToSetOfAppend
      <4> QED
        BY <2>2, <3>2, <4>1, <4>2 DEF WritesReplay
    <3>3. CASE call[c].op = "done"
      BY <1>6, <2>2, <3>3 DEF Write, WritesReplay
    <3> QED
      BY <2>6, <3>1, <3>2, <3>3
  <2> QED
    BY <2>3, <2>5, <2>7 DEF OneAtATimeInv
<1>7. ASSUME NEW c \in Callers, Crash(c) PROVE OneAtATimeInv'
  <2>1. crashes' # 0
    BY <1>7 DEF Crash, QueueInv, AnyOrderInv, TypeOK
  <2> QED
    BY <2>1
<1> QED
  BY <1>1, <1>2, <1>3, <1>4, <1>5, <1>6, <1>7 DEF Next, NothingToDo, LoadFails

\* The invariants hold in every reachable state.
THEOREM QueueInvariant == Spec => []QueueInv
<1>1. QueueInv /\ [Next]_vars => QueueInv'
  BY NextAnyOrder, NextOneAtATime DEF QueueInv
<1> QED
  BY <1>1, InitInv, PTL DEF Spec

----------------------------------------------------------------------------
(* The properties *)

\* The variables keep their types; in particular the list and the counters of
\* every copy stay a list of entries and natural numbers.
THEOREM TypeCorrect == Spec => []TypeOK
<1>1. QueueInv => TypeOK
  BY DEF QueueInv, AnyOrderInv
<1> QED
  BY <1>1, QueueInvariant, PTL

\* A copy of the queue is one that was seen to be sound.
LEMMA QueuesSound == QueueInv => \A queue \in Queues : Sound(queue, drawn)
  BY DEF QueueInv, AnyOrderInv, TypeOK, Queues, Readable

\* Whatever the callers' order and whoever crashes, no readable copy of the
\* queue lists a task twice.
THEOREM NeverListedTwice == Spec => []NoTaskListedTwice
<1>1. QueueInv => NoTaskListedTwice
  BY QueuesSound DEF NoTaskListedTwice, Sound
<1> QED
  BY <1>1, QueueInvariant, PTL

\* The counters kept beside the list of cursor_queue.json: total and done are
\* exact, pending is never too low and never too high by more than the tasks
\* handed out, in spite of races and crashes.
THEOREM CountersTrusted == Spec => []CountersBound
<1>1. QueueInv => CountersBound
  BY QueuesSound DEF CountersBound, Sound
<1> QED
  BY <1>1, QueueInvariant, PTL

\* Calls made one after the other, by any number of callers, leave the file the
\* replay of what they returned.
THEOREM SequentialReplay == Spec => []FileIsReplayOfCalls
<1>1. \A id : StatusByHistory(id) = StatusIn(id, ToSet(popped), finished)
  BY DEF StatusByHistory, StatusIn
<1>2. QueueInv => FileIsReplayOfCalls
  BY <1>1 DEF QueueInv, OneAtATimeInv, FileIsReplayOfCalls, Replay
<1> QED
  BY <1>1, <1>2, QueueInvariant, PTL

\* Calls made one after the other are served first in, first out: the id a pop
\* returns is that of the oldest task nobody was given or finished.
THEOREM FirstInFirstOut == Spec => PopsInOrder
<1> DEFINE InOrder ==
      ~overlapped' /\ crashes = 0 /\ popped' # popped =>
        LET waiting == {i \in DOMAIN pushed : pushed[i] \notin ToSet(popped) \cup finished}
        IN \E i \in waiting : /\ Last(popped') = pushed[i]
                              /\ \A j \in waiting : i <= j
<1>1. QueueInv /\ [Next]_vars => [InOrder]_vars
  <2> SUFFICES ASSUME QueueInv, Next, ~overlapped', crashes = 0, popped' # popped
               PROVE  \E i \in Waiting : /\ Last(popped') = pushed[i]
                                         /\ \A j \in Waiting : i <= j
    BY DEF Waiting
  <2>1. PICK c \in Callers : Write(c)
    BY DEF Next, Push, Pop, MarkDone, NothingToDo, LoadFails, Truncate, Crash, Load, vars
  <2>2. ~overlapped /\ call[c] # Idle
    BY <2>1 DEF Write, Idle
  <2>3. call[c].op = "pop" /\ popped' = Append(popped, call[c].id)
    BY <2>1 DEF Write
  <2>4. IsOldestWaiting(call[c].id)
    BY <2>2, <2>3 DEF QueueInv, OneAtATimeInv
  <2>5. popped \in Seq(Ids) /\ call[c].id \in Ids
    BY <2>2 DEF QueueInv, AnyOrderInv, TypeOK
  <2>6. Last(popped') = call[c].id
    BY <2>3, <2>5, AppendProperties DEF Last
  <2> QED
    BY <2>4, <2>6 DEF IsOldestWaiting
<1> QED
  BY <1>1, QueueInvariant, PTL DEF Spec, PopsInOrder

----------------------------------------------------------------------------
(* Nothing settled is lost *)

\* A list has a task, and so has every copy of the queue that can be read.
Lists(queue, id) == \E i \in DOMAIN queue.tasks : queue.tasks[i].id = id
EveryCopyLists(id) ==
  /\ file # Missing
  /\ file \in Queue => Lists(file, id)
  /\ \A c \in Callers : call[c] # Idle => Lists(call[c].queue, id)

\* A push under way carries the task it brings.
PushCarriesItsTask ==
  \A c \in Callers :
    call[c] # Idle /\ call[c].op = "push" => Lists(call[c].queue, call[c].id)

\* push() adds a task and keeps the others; pop() and mark_done() keep all.
LEMMA ChangesKeep ==
  ASSUME NEW queue \in Queue, NEW id \in Ids
  PROVE  /\ Lists(AfterPush(queue, id), id)
         /\ \A old : Lists(queue, old) => Lists(AfterPush(queue, id), old)
         /\ FirstPending(queue.tasks) # 0 =>
              \A old : Lists(queue, old) => Lists(AfterPop(queue), old)
         /\ IndexOf(queue.tasks, id) # 0 =>
              \A old : Lists(queue, old) => Lists(AfterDone(queue, id), old)
<1>1. queue.tasks \in Seq(Entry)
  BY DEF Queue
<1>2. /\ Lists(AfterPush(queue, id), id)
      /\ \A old : Lists(queue, old) => Lists(AfterPush(queue, id), old)
  <2> DEFINE entry == [id |-> id, status |-> "pending"]
             tasks == Append(queue.tasks, entry)
             last == Len(queue.tasks) + 1
  <2>1. AfterPush(queue, id).tasks = tasks
    BY DEF AfterPush
  <2>2. entry \in Entry /\ entry.id = id
    BY DEF Entry, Statuses
  <2>3. /\ DOMAIN queue.tasks = 1..Len(queue.tasks)
        /\ Len(queue.tasks) \in Nat
        /\ DOMAIN tasks = 1..last
        /\ \A i \in 1..Len(queue.tasks) : tasks[i] = queue.tasks[i]
        /\ tasks[last] = entry
    BY <1>1, <2>2, AppendProperties, LenProperties
  <2> HIDE DEF tasks, entry
  <2>4. last \in DOMAIN tasks /\ \A i \in DOMAIN queue.tasks : i \in DOMAIN tasks
    BY <2>3
  <2> QED
    BY <2>1, <2>2, <2>3, <2>4 DEF Lists
<1>3. ASSUME NEW k \in DOMAIN queue.tasks, NEW status \in Statuses, NEW after,
             after.tasks = [queue.tasks EXCEPT ![k].status = status]
      PROVE  \A old : Lists(queue, old) => Lists(after, old)
  <2>1. queue.tasks[k] \in Entry
    BY <1>1
  <2>2. \A i \in DOMAIN queue.tasks : after.tasks[i].id = queue.tasks[i].id
    BY <1>1, <1>3, <2>1 DEF Entry
  <2>3. DOMAIN after.tasks = DOMAIN queue.tasks
    BY <1>3
  <2> QED
    BY <2>2, <2>3 DEF Lists
<1>4. FirstPending(queue.tasks) # 0 =>
        /\ FirstPending(queue.tasks) \in DOMAIN queue.tasks
        /\ AfterPop(queue).tasks =
             [queue.tasks EXCEPT ![FirstPending(queue.tasks)].status = "in_progress"]
  BY <1>1, FirstPendingFacts DEF AfterPop, Queue
<1>5. IndexOf(queue.tasks, id) # 0 =>
        /\ IndexOf(queue.tasks, id) \in DOMAIN queue.tasks
        /\ AfterDone(queue, id).tasks =
             [queue.tasks EXCEPT ![IndexOf(queue.tasks, id)].status = "done"]
  BY <1>1, IndexOfFacts DEF AfterDone
<1> QED
  BY <1>2, <1>3, <1>4, <1>5 DEF Statuses

\* To be found by its id is to be listed.
LEMMA NoCopyLacksMeans ==
  AnyOrderInv => \A key : NoCopyLacks(key) <=> EveryCopyLists(key)
<1> SUFFICES ASSUME AnyOrderInv, NEW id
             PROVE  NoCopyLacks(id) <=> EveryCopyLists(id)
  OBVIOUS
<1>1. \A queue \in Queues : queue \in Queue
  BY DEF AnyOrderInv, TypeOK, Queues, Readable, Sound
<1>2. \A queue \in Queue : IndexOf(queue.tasks, id) # 0 <=> Lists(queue, id)
  BY IndexOfFacts DEF Lists, Queue
<1>3. \A queue : queue \in Queues <=> \/ file \in Queue /\ queue = file
                                      \/ \E c \in Callers : call[c] # Idle /\ queue = call[c].queue
  BY MarkersAssumption DEF AnyOrderInv, TypeOK, Queues, Readable
<1> QED
  BY <1>1, <1>2, <1>3 DEF NoCopyLacks, EveryCopyLists

\* A call that loads the queue keeps, in memory, every task each copy lists.
LEMMA LoadKeepsListed ==
  ASSUME AnyOrderInv, NEW c \in Callers, NEW op \in {"push", "pop", "done"}, NEW key \in Ids,
         NEW queue, Load(c, op, key, queue),
         \A id : Lists(Loaded, id) => Lists(queue, id),
         op = "push" => Lists(queue, key)
  PROVE  /\ PushCarriesItsTask => PushCarriesItsTask'
         /\ \A id : EveryCopyLists(id) => EveryCopyLists(id)'
<1>1. /\ call'[c] = [pc |-> "loaded", op |-> op, id |-> key, queue |-> queue]
      /\ \A d \in Callers : d # c => call'[d] = call[d]
      /\ file' = file /\ Readable
  BY DEF Load, AnyOrderInv, TypeOK
<1>2. file # Missing => file \in Queue /\ Loaded = file
  BY <1>1 DEF Loaded, Readable, AnyOrderInv, TypeOK
<1> QED
  BY <1>1, <1>2 DEF PushCarriesItsTask, EveryCopyLists

\* Whoever takes a step, a task that every copy lists stays in every copy, and
\* a push keeps carrying its own.
LEMMA ListedStays ==
  AnyOrderInv /\ [Next]_vars =>
    /\ PushCarriesItsTask => PushCarriesItsTask'
    /\ \A id : EveryCopyLists(id) => EveryCopyLists(id)'
<1> DEFINE Kept == /\ PushCarriesItsTask => PushCarriesItsTask'
                   /\ \A id : EveryCopyLists(id) => EveryCopyLists(id)'
<1> SUFFICES ASSUME AnyOrderInv, [Next]_vars PROVE Kept
  OBVIOUS
<1>1. CASE UNCHANGED vars
  BY <1>1 DEF PushCarriesItsTask, EveryCopyLists, vars
<1>2. ASSUME NEW c \in Callers, Push(c) PROVE Kept
  <2>1. PICK id \in Ids : Load(c, "push", id, AfterPush(Loaded, id))
    BY <1>2 DEF Push
  <2>2. Loaded \in Queue
    BY <2>1, LoadedSound DEF Load
  <2> QED
    BY <2>1, <2>2, ChangesKeep, LoadKeepsListed
<1>3. ASSUME NEW c \in Callers, Pop(c) PROVE Kept
  <2> DEFINE first == FirstPending(Loaded.tasks)
             id == Loaded.tasks[first].id
  <2>1. Readable /\ first # 0 /\ Load(c, "pop", id, AfterPop(Loaded))
    BY <1>3 DEF Pop
  <2>2. Loaded \in Queue
    BY <2>1, LoadedSound
  <2>3. id \in Ids
    <3>1. Loaded.tasks \in Seq(Entry)
      BY <2>2 DEF Queue
    <3>2. Loaded.tasks[first] \in Entry
      BY <2>1, <3>1, FirstPendingFacts
    <3> QED
      BY <3>2 DEF Entry
  <2>4. \A old : Lists(Loaded, old) => Lists(AfterPop(Loaded), old)
    BY <2>1, <2>2, <2>3, ChangesKeep
  <2> QED
    BY <2>1, <2>3, <2>4, LoadKeepsListed
<1>4. ASSUME NEW c \in Callers, MarkDone(c) PROVE Kept
  <2>1. PICK id \in Ids : /\ Readable
                          /\ IndexOf(Loaded.tasks, id) # 0
                          /\ Load(c, "done", id, AfterDone(Loaded, id))
    BY <1>4 DEF MarkDone
  <2>2. \A old : Lists(Loaded, old) => Lists(AfterDone(Loaded, id), old)
    BY <2>1, LoadedSound, ChangesKeep
  <2> QED
    BY <2>1, <2>2, LoadKeepsListed
<1>5. ASSUME NEW c \in Callers, Truncate(c) PROVE Kept
  <2>1. /\ call[c] # Idle
        /\ call' = [call EXCEPT ![c].pc = "writing"]
        /\ file' = Empty
    BY <1>5 DEF Truncate, Idle
  <2>2. \A d \in Callers : /\ call'[d] # Idle => call[d] # Idle
                           /\ call[d] # Idle => /\ call'[d].op = call[d].op
                                                /\ call'[d].id = call[d].id
                                                /\ call'[d].queue = call[d].queue
    BY <2>1 DEF AnyOrderInv, TypeOK, Calls
  <2> QED
    BY <2>1, <2>2, MarkersAssumption DEF PushCarriesItsTask, EveryCopyLists
<1>6. ASSUME NEW c \in Callers, Write(c) PROVE Kept
  <2>1. /\ call[c] # Idle
        /\ file' = call[c].queue \/ file' = Garbage
        /\ \A d \in Callers : call'[d] # Idle => d # c /\ call'[d] = call[d]
    BY <1>6 DEF Write, Overlaid, Idle, AnyOrderInv, TypeOK
  <2>2. call[c].queue \in Queue
    BY <2>1 DEF AnyOrderInv, Sound
  <2> QED
    BY <2>1, <2>2, MarkersAssumption DEF PushCarriesItsTask, EveryCopyLists
<1>7. ASSUME NEW c \in Callers, Crash(c) PROVE Kept
  <2>1. /\ file' = file
        /\ \A d \in Callers : call'[d] # Idle => d # c /\ call'[d] = call[d]
    BY <1>7 DEF Crash, AnyOrderInv, TypeOK
  <2> QED
    BY <2>1 DEF PushCarriesItsTask, EveryCopyLists
<1> QED
  BY <1>1, <1>2, <1>3, <1>4, <1>5, <1>6, <1>7 DEF Next, NothingToDo, LoadFails

\* A push nobody else was at work beside leaves its task in every copy: in the
\* file, unless that became unreadable.
LEMMA LonePushSettles ==
  ASSUME AnyOrderInv, PushCarriesItsTask, [Next]_vars, Quiet',
         NEW id, id \notin ToSet(pushed), id \in ToSet(pushed')
  PROVE  EveryCopyLists(id)'
<1>1. PICK c \in Callers : Write(c)
  BY DEF Next, Push, Pop, MarkDone, NothingToDo, LoadFails, Truncate, Crash, Load, vars
<1>2. call[c] # Idle /\ call[c].id \in Ids /\ call[c].queue \in Queue
  BY <1>1 DEF Write, Idle, AnyOrderInv, TypeOK, Sound
<1>3. call[c].op = "push" /\ pushed' = Append(pushed, call[c].id)
  BY <1>1 DEF Write
<1>4. id = call[c].id
  BY <1>2, <1>3, ToSetOfAppend DEF AnyOrderInv, TypeOK
<1>5. Lists(call[c].queue, id)
  BY <1>2, <1>3, <1>4 DEF PushCarriesItsTask
<1>6. file' = call[c].queue \/ file' = Garbage
  BY <1>1 DEF Write, Overlaid
<1>7. file' # Missing /\ (file' \in Queue => Lists(file', id))
  BY <1>2, <1>5, <1>6, MarkersAssumption
<1>8. \A d \in Callers : call'[d] = Idle
  BY DEF Quiet
<1> QED
  BY <1>7, <1>8 DEF EveryCopyLists

\* A task whose push returned while nobody else was at work is in every copy
\* of the queue that can be read from then on: later pushes, pops and dones,
\* overlapping as they may, and callers that die cannot lose it.
THEOREM SettledStays == Spec => SettledTasksStay
<1> DEFINE Stay ==
      \A id \in ToSet(pushed') :
        (IF id \in ToSet(pushed) THEN NoCopyLacks(id) ELSE Quiet') => NoCopyLacks(id)'
<1>1. Init => PushCarriesItsTask
  BY DEF Init, PushCarriesItsTask
<1>2. QueueInv /\ PushCarriesItsTask /\ [Next]_vars => PushCarriesItsTask'
  BY ListedStays DEF QueueInv
<1>3. QueueInv /\ PushCarriesItsTask /\ [Next]_vars /\ QueueInv' => [Stay]_vars
  <2> SUFFICES ASSUME QueueInv, PushCarriesItsTask, [Next]_vars, QueueInv',
                      NEW id, id \in ToSet(pushed'),
                      IF id \in ToSet(pushed) THEN NoCopyLacks(id) ELSE Quiet'
               PROVE  NoCopyLacks(id)'
    OBVIOUS
  <2>1. AnyOrderInv /\ AnyOrderInv'
    BY DEF QueueInv
  <2>2. NoCopyLacks(id) <=> EveryCopyLists(id)
    BY <2>1, NoCopyLacksMeans
  <2>3. (\A key : NoCopyLacks(key) <=> EveryCopyLists(key))'
    BY <2>1, NoCopyLacksMeans, PTL
  <2>4. EveryCopyLists(id)'
    BY <2>1, <2>2, ListedStays, LonePushSettles
  <2> QED
    BY <2>3, <2>4
<1> QED
  BY <1>1, <1>2, <1>3, QueueInvariant, PTL DEF Spec, SettledTasksStay

============================================================================
