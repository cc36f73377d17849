------------------------ MODULE CodexExecutorProofs ------------------------
(***************************************************************************)
(* Proofs about CodexExecutor, for any set of calls: what a call that is   *)
(* over may leave behind, a process at work or a message file, and why.    *)
(***************************************************************************)
EXTENDS CodexExecutor, TLAPS

\* A call that has not come to Spawn has no process, and one that has not even
\* come to the temporary file has none of that either.
NothingEarly ==
  \A r \in Runs :
    /\ call[r] \in {"new", "prepared"} => process[r] = NoProcess
    /\ call[r] = "new" => message[r] = "none"

\* The inductive invariant.
CodexInv ==
  /\ TypeOK
  /\ NothingEarly
  /\ StrayWriterTimedOut
  /\ LeftoverFileHasCause

\* Stages and results are different words.
LEMMA ResultsAreNotStages ==
  Results \cap {"new", "prepared", "waiting"} = {}
  BY DEF Results

\* The three shapes of a process can be told apart.
LEMMA ProcessShapes ==
  /\ NoProcess \in Processes /\ Running \in Processes
  /\ \A ok, spoke \in BOOLEAN : Exited(ok, spoke) \in Processes
  /\ NoProcess # Running
  /\ \A ok, spoke \in BOOLEAN : Exited(ok, spoke) # Running
  /\ NoProcess.life = "none" /\ Running.life = "running"
<1>1. NoProcess.life = "none" /\ Running.life = "running"
  BY DEF NoProcess, Running
<1>2. \A ok, spoke \in BOOLEAN : Exited(ok, spoke).life = "exited"
  BY DEF Exited
<1>3. NoProcess # Running
  BY <1>1
<1>4. \A ok, spoke \in BOOLEAN : Exited(ok, spoke) # Running
  BY <1>1, <1>2
<1>5. NoProcess \in Processes /\ Running \in Processes
  BY DEF Processes
<1>6. \A ok, spoke \in BOOLEAN : Exited(ok, spoke) \in Processes
  BY DEF Processes
<1> QED
  BY <1>1, <1>3, <1>4, <1>5, <1>6

\* The initial states satisfy the invariant.
LEMMA InitInv == Init => CodexInv
  BY ProcessShapes
  DEF Init, CodexInv, TypeOK, NothingEarly, StrayWriterTimedOut, LeftoverFileHasCause,
      Ended, Results

\* Every step keeps the variables in their types.
LEMMA NextTypeOK == TypeOK /\ [Next]_vars => TypeOK'
<1> SUFFICES ASSUME TypeOK, [Next]_vars PROVE TypeOK'
  OBVIOUS
<1>1. CASE UNCHANGED vars
  BY <1>1 DEF TypeOK, vars
<1>2. ASSUME NEW r \in Runs, Caller(r) PROVE TypeOK'
  <2>1. CASE Refuse(r)
    BY <2>1 DEF Refuse, Ends, TypeOK, Results
  <2>2. CASE MakeMessageFile(r)
    BY <2>2 DEF MakeMessageFile, Ends, TypeOK, Results
  <2>3. CASE Spawn(r)
    BY <2>3, ProcessShapes DEF Spawn, Ends, TypeOK, Results
  <2>4. CASE Collect(r)
    BY <2>4 DEF Collect, Ends, TypeOK, Results
  <2>5. CASE TimeOut(r)
    BY <2>5 DEF TimeOut, Ends, TypeOK, Results
  <2> QED
    BY <1>2, <2>1, <2>2, <2>3, <2>4, <2>5 DEF Caller
<1>3. ASSUME NEW r \in Runs, Program(r) PROVE TypeOK'
  <2>1. CASE WriteMessage(r)
    BY <2>1 DEF WriteMessage, TypeOK
  <2>2. CASE Exit(r)
    BY <2>2, ProcessShapes DEF Exit, TypeOK
  <2> QED
    BY <1>3, <2>1, <2>2 DEF Program
<1> QED
  BY <1>1, <1>2, <1>3 DEF Next, AllOver

\* What a call may leave behind, one call at a time: the induction step, for
\* the call that moves and for the others.
Sound(r) ==
  /\ call[r] \in {"new", "prepared"} => process[r] = NoProcess
  /\ call[r] = "new" => message[r] = "none"
  /\ Ended(r) /\ process[r] = Running => call[r] = "timeout"
  /\ Ended(r) /\ message[r] # "none" => call[r] \in {"timeout", "broken"}

\* A step of one call leaves the others alone.
LEMMA OthersUnmoved ==
  ASSUME TypeOK, NEW r \in Runs, NEW s \in Runs, s # r, Caller(r) \/ Program(r)
  PROVE  call'[s] = call[s] /\ process'[s] = process[s] /\ message'[s] = message[s]
<1>1. CASE Caller(r)
  BY <1>1 DEF Caller, Refuse, MakeMessageFile, Spawn, Collect, TimeOut, Ends, TypeOK
<1>2. CASE Program(r)
  BY <1>2 DEF Program, WriteMessage, Exit, TypeOK
<1> QED
  BY <1>1, <1>2

\* A step of a call leaves behind what it may.
LEMMA MoverSound ==
  ASSUME TypeOK, NEW r \in Runs, Sound(r), Caller(r) \/ Program(r)
  PROVE  Sound(r)'
<1>1. CASE Refuse(r)
  BY <1>1, ProcessShapes DEF Refuse, Ends, TypeOK, Sound, Ended, Results
<1>2. CASE MakeMessageFile(r)
  BY <1>2, ProcessShapes DEF MakeMessageFile, Ends, TypeOK, Sound, Ended, Results
<1>3. CASE Spawn(r)
  BY <1>3, ProcessShapes DEF Spawn, Ends, TypeOK, Sound, Ended, Results
<1>4. CASE Collect(r)
  BY <1>4, ProcessShapes DEF Collect, Ends, TypeOK, Sound, Ended, Results
<1>5. CASE TimeOut(r)
  BY <1>5 DEF TimeOut, Ends, TypeOK, Sound, Ended, Results
<1>6. CASE WriteMessage(r)
  BY <1>6, ProcessShapes DEF WriteMessage, TypeOK, Sound, Ended, Results
<1>7. CASE Exit(r)
  BY <1>7, ProcessShapes DEF Exit, TypeOK, Sound, Ended, Results
<1> QED
  BY <1>1, <1>2, <1>3, <1>4, <1>5, <1>6, <1>7 DEF Caller, Program

\* The invariant is that of its calls.
LEMMA InvByCall == CodexInv <=> TypeOK /\ \A r \in Runs : Sound(r)
  BY DEF CodexInv, NothingEarly, StrayWriterTimedOut, LeftoverFileHasCause, Sound

\* Every step keeps the invariant.
LEMMA NextInv == CodexInv /\ [Next]_vars => CodexInv'
<1> SUFFICES ASSUME CodexInv, [Next]_vars PROVE CodexInv'
  OBVIOUS
<1>0. TypeOK /\ \A s \in Runs : Sound(s)
  BY InvByCall
<1>1. TypeOK'
  BY <1>0, NextTypeOK
<1>2. ASSUME NEW s \in Runs PROVE Sound(s)'
  <2>1. CASE UNCHANGED vars
    BY <1>0, <2>1 DEF vars, Sound, Ended
  <2>2. ASSUME NEW r \in Runs, Caller(r) \/ Program(r) PROVE Sound(s)'
    <3>1. CASE s = r
      BY <1>0, <2>2, <3>1, MoverSound
    <3>2. CASE s # r
      <4>1. call'[s] = call[s] /\ process'[s] = process[s] /\ message'[s] = message[s]
        BY <1>0, <2>2, <3>2, OthersUnmoved
      <4> QED
        BY <1>0, <4>1 DEF Sound, Ended
    <3> QED
      BY <3>1, <3>2
  <2> QED
    BY <2>1, <2>2 DEF Next, AllOver
<1> QED
  BY <1>1, <1>2 DEF CodexInv, NothingEarly, StrayWriterTimedOut, LeftoverFileHasCause, Sound

\* In every behaviour of run_codex the invariant holds throughout.
LEMMA Invariance == Spec => []CodexInv
<1>1. Init => CodexInv
  BY InitInv
<1>2. CodexInv /\ [Next]_vars => CodexInv'
  BY NextInv
<1> QED
  BY <1>1, <1>2, PTL DEF Spec

\* Type correctness of calls, processes and message files.
THEOREM CodexTypeCorrect == Spec => []TypeOK
<1>1. CodexInv => TypeOK
  BY DEF CodexInv
<1> QED
  BY <1>1, Invariance, PTL

\* run_codex leaves a process at work in the work directory only when it
\* reported a timeout.
THEOREM OnlyTimeoutsLeaveWriters == Spec => []StrayWriterTimedOut
<1>1. CodexInv => StrayWriterTimedOut
  BY DEF CodexInv
<1> QED
  BY <1>1, Invariance, PTL

\* run_codex leaves its temporary file only at a timeout or an exception.
THEOREM LeftoverFilesExplained == Spec => []LeftoverFileHasCause
<1>1. CodexInv => LeftoverFileHasCause
  BY DEF CodexInv
<1> QED
  BY <1>1, Invariance, PTL
============================================================================
