--------------------------- MODULE CodexExecutor ---------------------------
(***************************************************************************)
(* run_codex: one call starts `codex exec` as a subprocess in a work       *)
(* directory, gives it a temporary file for its last message and waits for *)
(* it, but not for ever.  The wait is what the timeout ends: nothing stops *)
(* the subprocess itself, which goes on and exits when it pleases.         *)
(***************************************************************************)
EXTENDS Naturals

CONSTANT Runs         \* calls of run_codex

VARIABLES call,       \* where each call is
          process,    \* its subprocess
          message     \* its temporary file: "none", "empty" or "written"

vars == <<call, process, message>>

----------------------------------------------------------------------------
NoProcess == [life |-> "none"]
Running   == [life |-> "running"]

\* What communicate() finds: the exit status, and whether there was any text
\* on standard output or standard error.
Exited(ok, spoke) == [life |-> "exited", ok |-> ok, spoke |-> spoke]
Processes == {NoProcess, Running} \cup {Exited(ok, spoke) : ok, spoke \in BOOLEAN}

\* A call ends with a CodexResult ("broken" is what the except clause makes of
\* any other exception), or with the OSError of the temporary file, which is
\* made outside the try statement.
Results == {"success", "failed", "timeout", "refused", "broken", "raised"}

Init ==
  /\ call    = [r \in Runs |-> "new"]
  /\ process = [r \in Runs |-> NoProcess]
  /\ message = [r \in Runs |-> "none"]

Ends(r, result) == call' = [call EXCEPT ![r] = result]

\* The work directory is no directory, or the binary is not to be found.
Refuse(r) ==
  /\ call[r] = "new"
  /\ Ends(r, "refused")
  /\ UNCHANGED <<process, message>>

\* NamedTemporaryFile(delete=False)
MakeMessageFile(r) ==
  /\ call[r] = "new"
  /\ \/ /\ message' = [message EXCEPT ![r] = "empty"]
        /\ call'    = [call EXCEPT ![r] = "prepared"]
     \/ /\ Ends(r, "raised")
        /\ UNCHANGED message
  /\ UNCHANGED process

\* create_subprocess_exec, or its exception, which becomes a failed result.
Spawn(r) ==
  /\ call[r] = "prepared"
  /\ \/ /\ process' = [process EXCEPT ![r] = Running]
        /\ call'    = [call EXCEPT ![r] = "waiting"]
     \/ /\ Ends(r, "broken")
        /\ UNCHANGED process
  /\ UNCHANGED message

\* returncode == 0 and bool(combined)
Succeeded(r) == process[r].ok /\ (process[r].spoke \/ message[r] = "written")

\* Mutants of Collect: the output is taken as soon as there is some, and the
\* message file is left where it is.
CollectEarly(r) ==
  /\ call[r] = "waiting"
  /\ message[r] = "written"
  /\ message' = [message EXCEPT ![r] = "none"]
  /\ Ends(r, "success")
  /\ UNCHANGED process
CollectKeepingFile(r) ==
  /\ call[r] = "waiting"
  /\ process[r].life = "exited"
  /\ Ends(r, IF Succeeded(r) THEN "success" ELSE "failed")
  /\ UNCHANGED <<process, message>>

\* communicate() returned: the message is read and its file removed, unless
\* the file cannot be read.
Collect(r) ==
  /\ call[r] = "waiting"
  /\ process[r].life = "exited"
  /\ \/ /\ message' = [message EXCEPT ![r] = "none"]
        /\ Ends(r, IF Succeeded(r) THEN "success" ELSE "failed")
     \/ /\ Ends(r, "broken")
        /\ UNCHANGED message
  /\ UNCHANGED process

\* Mutant of TimeOut: communicate() is awaited without wait_for.
TimeOutNever(r) == FALSE /\ UNCHANGED vars

\* wait_for gives up, perhaps just as the subprocess exits.  Nobody kills it,
\* and nobody removes its file.
TimeOut(r) ==
  /\ call[r] = "waiting"
  /\ Ends(r, "timeout")
  /\ UNCHANGED <<process, message>>

\* The codex program: it may write its last message, and exits some time.
WriteMessage(r) ==
  /\ process[r] = Running
  /\ message' = [message EXCEPT ![r] = "written"]
  /\ UNCHANGED <<call, process>>

\* Mutant of Exit: the process is gone, its status and output with it.
ExitUnreported(r) ==
  /\ process[r] = Running
  /\ process' = [process EXCEPT ![r] = [life |-> "exited"]]
  /\ UNCHANGED <<call, message>>

Exit(r) ==
  /\ process[r] = Running
  /\ \E ok, spoke \in BOOLEAN : process' = [process EXCEPT ![r] = Exited(ok, spoke)]
  /\ UNCHANGED <<call, message>>

Caller(r)  == Refuse(r) \/ MakeMessageFile(r) \/ Spawn(r) \/ Collect(r) \/ TimeOut(r)
Program(r) == WriteMessage(r) \/ Exit(r)

Ended(r) == call[r] \in Results
AllOver  == (\A r \in Runs : Ended(r) /\ process[r] # Running) /\ UNCHANGED vars

Next == AllOver \/ \E r \in Runs : Caller(r) \/ Program(r)

Spec == Init /\ [][Next]_vars

\* The event loop of the caller goes on, and its timer fires.  Nothing obliges
\* the program to exit.
FairSpec == Spec /\ \A r \in Runs : WF_vars(Caller(r))

----------------------------------------------------------------------------
(* Properties *)

TypeOK ==
  /\ call \in [Runs -> {"new", "prepared", "waiting"} \cup Results]
  /\ process \in [Runs -> Processes]
  /\ message \in [Runs -> {"none", "empty", "written"}]

\* A call that is over and still has its subprocess at work on the directory
\* was reported as timed out: no other result leaves a writer behind.
StrayWriterTimedOut ==
  \A r \in Runs : Ended(r) /\ process[r] = Running => call[r] = "timeout"

\* Message files pile up only where a call timed out or broke off at
\* an exception; every other call leaves none.
LeftoverFileHasCause ==
  \A r \in Runs : Ended(r) /\ message[r] # "none" => call[r] \in {"timeout", "broken"}

\* Whatever the program does, and if it hangs for ever, the call returns.
EveryCallEnds == \A r \in Runs : call[r] # "new" ~> Ended(r)
============================================================================
