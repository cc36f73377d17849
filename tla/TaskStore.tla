----------------------------- MODULE TaskStore -----------------------------
(***************************************************************************)
(* What the task catalogue promises its clients: a set of versioned rows   *)
(* in which every edit is one atomic step from the row as it stands.  The  *)
(* service that keeps this promise with a read, a check in Python and a    *)
(* conditional UPDATE is TaskCatalog, which refines this module.           *)
(***************************************************************************)
EXTENDS TaskLifecycle

CONSTANT Tasks

VARIABLES store,    \* task id -> row, or NoRow
          used      \* the ids ever given out: an id is never given out twice

Init ==
  /\ store = [t \in Tasks |-> NoRow]
  /\ used = {}

\* A new task starts at version 1 under an id nobody has seen.
Add(t, row) ==
  /\ t \notin used
  /\ row.version = 1
  /\ store' = [store EXCEPT ![t] = row]
  /\ used' = used \cup {t}

\* An edit follows the transition matrix and takes the next version.
Edit(t, row) ==
  /\ store[t] # NoRow
  /\ TransitionAllowed(store[t].status, row.status)
  /\ row.version = store[t].version + 1
  /\ store' = [store EXCEPT ![t] = row]
  /\ UNCHANGED used

\* A task that is running or validating stays.
Remove(t) ==
  /\ store[t] # NoRow
  /\ store[t].status \notin ProtectedStatuses
  /\ store' = [store EXCEPT ![t] = NoRow]
  /\ UNCHANGED used

\* Written over the rows of the next state: there is nothing else to choose.
Next ==
  \E t \in Tasks :
     \/ store'[t] \in Row /\ (Add(t, store'[t]) \/ Edit(t, store'[t]))
     \/ Remove(t)

Spec == Init /\ [][Next]_<<store, used>>

============================================================================
