---------------------------- MODULE TaskLifecycle ----------------------------
(***************************************************************************)
(* What the Queue interface (src/interfaces/queue.interface.ts) promises   *)
(* about one task, whatever the backend: it waits, it is handled, it may   *)
(* wait again for a retry, and it ends exactly once.  Slots bounds how     *)
(* many tasks are handled at a time.                                       *)
(***************************************************************************)
EXTENDS Integers, FiniteSets

CONSTANTS Task, Slots

VARIABLE status   \* Task -> where the task stands

Status == {"new", "waiting", "active", "completed", "failed", "dropped"}
Ended  == {"completed", "failed", "dropped"}

Moves ==
  {<<"new", "waiting">>, <<"new", "active">>, <<"new", "dropped">>,
   <<"waiting", "active">>, <<"waiting", "dropped">>,
   <<"active", "waiting">>, <<"active", "completed">>,
   <<"active", "failed">>}

Active == {t \in Task : status[t] = "active"}

Init == status = [t \in Task |-> "new"]

(* One step may move several tasks (adding one can start another, clearing *)
(* drops all that wait), but it starts at most one, and no slot is used    *)
(* twice.                                                                  *)
Next ==
  /\ status' \in [Task -> Status]
  /\ \A t \in Task :
       status'[t] = status[t] \/ <<status[t], status'[t]>> \in Moves
  /\ \A t, u \in Active' \ Active : t = u
  /\ Active' \subseteq Active \/ Cardinality(Active') <= Slots

Spec == Init /\ [][Next]_status
==============================================================================
