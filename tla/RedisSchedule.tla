----------------------------- MODULE RedisSchedule -----------------------------
(***************************************************************************)
(* The order in which the queue of src/queues/redis.queue.ts hands out its *)
(* tasks: the scores of the sorted set, as calculateScore computes them,   *)
(* and the time they are compared with.  RedisQueue has the races between  *)
(* commands in full and no scores; here a worker is one chain of           *)
(* processNext calls, and each of its steps ends with a command that Redis *)
(* answers before the next tick.                                           *)
(*                                                                         *)
(* Times are in seconds, so a priority counts as it is.  A score is kept   *)
(* as its distance from the present and decreases with every tick.  Of the *)
(* scores below all that can still be given only the order matters, so the *)
(* gaps between them are closed: time stays finite without being bounded.  *)
(***************************************************************************)
EXTENDS Integers, FiniteSetsExt

CONSTANTS
  Worker, Task,
  Delay,             \* Task -> task.delay, or None
  DefaultRetryDelay,
  Priority,          \* Task -> task.priority
  MaxRetries,        \* Task -> task.maxRetries ?? DEFAULT_MAX_RETRIES
  None

ASSUME ScheduleAssumption ==
  /\ Delay \in [Task -> Nat \cup {None}] /\ None \notin Int \cup Task
  /\ Priority \in [Task -> 0 .. 100]
  /\ MaxRetries \in [Task -> Nat]
  /\ DefaultRetryDelay \in Nat

VARIABLES
  due,        \* Task -> its score, less the present time, if it is in the
              \* sorted set, and None otherwise
  processing, \* the processing list
  at,         \* Worker -> where its call of processNext stands
  task,       \* Worker -> the task that call is about
  isShutdown,
  age         \* history: Task -> seconds since it was submitted, counted up
              \* to its delay, or None

job  == <<at, task>>
vars == <<due, processing, job, isShutdown, age>>

Or(delay, default) == IF delay = None THEN default ELSE delay
Score(t, delay) == delay - Priority[t]
FirstDelay(t) == Or(Delay[t], 0)
RetryDelay(t) == Or(Delay[t], DefaultRetryDelay)

Lowest == Min({Score(t, FirstDelay(t)) : t \in Task} \cup {0})

queue == {t \in Task : due[t] # None}

Init ==
  /\ due = [t \in Task |-> None]
  /\ processing = {}
  /\ at = [w \in Worker |-> "poll"]
  /\ task = [w \in Worker |-> None]
  /\ isShutdown = [w \in Worker |-> FALSE]
  /\ age = [t \in Task |-> None]

(* ZADD, which moves a task that is in the set already.                    *)
ZAdd(S) ==
  due' = [t \in Task |-> IF t \in S THEN Score(t, FirstDelay(t)) ELSE due[t]]

Moves(w, from, to, t) ==
  /\ at[w] = from
  /\ at' = [at EXCEPT ![w] = to]
  /\ task' = [task EXCEPT ![w] = t]

Add(w, t) ==
  /\ ~isShutdown[w] /\ age[t] = None
  /\ ZAdd({t})
  /\ age' = [age EXCEPT ![t] = 0]
  /\ UNCHANGED <<processing, job, isShutdown>>

(* ZRANGEBYSCORE queueKey -inf now LIMIT 0 1.                              *)
FirstDueLatestSlip(t) ==
  /\ t \in queue /\ due[t] <= 0
  /\ \A u \in queue : due[u] <= 0 => due[u] <= due[t]
FirstDueSlip(t) == t \in queue /\ \A u \in queue : due[t] <= due[u]
FirstDue(t) ==
  /\ t \in queue /\ due[t] <= 0
  /\ \A u \in queue : due[t] <= due[u]

PollFinds(w, t) ==
  /\ ~isShutdown[w] /\ FirstDue(t)
  /\ Moves(w, "poll", "move", t)
  /\ UNCHANGED <<due, processing, isShutdown, age>>

(* What handleFailedTask makes of the sorted set d.                        *)
FailedTask(t, d) ==
  IF 1 < MaxRetries[t] THEN [d EXCEPT ![t] = Score(t, RetryDelay(t))] ELSE d

Move(w) ==
  /\ task[w] \in queue /\ ~isShutdown[w]
  /\ Moves(w, "move", "handle", task[w])
  /\ due' = [due EXCEPT ![task[w]] = None]
  /\ processing' = processing \cup {task[w]}
  /\ UNCHANGED <<isShutdown, age>>

(* Another worker was faster, or this one was shut down meanwhile; the     *)
(* command has taken the task off the queue all the same.                  *)
MoveFails(w) ==
  /\ task[w] \notin queue \/ isShutdown[w]
  /\ Moves(w, "move", "clean", task[w])
  /\ due' = FailedTask(task[w], [due EXCEPT ![task[w]] = None])
  /\ processing' = processing \cup {task[w]}
  /\ UNCHANGED <<isShutdown, age>>

HandlerResolves(w) ==
  /\ Moves(w, "handle", "clean", task[w])
  /\ UNCHANGED <<due, processing, isShutdown, age>>

HandlerRejects(w) ==
  /\ Moves(w, "handle", "clean", task[w])
  /\ due' = FailedTask(task[w], due)
  /\ UNCHANGED <<processing, isShutdown, age>>

(* LREM, on success and failure alike, and the next call of processNext.   *)
Clean(w) ==
  /\ Moves(w, "clean", "poll", None)
  /\ processing' = processing \ {task[w]}
  /\ UNCHANGED <<due, isShutdown, age>>

(* What is being processed, by whomever, goes back as if it were new.      *)
Shutdown(w) ==
  /\ ~isShutdown[w]
  /\ isShutdown' = [isShutdown EXCEPT ![w] = TRUE]
  /\ ZAdd(processing)
  /\ processing' = {}
  /\ UNCHANGED <<job, age>>

LaterOverdue(t) == {due[u] : u \in queue} \cap (due[t] + 1 .. Lowest)

Tick ==
  /\ due' = [t \in Task |->
               IF t \notin queue THEN None
               ELSE Max({due[t] - 1,
                         Lowest - 1 - Cardinality(LaterOverdue(t))})]
  /\ age' = [t \in Task |-> IF age[t] = None THEN None
                            ELSE Min({age[t] + 1, FirstDelay(t)})]
  /\ UNCHANGED <<processing, job, isShutdown>>

Step(w) ==
  \/ \E t \in Task : PollFinds(w, t)
  \/ Move(w) \/ MoveFails(w)
  \/ HandlerResolves(w) \/ HandlerRejects(w)
  \/ Clean(w)

Next ==
  \/ \E w \in Worker : (\E t \in Task : Add(w, t)) \/ Step(w) \/ Shutdown(w)
  \/ Tick

Spec == Init /\ [][Next]_vars

(* Time passes; a worker polls again and again, Redis answers and handlers *)
(* settle.  Nothing is said about which task a poll finds.                 *)
FairSpec == Spec /\ WF_vars(Tick) /\ \A w \in Worker : WF_vars(Step(w))
------------------------------------------------------------------------------
(* A worker that was shut down between its two commands buries a task that *)
(* has no retries, though no handler was given it.                         *)
BuriedUnseen(w, t) ==
  at[w] = "clean" /\ task[w] = t /\ isShutdown[w] /\ MaxRetries[t] <= 1

(* No task starves: as long as some worker is open each waiting task is    *)
(* handled or buried unseen, however often others of higher priority fail  *)
(* and come back, and whatever races and shutdowns do to the scores.       *)
NoStarvation ==
  \A t \in Task :
    (t \in queue /\ []\E w \in Worker : ~isShutdown[w]) ~>
      \E w \in Worker :
        (at[w] = "handle" /\ task[w] = t) \/ BuriedUnseen(w, t)

Starts(w, t) == at[w] # "handle" /\ at'[w] = "handle" /\ task'[w] = t

(* A task is not handled before its delay, less a second for each point of *)
(* its priority, has passed since it was submitted; no putting back, by a  *)
(* failure, a lost race or a shutdown, makes it due earlier.               *)
NotBeforeDue ==
  [][\A w \in Worker, t \in Task :
       Starts(w, t) => age[t] >= FirstDelay(t) - Priority[t]]_vars
==============================================================================
