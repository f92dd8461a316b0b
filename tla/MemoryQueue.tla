----------------------------- MODULE MemoryQueue -----------------------------
(***************************************************************************)
(* The in-process queue of src/queues/memory.queue.ts.                     *)
(*                                                                         *)
(* Everything runs on one JavaScript event loop, so a synchronous segment  *)
(* of code (up to an await, a timer or setImmediate) is one step.  Each    *)
(* call of processNext() that takes a task becomes an execution: a frame   *)
(* that runs the handler, may wait out a retry delay while it still holds  *)
(* its slot, and ends in the finally block.                                *)
(*                                                                         *)
(* Time is left out: a pending retry timer may fire at any moment.         *)
(*                                                                         *)
(* A definition whose name ends in Slip is not used here: it is a likely   *)
(* mistake in the definition below it, and README says which property      *)
(* notices it.                                                             *)
(***************************************************************************)
EXTENDS Integers, SequencesExt

CONSTANTS
  Task,         \* the tasks clients submit; each is submitted at most once
  Id,           \* task ids, a set that need not give every task its own
  IdOf,         \* Task -> Id \cup {NoId}
  Priority,     \* Task -> priority after normalizeTask
  MaxRetries,   \* Task -> task.maxRetries ?? DEFAULT_MAX_RETRIES
  Concurrency,  \* the queue's concurrency option
  Calls,        \* which of "pause", "remove", "clear", "shutdown" clients use
  NoId,         \* the empty string: an id that ?? keeps and ! rejects
  None          \* no entry in the processing map

ASSUME QueueAssumption ==
  /\ IdOf \in [Task -> Id \cup {NoId}]
  /\ NoId \notin Id
  /\ Priority \in [Task -> Nat]
  /\ MaxRetries \in [Task -> Nat]
  /\ Concurrency \in Nat
  /\ None \notin Task

VARIABLES
  tasks,        \* waiting entries, highest priority first
  processing,   \* Id -> the task in the processing map, or None
  isPaused,
  isShutdown,
  handler,      \* has a handler been registered?
  activeCount,
  frames,       \* executions whose promise has not settled yet
  immediates,   \* setImmediate(() => this.processNext()) callbacks due
  crashed,      \* an unhandled rejection has ended the process
  fate          \* history: what has become of each task

flags  == <<isPaused, isShutdown, handler>>
vars   == <<tasks, processing, flags, activeCount, frames, immediates,
            crashed, fate>>

Entry == [task : Task, retryCount : Nat]
Phase == {"handler",    \* awaiting this.handler(task)
          "backoff",    \* awaiting the retry timer in handleFailedTask
          "ending",     \* handleFailedTask done, finally block due
          "rejecting"}  \* as ending, but the re-add has thrown
Frame == [task : Task, retryCount : Nat, phase : Phase, caught : BOOLEAN]
Fate  == {"new", "open", "completed", "failed", "dropped"}

TypeOK ==
  /\ tasks \in Seq(Entry)
  /\ processing \in [Id -> Task \cup {None}]
  /\ isPaused \in BOOLEAN /\ isShutdown \in BOOLEAN /\ handler \in BOOLEAN
  /\ activeCount \in Nat
  /\ frames \subseteq Frame
  /\ immediates \in Nat
  /\ crashed \in BOOLEAN
  /\ fate \in [Task -> Fate]

Init ==
  /\ tasks = <<>>
  /\ processing = [i \in Id |-> None]
  /\ isPaused = FALSE /\ isShutdown = FALSE /\ handler = FALSE
  /\ activeCount = 0
  /\ frames = {}
  /\ immediates = 0
  /\ crashed = FALSE
  /\ fate = [t \in Task |-> "new"]

------------------------------------------------------------------------------
(* push, then the stable sort by descending priority: on a list that is    *)
(* already sorted the new entry lands behind the last of its priority.     *)
AheadSlip(q, e) == {i \in DOMAIN q : Priority[q[i].task] > Priority[e.task]}
Ahead(q, e) == {i \in DOMAIN q : Priority[q[i].task] >= Priority[e.task]}
Enqueue(q, e) == InsertAt(q, Cardinality(Ahead(q, e)) + 1, e)

(* The flags are read as the calling segment leaves them.                  *)
ShouldSkipOffByOneSlip(q) ==
  \/ isShutdown' \/ isPaused' \/ ~handler'
  \/ activeCount > Concurrency
  \/ q = <<>>
ShouldSkipUnpausedSlip(q) ==
  \/ isShutdown' \/ ~handler'
  \/ activeCount >= Concurrency
  \/ q = <<>>
ShouldSkipProcessing(q) ==
  \/ isShutdown' \/ isPaused' \/ ~handler'
  \/ activeCount >= Concurrency
  \/ q = <<>>

Take(q, fs, caught) ==
  LET e == Head(q) IN
  /\ IdOf[e.task] # NoId
  /\ tasks' = Tail(q)
  /\ frames' = fs \cup {[task |-> e.task, retryCount |-> e.retryCount,
                         phase |-> "handler", caught |-> caught]}
  /\ processing' = [processing EXCEPT ![IdOf[e.task]] = e.task]
  /\ activeCount' = activeCount + 1
  /\ UNCHANGED crashed

(* The shifted task has no id: it is gone, and processNext rejects.        *)
RejectIdless(q, fs, caught) ==
  /\ IdOf[Head(q).task] = NoId
  /\ tasks' = Tail(q)
  /\ frames' = fs
  /\ crashed' = ~caught
  /\ UNCHANGED <<processing, activeCount>>

(* The shift comes before the checks.                                      *)
ProcessNextSlip(q, fs, ft, caught) ==
  \/ /\ ShouldSkipProcessing(q)
     /\ tasks' = IF q = <<>> THEN q ELSE Tail(q)
     /\ frames' = fs /\ fate' = ft
     /\ UNCHANGED <<processing, activeCount, crashed>>
  \/ /\ ~ShouldSkipProcessing(q)
     /\ Take(q, fs, caught)
     /\ fate' = ft

(* One synchronous call of processNext: q and fs are the list and the      *)
(* frames as the caller leaves them, ft the fates; caught says whether the *)
(* caller attached a .catch to the promise.                                *)
ProcessNext(q, fs, ft, caught) ==
  \/ /\ ShouldSkipProcessing(q)
     /\ tasks' = q /\ frames' = fs /\ fate' = ft
     /\ UNCHANGED <<processing, activeCount, crashed>>
  \/ /\ ~ShouldSkipProcessing(q)
     /\ Take(q, fs, caught)
     /\ fate' = ft
  \/ /\ ~ShouldSkipProcessing(q)
     /\ RejectIdless(q, fs, caught)
     /\ fate' = [ft EXCEPT ![Head(q).task] = "dropped"]

------------------------------------------------------------------------------
(* Client calls.  A call the code answers by throwing changes nothing.     *)

Add(t) ==
  /\ ~crashed
  /\ fate[t] = "new"
  /\ ~isShutdown
  /\ UNCHANGED flags
  /\ ProcessNext(Enqueue(tasks, [task |-> t, retryCount |-> 0]), frames,
                 [fate EXCEPT ![t] = "open"], TRUE)
  /\ UNCHANGED immediates

Process ==
  /\ ~crashed
  /\ ~handler
  /\ handler' = TRUE
  /\ UNCHANGED <<isPaused, isShutdown>>
  /\ ProcessNext(tasks, frames, fate, TRUE)
  /\ UNCHANGED immediates

Pause ==
  /\ ~crashed
  /\ ~isShutdown
  /\ isPaused' = TRUE
  /\ UNCHANGED <<tasks, processing, isShutdown, handler, activeCount, frames,
                 immediates, crashed, fate>>

Resume ==
  /\ ~crashed
  /\ ~isShutdown
  /\ isPaused' = FALSE
  /\ UNCHANGED <<isShutdown, handler>>
  /\ ProcessNext(tasks, frames, fate, TRUE)
  /\ UNCHANGED immediates

(* The waiting list is searched first, and only its first match removed.   *)
RemovePending(id) ==
  \E i \in DOMAIN tasks :
    /\ ~crashed
    /\ IdOf[tasks[i].task] = id
    /\ \A j \in 1 .. i - 1 : IdOf[tasks[j].task] # id
    /\ tasks' = RemoveAt(tasks, i)
    /\ fate' = [fate EXCEPT ![tasks[i].task] = "dropped"]
    /\ UNCHANGED <<processing, flags, activeCount, frames, immediates,
                   crashed>>

(* Only the map entry goes: the execution itself is not touched.           *)
RemoveProcessing(id) ==
  /\ ~crashed
  /\ id \in Id
  /\ \A i \in DOMAIN tasks : IdOf[tasks[i].task] # id
  /\ processing[id] # None
  /\ processing' = [processing EXCEPT ![id] = None]
  /\ UNCHANGED <<tasks, flags, activeCount, frames, immediates, crashed,
                 fate>>

RemoveTask(id) == RemovePending(id) \/ RemoveProcessing(id)

Waiting == {tasks[i].task : i \in DOMAIN tasks}
DropWaiting == [t \in Task |-> IF t \in Waiting THEN "dropped" ELSE fate[t]]

Clear ==
  /\ ~crashed
  /\ tasks' = <<>>
  /\ processing' = [i \in Id |-> None]
  /\ fate' = DropWaiting
  /\ UNCHANGED <<flags, activeCount, frames, immediates, crashed>>

Shutdown ==
  /\ ~crashed
  /\ ~isShutdown
  /\ isShutdown' = TRUE
  /\ handler' = FALSE
  /\ tasks' = <<>>
  /\ processing' = [i \in Id |-> None]
  /\ fate' = DropWaiting
  /\ UNCHANGED <<isPaused, activeCount, frames, immediates, crashed>>

------------------------------------------------------------------------------
(* The event loop.                                                         *)

RunImmediate ==
  /\ ~crashed
  /\ immediates > 0
  /\ immediates' = immediates - 1
  /\ UNCHANGED flags
  /\ ProcessNext(tasks, frames, fate, FALSE)

LeaveSlotSilentSlip(f) ==
  /\ frames' = frames \ {f}
  /\ processing' = [i \in Id |-> IF i = IdOf[f.task] THEN None
                                 ELSE processing[i]]
  /\ activeCount' = activeCount - 1
  /\ UNCHANGED immediates
LeaveSlotKeepSlip(f) ==
  /\ frames' = frames \ {f}
  /\ UNCHANGED processing
  /\ activeCount' = activeCount - 1
  /\ immediates' = immediates + 1

(* What the finally block does for execution f.                            *)
LeaveSlot(f) ==
  /\ frames' = frames \ {f}
  /\ processing' = [i \in Id |-> IF i = IdOf[f.task] THEN None
                                 ELSE processing[i]]
  /\ activeCount' = activeCount - 1
  /\ immediates' = immediates + 1

CompleteSlip(f) ==
  /\ f.phase = "handler"
  /\ frames' = frames \ {f}
  /\ processing' = [i \in Id |-> IF i = IdOf[f.task] THEN None
                                 ELSE processing[i]]
  /\ activeCount' = activeCount - 2
  /\ immediates' = immediates + 1
  /\ fate' = [fate EXCEPT ![f.task] = "completed"]
  /\ UNCHANGED <<tasks, flags, crashed>>

(* The handler resolves: completion and finally are one segment.           *)
Complete(f) ==
  /\ f.phase = "handler"
  /\ LeaveSlot(f)
  /\ fate' = [fate EXCEPT ![f.task] = "completed"]
  /\ UNCHANGED <<tasks, flags, crashed>>

MoveFrame(f, phase) == (frames \ {f}) \cup {[f EXCEPT !.phase = phase]}
RetriesLeft(f) == f.retryCount + 1 < MaxRetries[f.task]

(* The final event is emitted although a retry is under way.               *)
FailSlip(f) ==
  /\ f.phase = "handler"
  /\ frames' = MoveFrame(f, IF RetriesLeft(f) THEN "backoff" ELSE "ending")
  /\ fate' = [fate EXCEPT ![f.task] = "failed"]
  /\ UNCHANGED <<tasks, processing, flags, activeCount, immediates, crashed>>

(* The handler rejects: handleFailedTask up to its first await.            *)
Fail(f) ==
  /\ f.phase = "handler"
  /\ \/ /\ RetriesLeft(f)
        /\ frames' = MoveFrame(f, "backoff")
        /\ UNCHANGED fate
     \/ /\ ~RetriesLeft(f)
        /\ frames' = MoveFrame(f, "ending")
        /\ fate' = [fate EXCEPT ![f.task] = "failed"]
  /\ UNCHANGED <<tasks, processing, flags, activeCount, immediates, crashed>>

(* The timer is an interval: it adds the task over and over.               *)
RetryTimerSlip(f) ==
  /\ f.phase = "backoff"
  /\ ~isShutdown
  /\ UNCHANGED <<flags, immediates>>
  /\ ProcessNext(Enqueue(tasks, [task |-> f.task,
                                 retryCount |-> f.retryCount + 1]),
                 frames, fate, TRUE)

(* The retry timer fires: the task is added again before its slot is       *)
(* given back, so add's own processNext still counts this execution.       *)
RetryTimer(f) ==
  /\ f.phase = "backoff"
  /\ UNCHANGED <<flags, immediates>>
  /\ \/ /\ ~isShutdown
        /\ ProcessNext(Enqueue(tasks, [task |-> f.task,
                                       retryCount |-> f.retryCount + 1]),
                       MoveFrame(f, "ending"), fate, TRUE)
     \/ /\ isShutdown
        /\ frames' = MoveFrame(f, "rejecting")
        /\ fate' = [fate EXCEPT ![f.task] = "dropped"]
        /\ UNCHANGED <<tasks, processing, activeCount, crashed>>

Finally(f) ==
  /\ f.phase \in {"ending", "rejecting"}
  /\ LeaveSlot(f)
  /\ crashed' = (f.phase = "rejecting" /\ ~f.caught)
  /\ UNCHANGED <<tasks, flags, fate>>

------------------------------------------------------------------------------
(* What the queries answer.                                                *)

GetTasks(status) ==
  {t \in Task : \/ status \in {"pending", "all"} /\ t \in Waiting
                \/ /\ status \in {"processing", "all"}
                   /\ \E i \in Id : processing[i] = t}

GetStatus ==
  [pendingTasks |-> Len(tasks), activeCount |-> activeCount,
   processingTasks |-> Cardinality({i \in Id : processing[i] # None})]

------------------------------------------------------------------------------
ClientCall ==
  \/ \E t \in Task : Add(t)
  \/ Process
  \/ "pause" \in Calls /\ (Pause \/ Resume)
  \/ "remove" \in Calls /\ \E id \in Id \cup {NoId} : RemoveTask(id)
  \/ "clear" \in Calls /\ Clear
  \/ "shutdown" \in Calls /\ Shutdown

FrameStep(f) ==
  /\ ~crashed
  /\ Complete(f) \/ Fail(f) \/ RetryTimer(f) \/ Finally(f)

Next == ClientCall \/ RunImmediate \/ \E f \in frames : FrameStep(f)

Spec == Init /\ [][Next]_vars
------------------------------------------------------------------------------
(* Invariants.                                                             *)

Live(f) == f.phase \in {"handler", "backoff"}
Running == {f \in frames : f.phase = "handler"}

(* The slot counter of processNext and its finally block never drifts from *)
(* the executions that hold a slot, whatever mix of failures, retries,     *)
(* removals, clears and shutdowns happens; and it respects the concurrency *)
(* option (options.interface.ts:26).                                       *)
SlotsAccounted ==
  /\ activeCount = Cardinality(frames)
  /\ activeCount <= Concurrency

(* A task is never in the queue twice, nor in the queue while it is being  *)
(* handled or waits for its retry, nor handled twice at once: what remains *)
(* of an earlier execution of it is only its finally block.                *)
SingleCopy ==
  /\ \A i, j \in DOMAIN tasks : tasks[i].task = tasks[j].task => i = j
  /\ \A i \in DOMAIN tasks, f \in frames : f.task = tasks[i].task =>
       ~Live(f) /\ f.retryCount < tasks[i].retryCount
  /\ \A f, g \in frames : f.task = g.task /\ f # g /\ Live(f) =>
       ~Live(g) /\ g.retryCount < f.retryCount

(* An accepted task is never lost: until it has an outcome it waits in the *)
(* list or some execution will still hand it on (shutdown excepted, which  *)
(* drops what waits).                                                      *)
NothingLost ==
  \A t \in Task : fate[t] = "open" =>
    t \in Waiting \/ \E f \in frames : f.task = t /\ Live(f)

(* A task with the empty id has taken its caller's wake-up with it.        *)
Swallowed == \E t \in Task : IdOf[t] = NoId /\ fate[t] = "dropped"

(* Whenever a task could be started, something is due that will call       *)
(* processNext: an execution that will end, or a scheduled callback.  Only *)
(* a task with the empty id undoes that.                                   *)
NoLostWakeup ==
  tasks # <<>> /\ handler /\ ~isPaused /\ ~isShutdown /\ ~crashed =>
    frames # {} \/ immediates > 0 \/ Swallowed

(* What getTasks lists and getStatus counts as being processed has an      *)
(* execution behind it, each id one of its own, also after retries and     *)
(* other tasks that reuse the id and after removals: a task that is over   *)
(* is never shown for good.                                                *)
NoGhostProcessing ==
  /\ \A t \in GetTasks("processing") : \E f \in frames : f.task = t
  /\ GetStatus.processingTasks <= GetStatus.activeCount

------------------------------------------------------------------------------
(* Action properties and the contract of the Queue interface.              *)

Starting == Running' \ Running

(* processNext takes a task of the highest waiting priority and, of those, *)
(* the one that has waited longest in the list: a retried or a fresh task  *)
(* overtakes nobody of its own priority (task.interface.ts:30).            *)
StartsBest ==
  [][\A f \in Starting, i \in DOMAIN tasks :
       LET e == tasks[i] IN
       \/ e.task = f.task
       \/ Priority[e.task] < Priority[f.task]
       \/ /\ Priority[e.task] = Priority[f.task]
          /\ \E k \in 1 .. i - 1 : tasks[k].task = f.task]_vars

(* Nothing is started once the queue is paused or shut down, however many  *)
(* retry timers and setImmediate callbacks are still due then.             *)
StartsOnlyWhenOpen ==
  [][Starting # {} => handler' /\ ~isPaused' /\ ~isShutdown']_vars

StatusOf(t) ==
  IF fate[t] # "open" THEN fate[t]
  ELSE IF \E f \in Running : f.task = t THEN "active" ELSE "waiting"

(* Every step is one the interface allows: see TaskLifecycle.              *)
Lifecycle == INSTANCE TaskLifecycle
  WITH Slots <- Concurrency, status <- [t \in Task |-> StatusOf(t)]
ImplementsLifecycle == Lifecycle!Spec
------------------------------------------------------------------------------
(* Liveness.  The event loop runs every callback that is due, a timer      *)
(* fires, and a user's handler settles; clients owe the queue nothing.     *)

OfTask(t, A(_)) == \E f \in frames : f.task = t /\ A(f)
Settle(f) == Complete(f) \/ Fail(f)
LoopFairness ==
  /\ WF_vars(RunImmediate)
  /\ \A t \in Task :
       /\ WF_vars(~crashed /\ OfTask(t, RetryTimer))
       /\ WF_vars(~crashed /\ OfTask(t, Finally))
HandlersSettle == \A t \in Task : WF_vars(~crashed /\ OfTask(t, Settle))

FairSpec == Spec /\ LoopFairness /\ HandlersSettle

(* A queue that stays open finishes every task it accepted: no retry, no   *)
(* pause in between and no shortage of slots leaves a task behind, unless  *)
(* a task with the empty id swallows the wake-up of those behind it.       *)
Open == handler /\ ~isPaused /\ ~isShutdown
EventuallyEnds ==
  \A t \in Task :
    (fate[t] = "open" /\ []Open) ~> (fate[t] # "open" \/ Swallowed)

==============================================================================
