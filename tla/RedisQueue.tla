------------------------------ MODULE RedisQueue ------------------------------
(***************************************************************************)
(* The queue of src/queues/redis.queue.ts: several workers share one Redis *)
(* server that keeps a sorted set of waiting tasks and two lists, of tasks *)
(* being processed and of dead letters.                                    *)
(*                                                                         *)
(* A worker is one RedisQueue object with its connection.  Its commands    *)
(* travel on the connection in order; the server executes one command (or  *)
(* one MULTI) at a time, and what the worker does on the reply, up to the  *)
(* next command it sends, belongs to the same step.  Between its commands  *)
(* a call of processNext is either waiting for setImmediate or for the     *)
(* user's handler; what it waits for is all that is kept of it.            *)
(*                                                                         *)
(* A task is written to Redis as one string that never changes, so the     *)
(* stored collections are sets of tasks.  Scores are left out: a poll may  *)
(* find any waiting task due, or none.                                     *)
(*                                                                         *)
(* As in MemoryQueue, a definition whose name ends in Slip is a likely     *)
(* mistake in the definition below it.                                     *)
(***************************************************************************)
EXTENDS Integers, SequencesExt

CONSTANTS
  Worker,
  Task,         \* the tasks clients submit; each is submitted at most once
  Producers,    \* the workers that call add, removeTask and clear
  Consumers,    \* the workers that may call process
  MaxConsumers, \* how many workers consume at a time
  MaxRetries,   \* Task -> task.maxRetries ?? DEFAULT_MAX_RETRIES
  Concurrency,
  RangeReply,   \* what a poll's MULTI returns for the range: "text" as the
                \* code reads it, or "list" as ZRANGEBYSCORE answers
  Calls,        \* which of "pause", "resume", "shutdown", "remove", "list",
                \* "status", "clear" and "crash" occur
  MaxChains,    \* bound: calls of processNext under way in one worker
  MaxFaults,    \* bound: commands that fail
  MaxStarts,    \* bound: handler calls are counted up to this
  None          \* no task

ASSUME RedisAssumption ==
  /\ IsFiniteSet(Worker)
  /\ Producers \subseteq Worker /\ Consumers \subseteq Worker
  /\ MaxRetries \in [Task -> Nat]
  /\ Concurrency \in Nat
  /\ MaxStarts \in Nat
  /\ RangeReply \in {"text", "list"}
  /\ None \notin Task

VARIABLES
  store,        \* the server's three collections
  wire,         \* Worker -> commands sent and not yet answered, in order
  alive,        \* Worker -> has its process not crashed?
  isPaused, isShutdown, handler, activeCount,
  immediates,   \* Worker -> setImmediate(() => this.processNext()) due
  running,      \* Worker -> Task -> handler calls that have not settled
  snapshot,     \* Worker -> the processing list as its shutdown read it
  faults,       \* how many commands have failed
  fate,         \* history: what has become of each task
  starts,       \* history: how often each task's handler was called
  unseen        \* history: Worker -> what its search has yet to come across

server == <<store, fate, unseen>>
worker == <<alive, isPaused, isShutdown, handler>>
slots == <<activeCount, immediates>>
tasks == <<running, starts>>
vars == <<server, wire, worker, slots, tasks, snapshot, faults>>

Place == {"queue", "processing", "dead"}
ChainOp == {"poll", "move", "ack", "requeue", "bury", "clean"}
SearchOp == {"find", "take", "count"}
CallOp == SearchOp \cup {"add", "wipe", "list", "restore"}
Command == [op : ChainOp \cup CallOp, task : Task \cup {None}, place : Place]
Cmd(op, t, p) == [op |-> op, task |-> t, place |-> p]
Fate == {"new", "sent", "open", "completed", "failed", "dropped"}

TypeOK ==
  /\ store \in [Place -> SUBSET Task]
  /\ wire \in [Worker -> Seq(Command)]
  /\ alive \in [Worker -> BOOLEAN]
  /\ isPaused \in [Worker -> BOOLEAN]
  /\ isShutdown \in [Worker -> BOOLEAN]
  /\ handler \in [Worker -> BOOLEAN]
  /\ activeCount \in [Worker -> Nat]
  /\ immediates \in [Worker -> Nat]
  /\ running \in [Worker -> [Task -> Nat]]
  /\ snapshot \in [Worker -> SUBSET Task]
  /\ faults \in Nat
  /\ fate \in [Task -> Fate]
  /\ starts \in [Task -> 0 .. MaxStarts]
  /\ unseen \in [Worker -> SUBSET Task]

Init ==
  /\ store = [p \in Place |-> {}]
  /\ wire = [w \in Worker |-> <<>>]
  /\ alive = [w \in Worker |-> TRUE]
  /\ isPaused = [w \in Worker |-> FALSE]
  /\ isShutdown = [w \in Worker |-> FALSE]
  /\ handler = [w \in Worker |-> FALSE]
  /\ activeCount = [w \in Worker |-> 0]
  /\ immediates = [w \in Worker |-> 0]
  /\ running = [w \in Worker |-> [t \in Task |-> 0]]
  /\ snapshot = [w \in Worker |-> {}]
  /\ faults = 0
  /\ fate = [t \in Task |-> "new"]
  /\ starts = [t \in Task |-> 0]
  /\ unseen = [w \in Worker |-> {}]

------------------------------------------------------------------------------
(* Calls of processNext that are under way in worker w.                    *)

Sent(w, ops) == Cardinality({i \in DOMAIN wire[w] : wire[w][i].op \in ops})
HandlerCalls(w) == UNION {{t} \X (1 .. running[w][t]) : t \in Task}
Handling(w) == Cardinality(HandlerCalls(w))
Chains(w) == immediates[w] + Handling(w) + Sent(w, ChainOp)
Room(w) == Chains(w) + Sent(w, {"add"}) < MaxChains

ShouldSkipProcessing(w) ==
  \/ isShutdown'[w] \/ isPaused'[w] \/ ~handler'[w]
  \/ activeCount[w] >= Concurrency

(* What a call of processNext sends before its first await.                *)
Poll(w) ==
  IF ShouldSkipProcessing(w) THEN <<>> ELSE <<Cmd("poll", None, "queue")>>

Send(w, cmds) == wire' = [wire EXCEPT ![w] = @ \o cmds]

(* The finally block of processNext, with activeCount as it finds it.      *)
RescheduleSlip(w) == immediates' = immediates
Reschedule(w) ==
  immediates' = IF isPaused[w] \/ isShutdown[w] THEN immediates
                ELSE [immediates EXCEPT ![w] = @ + 1]
LeaveSlotKeepSlip(w) == Reschedule(w) /\ UNCHANGED activeCount
LeaveSlotFullSlip(w) ==
  /\ activeCount' = [activeCount EXCEPT ![w] = @ - 1]
  /\ IF activeCount[w] >= Concurrency THEN UNCHANGED immediates
                                      ELSE Reschedule(w)
LeaveSlotTwiceSlip(w) ==
  /\ activeCount' = [activeCount EXCEPT ![w] = @ - 2]
  /\ Reschedule(w)
LeaveSlot(w) ==
  /\ activeCount' = [activeCount EXCEPT ![w] = @ - 1]
  /\ Reschedule(w)

FailureCommandSlip(t) ==
  IF 1 < MaxRetries[t] THEN Cmd("clean", t, "processing")
                       ELSE Cmd("bury", t, "dead")

(* handleFailedTask up to its first command.  The count it compares is one *)
(* more than the stored task's, and the stored task is never updated.      *)
FailureCommand(t) ==
  IF 1 < MaxRetries[t] THEN Cmd("requeue", t, "queue")
                       ELSE Cmd("bury", t, "dead")

------------------------------------------------------------------------------
(* What the server does with a command.                                    *)

Without(p, t) == [store EXCEPT ![p] = @ \ {t}]
With(p, t) == [store EXCEPT ![p] = @ \cup {t}]

(* The task is popped off the queue, or only copied from it.               *)
StoreAfterPopSlip(w, m) ==
  CASE m.op \in {"add", "requeue", "bury"} -> With(m.place, m.task)
    [] m.op = "move"                       -> Without("queue", m.task)
    [] m.op \in {"ack", "clean", "take"}   -> Without(m.place, m.task)
    [] OTHER                               -> store
StoreAfterCopySlip(w, m) ==
  CASE m.op \in {"add", "requeue", "bury", "move"} -> With(m.place, m.task)
    [] m.op \in {"ack", "clean", "take"}   -> Without(m.place, m.task)
    [] OTHER                               -> store

StoreAfter(w, m) ==
  CASE m.op \in {"add", "requeue", "bury"} -> With(m.place, m.task)
    [] m.op = "move" ->
         [store EXCEPT !["queue"] = @ \ {m.task},
                       !["processing"] = @ \cup {m.task}]
    [] m.op \in {"ack", "clean", "take"}   -> Without(m.place, m.task)
    [] m.op = "wipe"                       -> [store EXCEPT ![m.place] = {}]
    [] m.op = "restore" ->
         [store EXCEPT !["queue"] = @ \cup snapshot[w], !["processing"] = {}]
    [] m.op \in {"poll", "find", "count", "list"} -> store

(* The outcome of a task is what first becomes of it on the server.        *)
Settled(S, f) ==
  [t \in Task |-> IF t \in S /\ fate[t] = "open" THEN f ELSE fate[t]]
FateAfter(m) ==
  CASE m.op = "add"  -> [fate EXCEPT ![m.task] = "open"]
    [] m.op = "ack"  -> Settled({m.task}, "completed")
    [] m.op = "bury" -> Settled({m.task}, "failed")
    [] m.op = "take" -> Settled({m.task}, "dropped")
    [] m.op = "wipe" -> Settled(store[m.place], "dropped")
    [] OTHER         -> fate

(* A search is over a task that it comes across, and one that is completed *)
(* or removed by a client meanwhile, or that is in no collection any more, *)
(* is no longer its concern.                                               *)
Excused(w, m) ==
  CASE m.op \in {"ack", "take"} -> {m.task}
    [] m.op = "wipe"            -> store[m.place]
    [] OTHER -> Task \ UNION Range(StoreAfter(w, m))
Seen(m) == IF m.op \in {"find", "count"} THEN store[m.place] ELSE {}
UnseenAfter(w, m) ==
  [v \in Worker |-> unseen[v] \ (Excused(w, m) \cup
                                 (IF v = w THEN Seen(m) ELSE {}))]

Executes(w, m) ==
  /\ store' = StoreAfter(w, m)
  /\ fate' = FateAfter(m)
  /\ unseen' = UnseenAfter(w, m)

(* The server executes the first command on w's connection; the reply lets *)
(* w send cmds.                                                            *)
Served(w, op) == alive[w] /\ wire[w] # <<>> /\ Head(wire[w]).op = op
Answer(w, cmds) ==
  /\ Executes(w, Head(wire[w]))
  /\ wire' = [wire EXCEPT ![w] = Tail(@) \o cmds]

------------------------------------------------------------------------------
(* Client calls.  A call the code answers by throwing changes nothing.     *)

Add(w, t) ==
  /\ alive[w] /\ w \in Producers
  /\ ~isShutdown[w]
  /\ fate[t] = "new"
  /\ fate' = [fate EXCEPT ![t] = "sent"]
  /\ Send(w, <<Cmd("add", t, "queue")>>)
  /\ UNCHANGED <<store, unseen, worker, slots, tasks, snapshot, faults>>

Process(w) ==
  /\ alive[w] /\ w \in Consumers
  /\ ~handler[w]
  /\ handler' = [handler EXCEPT ![w] = TRUE]
  /\ UNCHANGED <<isPaused, isShutdown>>
  /\ Send(w, Poll(w))
  /\ UNCHANGED <<server, alive, slots, tasks, snapshot, faults>>

Pause(w) ==
  /\ alive[w] /\ ~isShutdown[w] /\ ~isPaused[w]
  /\ isPaused' = [isPaused EXCEPT ![w] = TRUE]
  /\ UNCHANGED <<server, wire, alive, isShutdown, handler, slots, tasks,
                 snapshot, faults>>

Resume(w) ==
  /\ alive[w] /\ ~isShutdown[w]
  /\ isPaused' = [isPaused EXCEPT ![w] = FALSE]
  /\ UNCHANGED <<isShutdown, handler>>
  /\ Send(w, Poll(w))
  /\ UNCHANGED <<server, alive, slots, tasks, snapshot, faults>>

SearchOrderSlip == <<"queue", "dead", "processing">>
SearchOrder == <<"queue", "processing", "dead">>
FindNext(m) ==
  LET at == CHOOSE i \in 1 .. 3 : SearchOrder[i] = m.place
  IN  IF at = 3 THEN <<>> ELSE <<Cmd("find", m.task, SearchOrder[at + 1])>>

(* Bound: a worker has one search under way at a time.                     *)
Looks(w, cmds, sought) ==
  /\ alive[w] /\ w \in Producers /\ Sent(w, SearchOp) = 0
  /\ Send(w, cmds)
  /\ unseen' = [unseen EXCEPT ![w] = sought \cap UNION Range(store)]
  /\ UNCHANGED <<store, fate, worker, slots, tasks, snapshot, faults>>

RemoveTask(w, t) ==
  fate[t] # "new" /\ Looks(w, <<Cmd("find", t, "queue")>>, {t})

(* For any status and with a limit that the contents do not reach.         *)
GetTasks(w) == Looks(w, <<Cmd("find", None, "queue")>>, Task)

(* The three counts are asked for at once.                                 *)
GetStatus(w) ==
  Looks(w, [i \in 1 .. 3 |-> Cmd("count", None, SearchOrder[i])], Task)

Clear(w) ==
  /\ alive[w] /\ w \in Producers /\ Sent(w, {"wipe"}) = 0
  /\ Send(w, <<Cmd("wipe", None, "queue"), Cmd("wipe", None, "processing"),
               Cmd("wipe", None, "dead")>>)
  /\ UNCHANGED <<server, worker, slots, tasks, snapshot, faults>>

Shutdown(w) ==
  /\ alive[w] /\ ~isShutdown[w]
  /\ isShutdown' = [isShutdown EXCEPT ![w] = TRUE]
  /\ handler' = [handler EXCEPT ![w] = FALSE]
  /\ Send(w, <<Cmd("list", None, "processing")>>)
  /\ UNCHANGED <<server, alive, isPaused, slots, tasks, snapshot, faults>>

------------------------------------------------------------------------------
(* Replies to those calls.                                                 *)

AddReply(w) ==
  /\ Served(w, "add")
  /\ UNCHANGED worker
  /\ Answer(w, Poll(w))
  /\ UNCHANGED <<slots, tasks, snapshot, faults>>

(* The collections are searched in turn until one holds the task; the      *)
(* listing looks for none and goes through them all.                       *)
FindReply(w) ==
  /\ Served(w, "find")
  /\ LET m == Head(wire[w]) IN
     Answer(w, IF m.task \in store[m.place]
               THEN <<Cmd("take", m.task, m.place)>> ELSE FindNext(m))
  /\ UNCHANGED <<worker, slots, tasks, snapshot, faults>>

(* Replies nothing is sent on: of ZREM and LREM in removeTask, of DEL and  *)
(* of the counts.                                                          *)
LastReply(w) ==
  /\ Served(w, "take") \/ Served(w, "wipe") \/ Served(w, "count")
  /\ Answer(w, <<>>)
  /\ UNCHANGED <<worker, slots, tasks, snapshot, faults>>

ListReply(w) ==
  /\ Served(w, "list")
  /\ snapshot' = [snapshot EXCEPT ![w] = store["processing"]]
  /\ Answer(w, IF store["processing"] = {} THEN <<>>
               ELSE <<Cmd("restore", None, "queue")>>)
  /\ UNCHANGED <<worker, slots, tasks, faults>>

RestoreReply(w) ==
  /\ Served(w, "restore")
  /\ Answer(w, <<>>)
  /\ snapshot' = [snapshot EXCEPT ![w] = {}]
  /\ UNCHANGED <<worker, slots, tasks, faults>>

------------------------------------------------------------------------------
(* The chain processNext -> processTask -> handleFailedTask -> processNext.*)

RunImmediate(w) ==
  /\ immediates[w] > 0
  /\ immediates' = [immediates EXCEPT ![w] = @ - 1]
  /\ UNCHANGED worker
  /\ Send(w, Poll(w))
  /\ UNCHANGED <<server, activeCount, tasks, snapshot, faults>>

(* A due task was found: processTask is entered without a second look at   *)
(* the flags or the count.                                                 *)
PollFinds(w, t) ==
  /\ Served(w, "poll")
  /\ RangeReply = "text"
  /\ t \in store["queue"]
  /\ activeCount' = [activeCount EXCEPT ![w] = @ + 1]
  /\ Answer(w, <<Cmd("move", t, "processing")>>)
  /\ UNCHANGED <<worker, immediates, tasks, snapshot, faults>>

(* It polls again at once.                                                 *)
PollFindsNothingSlip(w) ==
  /\ Served(w, "poll")
  /\ Answer(w, <<Cmd("poll", None, "queue")>>)
  /\ UNCHANGED <<worker, slots, tasks, snapshot, faults>>

(* Nothing is due, or the reply is not a string: the error is reported.    *)
PollFindsNothing(w) ==
  /\ Served(w, "poll")
  /\ Answer(w, <<>>)
  /\ Reschedule(w)
  /\ UNCHANGED <<worker, activeCount, tasks, snapshot, faults>>

Count(n) == IF n < MaxStarts THEN n + 1 ELSE n

(* What ZREM answered is not looked at.                                    *)
MoveReplyBlindSlip(w) ==
  /\ Served(w, "move")
  /\ LET t == Head(wire[w]).task IN
     /\ handler[w]
     /\ running' = [running EXCEPT ![w][t] = @ + 1]
     /\ starts' = [starts EXCEPT ![t] = Count(@)]
  /\ Answer(w, <<>>)
  /\ UNCHANGED <<worker, slots, snapshot, faults>>

(* ZREM removed the task and a handler is there to call.                   *)
MoveReply(w) ==
  /\ Served(w, "move")
  /\ LET t == Head(wire[w]).task IN
     /\ t \in store["queue"]
     /\ handler[w]
     /\ running' = [running EXCEPT ![w][t] = @ + 1]
     /\ starts' = [starts EXCEPT ![t] = Count(@)]
  /\ Answer(w, <<>>)
  /\ UNCHANGED <<worker, slots, snapshot, faults>>

(* 'Task was already processed', or the handler is gone since a shutdown:  *)
(* either is treated as a failure of the task.                             *)
MoveReplyLost(w) ==
  /\ Served(w, "move")
  /\ LET t == Head(wire[w]).task IN
     /\ t \notin store["queue"] \/ ~handler[w]
     /\ Answer(w, <<FailureCommand(t)>>)
  /\ UNCHANGED <<worker, slots, tasks, snapshot, faults>>

HandlerResolves(w, t) ==
  /\ running[w][t] > 0
  /\ running' = [running EXCEPT ![w][t] = @ - 1]
  /\ Send(w, <<Cmd("ack", t, "processing")>>)
  /\ UNCHANGED <<server, worker, slots, starts, snapshot, faults>>

HandlerRejects(w, t) ==
  /\ running[w][t] > 0
  /\ running' = [running EXCEPT ![w][t] = @ - 1]
  /\ Send(w, <<FailureCommand(t)>>)
  /\ UNCHANGED <<server, worker, slots, starts, snapshot, faults>>

(* The task is in the queue or among the dead letters again before it      *)
(* leaves the processing list.                                             *)
RequeueOrBuryReply(w) ==
  /\ Served(w, "requeue") \/ Served(w, "bury")
  /\ Answer(w, <<Cmd("clean", Head(wire[w]).task, "processing")>>)
  /\ UNCHANGED <<worker, slots, tasks, snapshot, faults>>

(* The task is off the processing list, completed or not.                  *)
AckOrCleanReply(w) ==
  /\ Served(w, "ack") \/ Served(w, "clean")
  /\ Answer(w, <<>>)
  /\ LeaveSlot(w)
  /\ UNCHANGED <<worker, tasks, snapshot, faults>>

------------------------------------------------------------------------------
(* Failures.                                                               *)

(* The first command on w's connection fails, executed or not.  What then  *)
(* happens is up to the try block it was sent from.                        *)
CommandFails(w) ==
  /\ alive[w] /\ wire[w] # <<>> /\ faults < MaxFaults
  /\ faults' = faults + 1
  /\ LET m == Head(wire[w])
         rest(cmds) == wire' = [wire EXCEPT ![w] = Tail(@) \o cmds]
         given(u) == IF m.op \in SearchOp THEN [u EXCEPT ![w] = {}] ELSE u IN
     /\ \/ store' = StoreAfter(w, m) /\ fate' = FateAfter(m)
           /\ unseen' = given(UnseenAfter(w, m))
        \/ UNCHANGED <<store, fate>> /\ unseen' = given(unseen)
     /\ \/ /\ m.op = "poll"
           /\ rest(<<>>) /\ Reschedule(w) /\ UNCHANGED activeCount
        \/ /\ m.op \in {"move", "ack"}
           /\ rest(<<FailureCommand(m.task)>>)
           /\ UNCHANGED slots
        \/ /\ m.op \in {"requeue", "bury", "clean"}
           /\ rest(<<>>) /\ LeaveSlot(w)
        \/ /\ m.op \in CallOp
           /\ rest(<<>>) /\ UNCHANGED slots
  /\ UNCHANGED <<worker, tasks, snapshot>>

Crash(w) ==
  /\ alive[w]
  /\ alive' = [alive EXCEPT ![w] = FALSE]
  /\ running' = [running EXCEPT ![w] = [t \in Task |-> 0]]
  /\ immediates' = [immediates EXCEPT ![w] = 0]
  /\ activeCount' = [activeCount EXCEPT ![w] = 0]
  /\ unseen' = [unseen EXCEPT ![w] = {}]
  /\ UNCHANGED <<store, fate, wire, isPaused, isShutdown, handler, starts,
                 snapshot, faults>>

(* Of the commands a crashed worker had sent, the server still gets some.  *)
ServeCrashed(w) ==
  /\ ~alive[w] /\ wire[w] # <<>>
  /\ Executes(w, Head(wire[w]))
  /\ wire' = [wire EXCEPT ![w] = Tail(@)]
  /\ UNCHANGED <<worker, slots, tasks, snapshot, faults>>

Disconnect(w) ==
  /\ ~alive[w] /\ wire[w] # <<>>
  /\ wire' = [wire EXCEPT ![w] = <<>>]
  /\ UNCHANGED <<server, worker, slots, tasks, snapshot, faults>>

------------------------------------------------------------------------------
(* The deployment.  One that limits its consumers starts another only when *)
(* the last command of the one before it has been served or cut off.       *)
Consuming(w) ==
  (alive[w] /\ handler[w]) \/ wire[w] # <<>> \/ Handling(w) > 0
MayConsume == Cardinality({v \in Consumers : Consuming(v)}) < MaxConsumers

(* Bound: a call that starts a chain comes when there is room for it.      *)
ClientCall(w) ==
  \/ Room(w) /\ \E t \in Task : Add(w, t)
  \/ Room(w) /\ MayConsume /\ Process(w)
  \/ "pause" \in Calls /\ Pause(w)
  \/ "resume" \in Calls /\ Room(w) /\ Resume(w)
  \/ "shutdown" \in Calls /\ Shutdown(w)
  \/ "remove" \in Calls /\ \E t \in Task : RemoveTask(w, t)
  \/ "list" \in Calls /\ GetTasks(w)
  \/ "status" \in Calls /\ GetStatus(w)
  \/ "clear" \in Calls /\ Clear(w)

Serve(w) ==
  \/ AddReply(w) \/ FindReply(w) \/ LastReply(w)
  \/ ListReply(w) \/ RestoreReply(w)
  \/ \E t \in Task : PollFinds(w, t)
  \/ PollFindsNothing(w)
  \/ MoveReply(w) \/ MoveReplyLost(w)
  \/ RequeueOrBuryReply(w) \/ AckOrCleanReply(w)

HandlerSettles(w, t) == HandlerResolves(w, t) \/ HandlerRejects(w, t)

Fail(w) ==
  \/ CommandFails(w)
  \/ "crash" \in Calls /\ Crash(w)
  \/ ServeCrashed(w)
  \/ Disconnect(w)

Next ==
  \E w \in Worker :
    \/ ClientCall(w)
    \/ Serve(w)
    \/ RunImmediate(w)
    \/ \E t \in Task : HandlerSettles(w, t)
    \/ Fail(w)

Spec == Init /\ [][Next]_vars
------------------------------------------------------------------------------
(* Invariants.                                                             *)

SlotOp == {"move", "ack", "requeue", "bury", "clean"}

(* activeCount never drifts from the calls that hold a slot, whatever      *)
(* commands fail and whatever happens to the tasks meanwhile.              *)
SlotsAccounted ==
  \A w \in Worker : alive[w] =>
    activeCount[w] = Handling(w) + Sent(w, SlotOp)

(* A worker that may consume keeps polling: calls that find all slots      *)
(* taken give up, as do those that end in a pause, but some call of        *)
(* processNext is always left that will reschedule itself, also when       *)
(* commands fail.  Of a worker with no slots at all it does not hold.      *)
PollingGoesOn ==
  \A w \in Worker :
    alive[w] /\ handler[w] /\ ~isPaused[w] /\ ~isShutdown[w] => Chains(w) > 0

Carried(w, t, ops) ==
  \E i \in DOMAIN wire[w] : wire[w][i].task = t /\ wire[w][i].op \in ops
HeldBy(w, t) == running[w][t] > 0 \/ Carried(w, t, {"ack", "requeue", "bury"})
Held(t) == \E w \in Worker : HeldBy(w, t)
Stored(t) == \E p \in Place : t \in store[p]

(* An accepted task is in one of the three collections or some worker will *)
(* still put it there or finish it, also when workers race for it or one   *)
(* of them shuts down.  It is stated of runs in which no command fails and *)
(* no worker crashes: with two consumers a failing command may lose a task *)
(* that the one puts back while the other takes it.                        *)
NothingLost == \A t \in Task : fate[t] = "open" => Stored(t) \/ Held(t)

(* At every moment the server alone knows of every unfinished task, so a   *)
(* crash of the worker that handles it loses nothing.  It is stated of a   *)
(* deployment with one consumer at a time that adds no tasks itself.       *)
Durable == \A t \in Task : fate[t] = "open" => Stored(t)

(* However many workers and calls find a task due at once, and whatever    *)
(* commands fail or workers crash, a task that is not to be retried is     *)
(* handled at most once, until a shutdown puts the tasks being processed   *)
(* back.  (One that is retried may even be handled twice at a time: the    *)
(* call that loses the race for it puts it back at once.)                  *)
Unretried == {t \in Task : MaxRetries[t] <= 1}
NobodyShutDown == \A w \in Worker : ~isShutdown[w]
HandledOnce == NobodyShutDown => \A t \in Unretried : starts[t] <= 1

(* What removeTask, getTasks and getStatus look at changes under them, and *)
(* still no task that is not to be retried escapes them: they read the     *)
(* collections in the order in which it passes through them, and it is in  *)
(* the next one before it leaves one.                                      *)
Missed(w) == IF Sent(w, {"find", "count"}) = 0 THEN unseen[w] ELSE {}
SearchSees ==
  NobodyShutDown => \A w \in Worker : Missed(w) \cap Unretried = {}

------------------------------------------------------------------------------
(* The contract of the Queue interface.                                    *)

(* A task that has ended and may yet run again has none of the interface's *)
(* statuses.                                                               *)
StatusOf(t) ==
  CASE fate[t] \in {"new", "sent"} -> "new"
    [] fate[t] = "open"            -> IF Held(t) THEN "active" ELSE "waiting"
    [] OTHER -> IF Held(t) \/ t \in store["queue"] THEN "revived" ELSE fate[t]

(* As long as no command has failed and no client has removed a task that  *)
(* had not ended, every step is one the interface allows, also when        *)
(* workers crash: see TaskLifecycle.                                       *)
Lifecycle == INSTANCE TaskLifecycle
  WITH Slots <- Concurrency * MaxConsumers,
       status <- [t \in Task |-> StatusOf(t)]
Undropped == \A t \in Task : fate[t] # "dropped"
ImplementsLifecycle ==
  Lifecycle!Init /\ [][faults' = 0 /\ Undropped' => Lifecycle!Next]_vars

------------------------------------------------------------------------------
(* Liveness.  The server answers, the event loop runs what is due and the  *)
(* user's handlers settle.                                                 *)

Fairness ==
  \A w \in Worker :
    /\ WF_vars(Serve(w))
    /\ WF_vars(RunImmediate(w))
    /\ \A t \in Task : WF_vars(HandlerSettles(w, t))

(* A waiting task becomes due, and the scores of those taken before it and *)
(* put back are later than its own.                                        *)
ScoresAdvance ==
  \A w \in Worker, t \in Task : SF_vars(PollFinds(w, t))

FairSpec == Spec /\ Fairness
DueSpec == FairSpec /\ ScoresAdvance

(* A paused worker comes to rest: no chain of calls survives the pause,    *)
(* whatever it was in the middle of.                                       *)
PauseSettles ==
  \A w \in Worker :
    []([](alive[w] /\ isPaused[w]) => <>[](Chains(w) = 0))

(* A task in the queue of a worker that stays open is handled, as          *)
(* redis.integration.spec.ts:19 "should add and process a task" expects,   *)
(* unless a client removes it or a command fails and it is buried unseen.  *)
Open(w) == alive[w] /\ handler[w] /\ ~isPaused[w] /\ ~isShutdown[w]
AddedIsStarted ==
  \A w \in Worker, t \in Task :
    (t \in store["queue"] /\ []Open(w)) ~> (starts[t] > 0 \/ fate[t] # "open")

------------------------------------------------------------------------------
(* What a comment says and the code does not do: it is violated.           *)

(* queue.interface.ts:103 "Lists tasks in the queue": no task that has not *)
(* ended is left out, wherever it is moved to while the collections are    *)
(* read.                                                                   *)
SearchComplete ==
  \A w \in Worker : \A t \in Missed(w) : fate[t] # "open"

(* task.interface.ts:45 "Maximum number of retry attempts".                *)
RetriesBounded == \A t \in Task : starts[t] <= 1 + MaxRetries[t]
==============================================================================
