# Verification of nestjs-task-queue

TLA+ models of the task queues of this repository, the TLC runs that check
them on small instances, and TLAPS proofs for all instances. The
implementation is the `src/` directory of the repository (24 TypeScript
files); `PROJECT.json` maps each definition to the lines it models.

## The system

| component | state | operations | talks to |
|---|---|---|---|
| `Queue` interface (`queue.interface.ts`, `task.interface.ts`) | a task waits, is handled, waits for a retry, ends | `add process pause resume removeTask clear shutdown` | implemented by the three queues |
| `MemoryQueue` (`memory.queue.ts`) | sorted array of waiting tasks, map of processing tasks, `activeCount`, flags, handler | the same, plus timers and `setImmediate` callbacks | the user's handler and listeners, the event loop |
| `RedisQueue` (`redis.queue.ts`) | per process: flags, handler, `activeCount`; in Redis: sorted set of waiting tasks, lists of processing tasks and dead letters | the same; each is a sequence of Redis commands | Redis, other processes through it |
| `RabbitMQQueue` (`rabbitmq.queue.ts`) | flags, handler, channel, consumer tag; in the broker: queue, unacknowledged deliveries | the same, as publish, consume, ack, nack, get, cancel | the broker |
| `TaskQueueService` | maps of queues and of handlers | module init and destroy hooks, `addTask`, `pauseQueue`, `resumeQueue` | factory, queues, logger |
| `QueueFactoryService` | map of queues, shared connections | `createQueue`, destroy hook | Redis, RabbitMQ, queues |
| `RedisLock` (`redis-lock.util.ts`) | one Redis key with expiry per lock | `acquire release withLock extendLock` | Redis |
| metrics, Prometheus, logger, middleware, health, decorator, errors, enums, constants, module | counters or nothing | read and print | listeners |

What makes the queues hard:

* MemoryQueue runs on one event loop, so a synchronous stretch of code is
  atomic, but executions overlap at every `await`. A failed execution keeps its
  slot while it waits for its retry, adds the task again itself, and only then
  reaches its `finally` block, when the retry may already be running. Removal,
  pause, clear and shutdown can fall between any two of these.
* RedisQueue has several processes and, in each, several chains of
  `processNext` calls at once. Flags and counter are read before an await and
  used after it. A task moves between three collections in separate commands,
  each of which can fail, executed or not, and a process can crash between any
  two.
* The scores that order the waiting tasks in Redis mix due time and priority, and
  a task gets a new one each time it is put back.
* RabbitMQQueue has the same races with acknowledgements and redelivery; its pause
  and resume depend on a consumer tag that arrives later.
* The services have asynchronous initialisation and two destroy hooks that run
  over shared connections; the lock has an expiry that races its holder.

The properties that make each component correct:

* queues: a task is never lost, never waits or runs twice at once, ends once
  and stays ended; slots are counted exactly; nothing starts while the queue is
  paused or shut down; attempts are bounded; the best task starts first; no task
  starves; a listing shows what is there; as long as the queue is open every task
  ends;
* services: a task reaches the handler it is for; each queue is shut down, and
  before its connection is;
* lock: one holder at a time until expiry, nobody releases another's lock.

`PROJECT.json` lists the hazards line by line, with the properties that cover
them.

## Modules

* `TaskLifecycle` is the abstract specification: what the interface promises
  about each task. Its only variable is the status of every task; a step
  starts at most one task and never uses more than `Slots`. `MemoryQueue` and
  `RedisQueue` are checked to implement it.
* `Lease` is the abstract specification of the lock: a session waits, owns the
  lock at most once and is done; there is one owner, and nobody else relies on
  the lock. `RedisLock` is checked, and proved, to implement it.
* `MemoryQueue` models `memory.queue.ts`. A step is a synchronous stretch of
  code. A call of `processNext` that takes a task becomes a *frame*, a record in
  `frames` with the task, its retry count and what it awaits: the handler, the
  retry timer (`backoff`), or only its `finally` block (`ending`; `rejecting`
  when the add after the timer has thrown). `caught` remembers whether the
  caller attached a `.catch`, since an unhandled rejection ends the process
  (`crashed`). Every client call is an action, `ProcessNext` is the operator all
  of them end with, and `Ahead`/`Enqueue` model the push and the stable sort.
  An operator whose result depends on the flags reads them primed, because the
  code sets them before it calls `processNext`.
* `RedisQueue` models `redis.queue.ts`. Each worker has a FIFO `wire` of
  commands that Redis has not answered. A step serves the first of them: it
  changes `store` and continues the code that awaited the answer to its next
  command. So `PollFinds`, `MoveReply`, `RequeueOrBuryReply` and so on are the
  stretches of `processNext`, `processTask` and `handleFailedTask` between
  awaits. What a suspended call is waiting for is all that is kept of it: a
  command on the wire, a handler that is `running`, or a due `setImmediate`.
  `getTasks`, `getStatus` and `removeTask` look through the three collections in one
  command each (`Looks`, `SearchOrder`, `FindNext`), while tasks move from one to
  the next; the history `unseen` holds the tasks that a search still has to come
  across, without those that are completed or removed or leave the server meanwhile
  (`Excused`). A task that is put back in the queue stays on it: `SearchSees` holds
  only of tasks that are not to be retried, and `SearchComplete`, which speaks of
  all, is violated.
  `CommandFails` models an error reply and a lost reply alike, at each command,
  with what the enclosing catch and finally blocks do; `Crash`, `ServeCrashed`
  and `Disconnect` are a process that dies with commands on its connection, of
  which Redis executes a prefix.
* `RedisSchedule` models the order in which a Redis queue hands out tasks:
  `calculateScore`, the poll for the first task that is due, and every command
  that writes a score (`add`, the retry, the way back at a shutdown). `due` is the
  score reckoned from the present, which a `Tick` decreases. Of the scores below
  all that can still be written only the order matters, so `Tick` closes the gaps
  between them, and the states are finite although time is not bounded.
* `RabbitMQQueue` models `rabbitmq.queue.ts` and, as an external part, the
  broker: the queue `ready`, what each channel holds (`unacked` of its consumer,
  `got` by `basic.get`), and a FIFO `out` of frames per channel. Deliveries that
  the broker has pushed and the client has not seen are in `arriving`. `Retried`
  is the republished message with its count in the header, `FailureFrames` the
  order of publish and acknowledgement. A process that settles a delivery after
  its `shutdown` closed the channel ends (`SettlesTooLate`).
* `RedisLock` models `redis-lock.util.ts` on one key. A session is one call of
  `acquire` or `withLock`. Time is a countdown, decremented by `Tick`. `hope`
  and `sure` are history: the time a session may count on, reckoned from the
  moment it *sent* the command that won or extended the lock.
* `QueueService` models `queue-factory.service.ts` and `task-queue.service.ts`:
  the init hook, `createQueue`, `addTask`, `pauseQueue` and `resumeQueue`, and the
  destroy hooks. `call` is where each call of `createQueue` stands, `closing`
  where each queue's shutdown stands, and `wire` the commands on the Redis
  connection that all queues share. Of the queues themselves it keeps the
  handler, whether they are paused, a task that `waiting` and `handledBy` follow
  to a handler, and the awaits of `shutdown`.
* `MC...` modules define the small instances.
* The theorems are in `MemoryQueueProofs` (types, slots, single copies) and
  `MemoryQueueContract` (nothing lost, wake-ups, what may start, the refinement of
  `TaskLifecycle`), `RedisQueueProofs` (types, slots, polling) and
  `RedisQueueContract` (nothing lost, handled once, searches, durability),
  `RabbitMQQueueProofs`, `RedisScheduleProofs`, `QueueServiceProofs` and
  `RedisLockProofs`.

Names that end in `Slip` are plausible mistakes in the definition they stand in
front of (a dropped guard, an off-by-one, a copy where there should be a move).
No specification uses them. Putting one in the place of the definition it
belongs to makes a run fail; `mutants` in `PROJECT.json` says which property of
which run notices it, so every property is known to be able to fail.

### What is abstracted

* Time: a retry timer may fire at any moment after it was set, a waiting Redis
  task may or may not be due. Scores are in `RedisSchedule`, which has one chain of
  calls per worker, commands that do not fail and are answered within a second,
  and times in seconds; the races between commands are in `RedisQueue`. RabbitMQ ignores the `x-delay` header on the exchange types the
  code declares, so a retry there waits like any other message.
* Payloads, names, events and logging, and the `limit` of `getTasks`. The listeners are taken not to throw,
  and handlers not to call back into their queue other than as a client.
* Tasks in Redis are one unchanging string each, so collections are sets: the
  processing *list* may hold a string twice, but the only commands that remove
  one remove all copies (`LREM key 0`).
* Each task is submitted once; in Redis `add`, `process` and `resume`, each of which
  starts a chain of `processNext` calls, are called only while the worker has
  fewer than `MaxChains` of them under way (`Room`, in `ClientCall`; the actions
  themselves have only the code's guards). A worker has one search under way at
  a time, and in RabbitMQ one purge and cancel.
* A call the code answers with an exception leaves the state alone and has no
  action.
* `RangeReply`: the code expects the poll's `MULTI` to answer with a string, and
  ioredis answers with an array. The runs take `"text"`, the reply the code is
  written for, so that the rest can be checked at all;
  the run `redis_reply` takes `"list"` and shows that then nothing is ever
  started.
* The Redis models have assumptions about the deployment that are not code:
  `MayConsume`, in `ClientCall`, lets `MaxConsumers` workers consume at a time.
  In the run with crashes that is one, its successor starts when the last command
  of the old one has been served or its connection has been dropped (`Consuming`),
  and consumers do not add tasks. Without this a late `LREM` of a crashed worker,
  or of another chain, removes an entry that is still needed, and `Durable` fails.
* `RabbitMQQueue` starts with workers that are connected and have asserted the
  queue, that is, with objects made by `RabbitMQQueue.create`. The factory's
  RabbitMQ queues never set a channel (queue-factory.service.ts:97), so their
  `add` throws and nothing further happens to them. `add` resolves before the broker
  has the message (the confirmation of the channel is not awaited), so a task counts
  as accepted when the broker takes it. A concurrency of 0 would mean an
  unlimited prefetch and is excluded. Only a process that ended loses its
  connection: nothing listens for the `error` of an amqplib connection, so a
  living one that loses it ends. Acknowledgements that overtake a
  synchronous call in amqplib's RPC queue are sent in program order.
* In `QueueService` clients start when the initialisation is over, as Nest opens
  the application after the init hooks. Nest calls the destroy hooks of a
  module's providers without waiting in between, in the order of the providers
  (nestjs-task-queue.module.ts:19-20), each up to its first await.
  The task that a handler is for is one task, sent by one client (`Used`). The
  RabbitMQ connection is one flag, so of two that overlapping calls open only the
  one the factory keeps is followed.

## Runs

Passing runs:

| run | instance | what it shows |
|---|---|---|
| `memory` | 4 tasks of 2 priorities and up to 2 attempts, two of which share an id and one of which has the empty id; 2 slots; pause, remove, clear, shutdown; 127,646 states | types; slot accounting; one live copy of each task; no task lost; no lost wake-up; the processing map lists no ghost; the best task starts first; nothing starts while closed; the queue implements `TaskLifecycle`; every accepted task ends if the queue stays open and no task without an id swallowed a wake-up |
| `redis_faults` | 2 tasks, one retried and one not; one worker adds, lists and removes them, 2 consume in turn; crashes, 1 failing command; 1,392,858 states | types; slot accounting; every unfinished task is in Redis; no search misses a task that is not to be retried; implements `TaskLifecycle` until a command fails or an unfinished task is removed |
| `redis_shared` | the same 2 tasks, 2 workers that both add and consume, 2 chains of calls each on 1 slot; shutdown; 2,257,475 states | slot accounting; no task lost; until a shutdown a task that is not to be retried is handled once |
| `redis_liveness` | the same 2 tasks, 1 worker that adds and consumes, 2 chains of calls on 1 slot, 1 failing command; pause, resume, clear; 100,697 states | polling goes on; a pause ends every chain of calls; a waiting task is handled or, after a failing command, a dead letter |
| `redis_schedule` | 3 tasks of different delays, priorities and limits, 2 workers, shutdowns; 94,990 states | no task starves, however often others overtake it; none is handled before it is due |
| `rabbit` | 1 task, 2 workers: one publishes, removes, lists, shuts down, registers its handler again and crashes, the other is paused, purges and shuts down; 212,383 states | types; the broker alone has a message of every unfinished task; a delivery is settled once; retry counts survive every detour, for a limit above 0; no copies unless a process ends; accepted tasks end; a shutdown gives everything back |
| `redis_lock` | 2 sessions, times to live 1 to 3, 2 attempts; 21,326 states | types; leases hold; nobody unlocks somebody else's lock; the lock implements `Lease`; a lock ends |
| `queue_service` | up to 2 handlers on 2 names, 2 clients, 1 failure; 632,314 states | types; a task reaches the handler it is for; the destroy hooks find every queue, cut no shutdown off from Redis, and end |

Bounds. In memory, three tasks on two slots are the least with a task that must
wait, two that run and one that overtakes; the fourth has the empty id. A limit
of two attempts gives a retry and a final failure, and a limit of 1 or 0 fails at
once. In Redis two
workers with two chains each give the races between chains of one worker and
between workers, for a task that is retried and for one that is buried on its
first failure; two chains on one slot let calls find every slot taken; the failing
command can be any, also one of the code that handles a failed task. In `redis_schedule` one task waits, one overtakes it and is retried
with no delay, and one is delayed by more than its priority; two workers lose
races to each other. In RabbitMQ one task with a limit of two is published,
retried and buried, on its way through both workers, of which each has calls of
its own (`CallsOf`); a search checks `MaxChecks = 2` messages, so it also ends by
its limit. Times to live of 1 to 3 let an extension shorten and prolong the lock.
Two names and two handlers give two queues as well as one queue with two
handlers; two clients overlap in one `createQueue`, for a queue of each type
(`Asked`), and one of them shuts a queue down (`MaxCloses = 1`). `MaxChains`,
`MaxFaults`, `MaxChecks`, `MaxHandlers`, `MaxCloses` and `MaxStarts` (where a
history counter of handler calls saturates) are the only counters that are
capped, apart from `MaxAttempts`, which is the code's own, and `age`, which counts
up to a task's delay.

With two consumers *and* a failing command the Redis `NothingLost` does not
hold (see the divergences). `redis_shared` therefore takes `MaxFaults = 0`, and
`redis_faults` one consumer. After a failing command a task can also stay on the processing
list for good, and so can a crashed worker's; `Durable` says that it is there,
and no property says that somebody takes it from there, because no code does.

Fairness. `MemoryQueue!LoopFairness`: a due `setImmediate`, a set timer and a
`finally` block run eventually, as the event loop guarantees. `HandlersSettle`
is the user's part: handlers settle. `RedisQueue!Fairness`: the server answers,
the event loop runs, handlers settle. `ScoresAdvance` is strong fairness of
finding a particular waiting task: its due time is fixed, while each task that
goes back to the queue gets a later one, so it comes first in the end. That this
follows from the scores is what `NoStarvation` of `RedisSchedule` shows, from
`FairSpec` there: time passes and each worker takes its next step, whichever task
a poll finds. `RabbitMQQueue!Fairness`:
the broker reads each channel, delivers, and notices that a process ended; callbacks
run and handlers settle. `Deliver` is strongly fair because a search that gets
messages and puts them back empties the queue for moments again and again, and
the broker gives a returned message to a consumer that waits for it. `RedisLock!Fairness`: time passes, Redis executes what
it is sent, timers fire; `Release` is strongly fair because the function given
to `withLock` ends although it may extend the lock any number of times before.
`QueueService!FairSpec`: the event loop runs, Redis answers and an open queue
hands its task to its handler; no client has to do anything, and the broker need
not answer.

Violations. These runs check what a comment, an interface or a test says and
the code does not do; `findings` quotes the lines.

| run | what TLC shows |
|---|---|
| `redis_retries` | the stored retry count never grows, so a failing task is retried for ever |
| `redis_reply` | with ioredis's actual reply no task is ever started |
| `redis_search` | a listing misses an unfinished task: after the listing has read the queue the handler fails and the task goes back there, and before it reads the processing list the task is taken off that |
| `rabbit_resume` | `resume` of a paused queue throws, and nothing is consumed any more |

`CHECK_DEADLOCK FALSE` everywhere but in `RedisLock` and `RedisSchedule`, where
time always passes:
the queues and services stop when all tasks have ended and clients make no
further calls.

### Divergences seen while modelling, without a run

What the code does at these places is in the models; the properties are stated
so that they hold with it.

MemoryQueue:

* `maxRetries` counts attempts, not retries (memory.queue.ts:131).
* A task that is removed while it is handled or backs off is retried all the
  same and so comes back (memory.queue.ts:243).
* A retry timer that fires after shutdown makes `add` throw; if the execution was
  started by `setImmediate` nobody catches that, and the process ends.
* A task with an empty id is dropped and its caller's wake-up with it.
* The `finally` block of a failed attempt takes the map entry of the retry that
  is already running (memory.queue.ts:119).
* `timeout` is never enforced, and `queue:drained` is emitted in a branch that
  `shouldSkipProcessing` makes unreachable.

RedisQueue:

* Two polls under way pass the concurrency check together.
* Of two chains that read the same task the loser of the move pushes it on the
  processing list, takes it for failed and puts it back in the queue while the
  winner handles it (redis.queue.ts:168-176), so a task that is to be retried may
  be handled twice at once. A task without retries is pushed on the dead letters
  instead, while it is handled (`HandledOnce` says that it is not handled again).
* With two consumers, or two chains in one, and a failing command a task may be
  lost: the late `LREM` of one erases the processing entry of the other, whose
  `ZADD` then fails (redis.queue.ts:209, 222).
* A poll that was sent before a pause starts its task after it.
* A task removed while it is handled may be put back, and one whose handler
  succeeded is retried when the reply to `LREM` is lost.
* The clean-up of one attempt erases another's processing entry, and a shutdown
  puts back tasks that are being handled, by any worker.
* A point of priority counts as a second of delay, so a task is handled before the
  "Delay before processing" (task.interface.ts:52) of its own that its priority
  outweighs (redis.queue.ts:228). `NotBeforeDue` says by how much.
* A worker that is shut down between the two commands of a poll takes the task for
  failed; one without retries becomes a dead letter that no handler has seen
  (redis.queue.ts:180, `BuriedUnseen`).
* `removeTask` reports a success when its `ZREM` or `LREM` found nothing any more.

RabbitMQQueue:

* A limit of 0, which task.interface.ts:45-47 allows ("@minimum 0"), is taken for
  not given and becomes the default of 3: `||` where RedisQueue has `??`
  (rabbitmq.queue.ts:219). `Limit` models it, and `RetriesBounded` speaks of limits
  above 0.
* After a shutdown that left the channel open `process` may be called again, since
  rabbitmq.queue.ts:161-167 checks only the handler and that there is a channel: it
  consumes, and ignores every delivery.
* A shutdown before the answer to `consume` leaves the consumer and the channel
  open.
* Deliveries that arrive during a pause or after a shutdown are neither handled
  nor rejected; they stay with the channel (`Stuck`).

Services:

* "Queue name this handler should listen to" (task-handler.decorator.ts:32): a
  second handler that names the same queue does not, `process` refuses it
  (redis.queue.ts:117) and the initialisation fails half way
  (task-queue.service.ts:150).
* Two overlapping calls of `createQueue` for one key make two queues, of which
  the factory forgets one; two overlapping RabbitMQ calls open two connections.
* A queue a client creates while the destroy hooks run is never shut down.
* The name a handler gives (task-handler.decorator.ts) is not compared with that of
  the task: the one handler of a queue gets all of its tasks.
* A client that shuts a queue down without waiting and closes the application may
  find the connection closed in between (`NothingStranded` excludes those queues).

## Proofs

Every theorem is about all values of the constants that the assumption named in
the module allows, and nothing else, where no further condition is given. What
the assumptions add to the types of the constants is that there are finitely many
workers, names and clients, and that a sentinel (`None`) is not an element.

`MemoryQueueProofs`, for any set of tasks, ids (shared, own or empty),
priorities, retry limits, allowed calls and concurrency:

* `TypeCorrect`: `Spec => []TypeOK`;
* `SlotsAreAccounted`: `Spec => []SlotsAccounted`;
* `CopiesAreSingle`: `Spec => []SingleCopy`.

They follow from one inductive invariant, `IInv` (theorem `Invariance`).
`SlotsAccounted` is not inductive: `activeCount` is a number and `frames` a set
of records, and the set would lose an element if an execution ever became equal
to another one. Two executions of one task are told apart by their retry count,
because a task has one live copy at most and later attempts have higher counts;
that is `SingleCopy`. It needs in turn that a task that was never submitted is
nowhere. `IInv` joins the three, with the types, as a predicate of a list, a
set of executions and the fates (`Sound`), since `ProcessNext` is called on a
list the caller has already changed. `EnqueueShape` and `RemoveAtShape` say
what the two list operations do; the other lemmas have one action each.

`MemoryQueueContract` adds what the queue promises:

* `NoTaskIsLost`: `Spec => []NothingLost`, and `NoGhosts`:
  `Spec => []NoGhostProcessing`;
* `WakeupsAreKept`: `Spec => []NoLostWakeup`, if `Concurrency > 0` (with no slot
  at all the code never calls itself again, and nothing can start anyway);
* `OnlyWhenOpen`: `Spec => StartsOnlyWhenOpen`, and `TheBestStarts`:
  `Spec => StartsBest`;
* `Implements`: `Spec => ImplementsLifecycle`.

Its invariant `CInv` joins `IInv` with three facts, again of a list, a set of
executions and the fates (`Good`): an accepted task that has not ended has a
copy; the list is sorted by priority; the processing map has the ids of
executions only. That the list stays sorted is the work of `EnqueueSorted`: the
code pushes and sorts, and a stable sort of a list with one new last element
puts it behind the elements that are not less urgent. The refinement maps a task
to the status its fate and its copies give it (`StatusOf`): `NextMoves` shows
that a step moves each task as the interface allows, `NextActivates` that it
starts one task at most, and `ActiveBounded` that no more than `Concurrency`
tasks are active.

`RedisQueueProofs`, for any number of workers, chains of calls, failing
commands and crashes:

* `TypeInvariance`: `Spec => []TypeOK`;
* `SlotsNeverDrift`: `Spec => []SlotsAccounted`;
* `PollingNeverStops`: `Spec => []PollingGoesOn`, if `Concurrency > 0`.

A counter on one side and a number of handler calls and of commands on a wire on
the other stay equal only if each step moves both alike. `MInv` (theorem
`MetersInvariance`) says it of meters that are sums over the wire, and the lemmas
say for every handler and reply which meter it moves and by how much: taking the
first command off a wire and adding others (`CountHead`, `CountConcat`), and
adding or removing a handler call (`CallsMore`, `CallsLess`). `PollingGoesOn`
uses them: a call of `processNext` that finds no slot ends because `activeCount`
is positive, and then by `SlotsAccounted` a handler or a command that holds the
slot is under way, which polls again when it is over (`GoingOn`). `LoneMove` says
when a worker has one call of `processNext` at a time; `RedisQueueContract` uses it.

`RedisQueueContract`:

* `TasksAreKept`: `Spec => [](Undisturbed => NothingLost)`: as long as no command
  has failed and no worker crashed, for any number of consumers and chains;
  `SharedTasksAreKept` is `Spec => []NothingLost` for `MaxFaults = 0` and no
  crashes, which is what `redis_shared` checks. The invariant is `Kept`: besides
  the places a task may be in, it has the commands that are going to put it back.
* `NobodyHandlesAgain`: `Spec => []HandledOnce`, for any number of consumers and
  chains, failing commands and crashes. Nothing puts back a task that is not to be
  retried (`RetriesPutBack`), and while it waits it has not been handled and is in
  the queue only (`OnceOnly`); a handler is called by the call whose `MULTI` took
  the task out of the queue (`Taken`), and there is one of those. That it enters the
  queue once needs that each addition is sent once, by one worker (`AddsSent`, with
  `AddsApart` for the order on the wire), and that a task still to be added is
  nowhere (`Untouched`). A shutdown puts tasks back that are being handled, so these
  facts are claimed until there is one. `BInv` joins them; `NextMoves` says what any
  step does to the commands, the handler calls and the server (`Moves`).
* `SearchesMissNothing`: `Spec => []SearchSees`, for any number of consumers and
  chains too, whatever commands fail, processes crash and clients remove or
  clear. A task that is not to be retried goes on from the queue to the processing
  list and from there to the dead letters, and `QInv` says that each search looks at
  the collections in that order (`Orderly`), so that the task of an unfinished
  search is in a place that the search has still to look at (`StillAhead`). The `LREM`
  after a burial may remove it from a place that a search was yet to read, and then
  it is among the dead letters, which are read last: that it cannot be back in the
  queue instead is `OnceOnly` of `BInv`. `SendSearches`, `AnswerSearches` and
  `LooksSearches` say what the replies do to the order, `SoughtStays` what a
  command can do to a task that is looked for. Of a retried task the theorem would
  be false: see `redis_search`.
* `TheServerKnows`: `Spec => []Durable`, with any failing commands and crashes, for
  one consumer at a time (`MaxConsumers = 1`) that adds no tasks itself
  (`Producers \cap Consumers = {}`) and that nobody resumes or shuts down. Such a
  consumer has one chain of calls, because only `process` starts one: that is proved
  (`LoneNext`), for any `MaxChains`. With a second chain
  and a second slot, or a second consumer, the code does let a task exist in the
  memory of a worker alone; shutdowns are left out of the proof. The invariant `AInv`
  says besides that all workers' calls together have one thing under way
  (`OneChain`), and that a late command of a worker that is gone finds its task where
  it expects it (`CleansBehind`).

`RabbitMQQueueProofs`, for any number of workers and tasks, with crashes,
purges and shutdowns:

* `TypeInvariance`: `Spec => []TypeOK`;
* `RetriesStayBounded`: `Spec => []RetriesBounded`;
* `SettlingIsSafe`: `Spec => []SettledOnce`;
* `TasksAreKept`: `Spec => []NothingLost`;
* `CopiesAreSingle`: `Spec => []SingleCopy`.

`Typed` says that every message anywhere, also in a frame on its way, has a
retry count below the limit (`Sound`), which is what `RetriesBounded` needs to be
inductive. `HInv` adds that each message is in one place of the broker
(`Placed`), and for each worker that the frames it has sent are in order
(`Orderly`: each message is settled once, the acknowledgement of a failed
attempt follows the retry it published, nothing follows a close), that they settle
what its channel holds (`Owned`), and that what it handles or is to handle is not
settled already (`Attended`). `NothingLost` is not inductive either: the
acknowledgement of a failed attempt removes a message, and the retry is another
one. `Unspent` says that an unfinished task has a message that is not the one
whose acknowledgement comes next on some wire; since the broker takes the retry
that was published before the acknowledgement first, the step that spends one
message always leaves the other. `SingleCopy` counts messages and frames; `Alone`
says the same without counting, so that each step has one effect on each task
(`Does`): it is added, stays, is put in a frame or comes out of one, or is over.

`RedisScheduleProofs`, for any delays, priorities, limits and workers:

* `DelaysAreKept`: `Spec => NotBeforeDue`.

Its invariant `DInv` says that the score and the age of a waiting task together
are no less than its delay with the priority taken off, or the delay of its first
attempt is over: it survives `Tick`, because
time takes no more from a score than it adds to the age, and closing the gaps
between the scores can only raise one beyond that (`OfTwo`, `LowestType`).

`QueueServiceProofs`, for any number of names, handlers, clients and failures:

* `TypeInvariance`: `Spec => []TypeOK`;
* `NobodyIsStranded`: `Spec => []NothingStranded`;
* `EverythingIsShutDown`: `Spec => ClosesAll`.

`SInv` (theorem `ServiceInvariance`) says where a call of `createQueue` can
stand (`Calling`), that during the initialisation there are only the service's
queues (`Early`), that a shutdown has one command on the shared connection at
most and was begun by a client or is awaited by the factory's hook (`Wired`),
that the connection is quit after the awaited shutdowns (`Ending`), and that
until the hooks run the factory holds what the service holds, and every open
queue but one that is to be stored or has a double (`Mapped`). The last is why
the factory's hook may leave nothing to the service's.

`RedisLockProofs` proves, for any number of sessions, any positive times to
live and any number of attempts, from `LockAssumption` alone:

* `TypeCorrect`, and `LeasesHold`: `Spec => []LeaseHolds`;
* `Exclusion`: two sessions never both count on the lock;
* `NobodyElseUnlocks`: `Spec => OthersUntouched`;
* `NothingRevives`: `Spec => NoRevival`, a lock that ran out comes back only by a
  new acquire;
* `LockImplementsLease`: `Spec => ImplementsLease`.

`LeaseHolds` is not inductive: that the key still holds the session's id while
its time runs needs that the key's own time is not shorter (`sure <= left`),
which an extension under way would break if its time did not bound the
caller's; and that no two sessions hold the key needs that a held key has time
left. `LockInv` (theorem `Invariance`) adds these. The action properties follow
from one case per action, with `EffectKeepsKey` for the three commands. The
refinement maps a session to the owner as long as the key holds its id, and to
done when its id can no longer get there. It needs one more invariant,
`OwnerInv`: an id that has been in the key is not written a second time. With it
each step is a step of `Lease` or a stutter.

Each other safety and action property that a run checks is the subject of a theorem,
some under conditions on the constants that the theorems name, because
the code keeps them only there: `Durable` for one consumer at a time, the
`NothingLost` of `RedisQueue` without failures and crashes, `NoLostWakeup` and
`PollingGoesOn` with a slot.
Only model-checked: `ImplementsLifecycle` of `RedisQueue`, which holds only until the
first failing command or removal and only with one chain of calls; the liveness properties (`NoStarvation`, `PauseSettles`,
`AddedIsStarted`, `AcceptedIsHandled`, `DestroyEnds`, `LockEnds` and the others),
since TLAPS does not reason about liveness under fairness; and the violations.

## Plan

1. (done) `MemoryQueue`, `TaskLifecycle`, `RedisQueue`, `RabbitMQQueue`,
   `RedisLock`, `QueueService`, their runs, and the invariants of `MemoryQueue`
   and `RedisLock`.
2. (done) `RedisSchedule`; `Lease` and the proof that `RedisLock` implements it;
   the searches of the Redis queue; the clients' calls of the service.
3. (done) Proofs: the contract of `MemoryQueue` with its refinement; types, slots,
   polling, `NothingLost` and the single consumer of `RedisQueue`; the broker's
   side of `RabbitMQQueue`; delays of `RedisSchedule`; `QueueService`.
4. (done) Proofs: the searches of `RedisQueue` and its races for tasks that are not
   to be retried, for any number of workers and chains.
5. Listeners that throw, in `MemoryQueue` and `RabbitMQQueue`.

## Not modelled

Metrics, the Prometheus exporter, the logger, the middleware, the health
indicator, the decorator, enums, constants, errors and the module wiring: they
read, count or print and have no control state. `getMetrics` of the queues and
`getQueue` and `getQueueStatus` of the service only read, and so do `getStatus` and
`getTasks` of the queues; the searches of the latter two that take several
commands, in the Redis and the RabbitMQ queue, are in the models. The connecting
of a RabbitMQ queue (`init`) comes before the first state.
