----------------------------- MODULE RabbitMQQueue -----------------------------
(***************************************************************************)
(* The queue of src/queues/rabbitmq.queue.ts: several workers publish to   *)
(* and consume from one queue of a RabbitMQ broker.                        *)
(*                                                                         *)
(* A worker is one initialised RabbitMQQueue object with its channel.  The *)
(* frames it sends travel in order; when the broker takes a frame that has *)
(* a reply, what the worker does on the reply belongs to the same step.    *)
(* Deliveries are pushed by the broker and arrive later.                   *)
(*                                                                         *)
(* The delay of a retry is only a header of the message that the broker    *)
(* ignores, so a retry waits like any other message.                       *)
(*                                                                         *)
(* As in MemoryQueue, a definition whose name ends in Slip is a likely     *)
(* mistake in the definition below it.                                     *)
(***************************************************************************)
EXTENDS Integers, SequencesExt

CONSTANTS
  Worker,
  Task,              \* the tasks clients submit; each is submitted once
  Producers,         \* the workers that call add
  MaxRetries,        \* Task -> task.maxRetries, 0 also when it is not given
  DefaultMaxRetries,
  Concurrency,       \* the prefetch count
  MaxChecks,         \* maxChecks of removeTask, limit of getTasks
  Calls,             \* Worker -> which of "pause", "shutdown", "remove",
                     \* "clear", "list" and "crash" occur there, and
                     \* "again": process called after a shutdown
  None               \* no task

ASSUME RabbitAssumption ==
  /\ IsFiniteSet(Worker)
  /\ Producers \subseteq Worker
  /\ MaxRetries \in [Task -> Nat]
  /\ DefaultMaxRetries \in Nat \ {0}
  /\ Concurrency \in Nat \ {0}
  /\ MaxChecks \in Nat \ {0}
  /\ None \notin Task

VARIABLES
  ready,        \* broker: the messages of the queue, in order
  unacked,      \* broker: Worker -> messages delivered and not settled
  got,          \* broker: Worker -> messages fetched by get and not settled
  consuming,    \* broker: Worker -> is its consumer registered?
  out,          \* Worker -> frames sent that the broker has not taken
  arriving,     \* Worker -> deliveries on their way
  alive,        \* Worker -> has its process not ended?
  open,         \* Worker -> may its channel still send?
  isPaused, isShutdown, handler, consumerTag,
  running,      \* Worker -> messages whose handler has not settled
  search,       \* Worker -> what removeTask or getTasks is looking for
  fate          \* history: what has become of each task

broker == <<ready, unacked, got, consuming>>
flags == <<isPaused, isShutdown, handler, consumerTag>>
vars == <<broker, out, arriving, alive, open, flags, running, search, fate>>

(* Equal messages are told apart by a copy number.                         *)
Message == [task : Task, retryCount : Nat, copy : Nat]
Nothing == [task |-> None, retryCount |-> 0, copy |-> 0]
Op == {"publish", "done", "retried", "removed",  \* the last three are acks
       "bury", "putBack",                        \* nack without, with requeue
       "consume", "cancel", "cancelThenClose", "close", "get", "purge"}
Frame == [op : Op, msg : Message \cup {Nothing}]
F(op, m) == [op |-> op, msg |-> m]
Idle == [task |-> None, left |-> 0]
Fate == {"new", "sent", "open", "completed", "failed", "dropped"}

TypeOK ==
  /\ ready \in Seq(Message)
  /\ unacked \in [Worker -> SUBSET Message]
  /\ got \in [Worker -> SUBSET Message]
  /\ consuming \in [Worker -> BOOLEAN]
  /\ out \in [Worker -> Seq(Frame)]
  /\ arriving \in [Worker -> Seq(Message)]
  /\ alive \in [Worker -> BOOLEAN] /\ open \in [Worker -> BOOLEAN]
  /\ isPaused \in [Worker -> BOOLEAN] /\ isShutdown \in [Worker -> BOOLEAN]
  /\ handler \in [Worker -> BOOLEAN] /\ consumerTag \in [Worker -> BOOLEAN]
  /\ running \in [Worker -> SUBSET Message]
  /\ search \in [Worker -> [task : Task \cup {None}, left : 0 .. MaxChecks]]
  /\ fate \in [Task -> Fate]

Init ==
  /\ ready = <<>>
  /\ unacked = [w \in Worker |-> {}] /\ got = [w \in Worker |-> {}]
  /\ consuming = [w \in Worker |-> FALSE]
  /\ out = [w \in Worker |-> <<>>]
  /\ arriving = [w \in Worker |-> <<>>]
  /\ alive = [w \in Worker |-> TRUE] /\ open = [w \in Worker |-> TRUE]
  /\ isPaused = [w \in Worker |-> FALSE]
  /\ isShutdown = [w \in Worker |-> FALSE]
  /\ handler = [w \in Worker |-> FALSE]
  /\ consumerTag = [w \in Worker |-> FALSE]
  /\ running = [w \in Worker |-> {}]
  /\ search = [w \in Worker |-> Idle]
  /\ fate = [t \in Task |-> "new"]

------------------------------------------------------------------------------
Sent(w, op) == \E i \in DOMAIN out[w] : out[w][i].op = op
Send(w, frames) == out' = [out EXCEPT ![w] = @ \o frames]

(* The broker takes the first frame of w; if w is there to read a reply it *)
(* sends more.                                                             *)
Takes(w, op) == out[w] # <<>> /\ Head(out[w]).op = op
Listening(w) == alive[w] /\ open[w]
Reply(w, frames) ==
  out' = [out EXCEPT ![w] = Tail(@) \o IF Listening(w) THEN frames ELSE <<>>]

AtBroker == ToSet(ready) \cup UNION {unacked[w] \cup got[w] : w \in Worker}
Fresh(m) ==
  CHOOSE n \in {[m EXCEPT !.copy = k] : k \in 0 .. Cardinality(AtBroker)} :
    n \notin AtBroker

(* The broker puts w's messages back and forgets its channel.              *)
Requeue(w) ==
  /\ \E s \in SetToSeqs(unacked[w] \cup got[w]) : ready' = s \o ready
  /\ unacked' = [unacked EXCEPT ![w] = {}]
  /\ got' = [got EXCEPT ![w] = {}]
  /\ consuming' = [consuming EXCEPT ![w] = FALSE]

------------------------------------------------------------------------------
(* Client calls.  A call the code answers by throwing changes nothing.     *)

Add(w, t) ==
  /\ Listening(w) /\ w \in Producers /\ ~isShutdown[w]
  /\ fate[t] = "new"
  /\ fate' = [fate EXCEPT ![t] = "sent"]
  /\ Send(w, <<F("publish", [task |-> t, retryCount |-> 0, copy |-> 0])>>)
  /\ UNCHANGED <<broker, arriving, alive, open, flags, running, search>>

Process(w) ==
  /\ Listening(w) /\ ~handler[w]
  /\ handler' = [handler EXCEPT ![w] = TRUE]
  /\ Send(w, <<F("consume", Nothing)>>)
  /\ UNCHANGED <<broker, arriving, alive, open, isPaused, isShutdown,
                 consumerTag, running, search, fate>>

(* Bound: one cancel under way at a time.                                  *)
Pause(w) ==
  /\ Listening(w) /\ ~isShutdown[w] /\ consumerTag[w]
  /\ ~Sent(w, "cancel")
  /\ isPaused' = [isPaused EXCEPT ![w] = TRUE]
  /\ Send(w, <<F("cancel", Nothing)>>)
  /\ UNCHANGED <<broker, arriving, alive, open, isShutdown, handler,
                 consumerTag, running, search, fate>>

(* The call of process inside resume throws: the handler is registered.    *)
Resume(w) ==
  /\ Listening(w) /\ ~isShutdown[w] /\ handler[w]
  /\ isPaused' = [isPaused EXCEPT ![w] = FALSE]
  /\ UNCHANGED <<broker, out, arriving, alive, open, isShutdown, handler,
                 consumerTag, running, search, fate>>

Shutdown(w) ==
  /\ alive[w] /\ ~isShutdown[w]
  /\ isShutdown' = [isShutdown EXCEPT ![w] = TRUE]
  /\ handler' = [handler EXCEPT ![w] = FALSE]
  /\ Send(w, IF consumerTag[w] THEN <<F("cancelThenClose", Nothing)>> ELSE <<>>)
  /\ UNCHANGED <<broker, arriving, alive, open, isPaused, consumerTag,
                 running, search, fate>>

(* removeTask for a task, getTasks for None: both get messages one by one. *)
(* Bound: one such call at a time.                                         *)
Search(w, t) ==
  /\ Listening(w)
  /\ search[w] = Idle /\ ~Sent(w, "get")
  /\ search' = [search EXCEPT ![w] = [task |-> t, left |-> MaxChecks]]
  /\ Send(w, <<F("get", Nothing)>>)
  /\ UNCHANGED <<broker, arriving, alive, open, flags, running, fate>>

Clear(w) ==
  /\ Listening(w) /\ ~Sent(w, "purge")
  /\ Send(w, <<F("purge", Nothing)>>)
  /\ UNCHANGED <<broker, arriving, alive, open, flags, running, search, fate>>

------------------------------------------------------------------------------
(* The broker takes a frame.                                               *)

Settled(S, f) ==
  [t \in Task |-> IF t \in S /\ fate[t] = "open" THEN f ELSE fate[t]]

TakePublish(w) ==
  /\ Takes(w, "publish")
  /\ LET m == Fresh(Head(out[w]).msg) IN
     /\ ready' = Append(ready, m)
     /\ fate' = [fate EXCEPT ![m.task] = IF @ = "sent" THEN "open" ELSE @]
  /\ Reply(w, <<>>)
  /\ UNCHANGED <<unacked, got, consuming, arriving, alive, open, flags,
                 running, search>>

Outcome == [done |-> "completed", bury |-> "failed", removed |-> "dropped",
            retried |-> "open"]

(* An ack or a nack without requeue: the message is gone.                  *)
TakeSettlement(w) ==
  /\ \E op \in DOMAIN Outcome : Takes(w, op)
  /\ LET m == Head(out[w]).msg IN
     /\ unacked' = [unacked EXCEPT ![w] = @ \ {m}]
     /\ got' = [got EXCEPT ![w] = @ \ {m}]
     /\ fate' = Settled({m.task}, Outcome[Head(out[w]).op])
  /\ Reply(w, <<>>)
  /\ UNCHANGED <<ready, consuming, arriving, alive, open, flags, running,
                 search>>

(* The message goes back to the place it was taken from.                   *)
TakePutBack(w) ==
  /\ Takes(w, "putBack")
  /\ LET m == Head(out[w]).msg IN
     /\ ready' = <<m>> \o ready
     /\ got' = [got EXCEPT ![w] = @ \ {m}]
  /\ Reply(w, <<>>)
  /\ UNCHANGED <<unacked, consuming, arriving, alive, open, flags, running,
                 search, fate>>

(* The reply carries the consumer tag.                                     *)
TakeConsume(w) ==
  /\ Takes(w, "consume")
  /\ consuming' = [consuming EXCEPT ![w] = TRUE]
  /\ consumerTag' = [consumerTag EXCEPT ![w] = Listening(w)]
  /\ Reply(w, <<>>)
  /\ UNCHANGED <<ready, unacked, got, arriving, alive, open, isPaused,
                 isShutdown, handler, running, search, fate>>

TakeCancel(w) ==
  /\ Takes(w, "cancel")
  /\ consuming' = [consuming EXCEPT ![w] = FALSE]
  /\ Reply(w, <<>>)
  /\ UNCHANGED <<ready, unacked, got, arriving, alive, open, flags, running,
                 search, fate>>

(* The channel is left open.                                                *)
TakeCancelThenCloseSlip(w) ==
  /\ Takes(w, "cancelThenClose")
  /\ consuming' = [consuming EXCEPT ![w] = FALSE]
  /\ Reply(w, <<>>)
  /\ UNCHANGED <<ready, unacked, got, arriving, alive, open, flags, running,
                 search, fate>>

(* The cancel of shutdown: on its reply the channel is closed, and from    *)
(* then on nothing more can be sent on it.                                 *)
TakeCancelThenClose(w) ==
  /\ Takes(w, "cancelThenClose")
  /\ consuming' = [consuming EXCEPT ![w] = FALSE]
  /\ open' = [open EXCEPT ![w] = FALSE]
  /\ Reply(w, <<F("close", Nothing)>>)
  /\ UNCHANGED <<ready, unacked, got, arriving, alive, flags, running, search,
                 fate>>

TakeClose(w) ==
  /\ Takes(w, "close")
  /\ Requeue(w)
  /\ Reply(w, <<>>)
  /\ arriving' = [arriving EXCEPT ![w] = <<>>]
  /\ search' = [search EXCEPT ![w] = Idle]
  /\ UNCHANGED <<alive, open, flags, running, fate>>

(* The queue is empty: the search is over.                                 *)
TakeGetEmpty(w) ==
  /\ Takes(w, "get") /\ ready = <<>>
  /\ Reply(w, <<>>)
  /\ search' = [search EXCEPT ![w] = Idle]
  /\ UNCHANGED <<broker, arriving, alive, open, flags, running, fate>>

MoreChecksSlip(left) == TRUE
MoreChecks(left) == left > 0

(* The task that is searched for is acknowledged and the search over; any  *)
(* other message is put back before the next one is asked for.             *)
TakeGet(w) ==
  /\ Takes(w, "get") /\ ready # <<>> /\ Listening(w)
  /\ LET m == Head(ready)
         left == search[w].left - 1 IN
     /\ got' = [got EXCEPT ![w] = @ \cup {m}]
     /\ IF m.task = search[w].task
        THEN /\ Reply(w, <<F("removed", m)>>)
             /\ search' = [search EXCEPT ![w] = Idle]
        ELSE /\ Reply(w, <<F("putBack", m)>> \o
                         IF MoreChecks(left) THEN <<F("get", Nothing)>> ELSE <<>>)
             /\ search' = [search EXCEPT ![w] =
                             IF MoreChecks(left) THEN [@ EXCEPT !.left = left]
                             ELSE Idle]
  /\ ready' = Tail(ready)
  /\ UNCHANGED <<unacked, consuming, arriving, alive, open, flags, running,
                 fate>>

(* Nobody is there any more to settle what get returns.                    *)
TakeGetUnheard(w) ==
  /\ Takes(w, "get") /\ ready # <<>> /\ ~Listening(w)
  /\ got' = [got EXCEPT ![w] = @ \cup {Head(ready)}]
  /\ ready' = Tail(ready)
  /\ Reply(w, <<>>)
  /\ UNCHANGED <<unacked, consuming, arriving, alive, open, flags, running,
                 search, fate>>

(* Purging takes the messages that wait, not those that are unacked.       *)
TakePurge(w) ==
  /\ Takes(w, "purge")
  /\ ready' = <<>>
  /\ fate' = Settled({m.task : m \in ToSet(ready)}, "dropped")
  /\ Reply(w, <<>>)
  /\ UNCHANGED <<unacked, got, consuming, arriving, alive, open, flags,
                 running, search>>

------------------------------------------------------------------------------
(* Deliveries.                                                             *)

(* The broker sends at most the prefetch count of messages unsettled.      *)
Deliver(w) ==
  /\ consuming[w] /\ ready # <<>>
  /\ Cardinality(unacked[w]) < Concurrency
  /\ unacked' = [unacked EXCEPT ![w] = @ \cup {Head(ready)}]
  /\ arriving' = [arriving EXCEPT ![w] = Append(@, Head(ready))]
  /\ ready' = Tail(ready)
  /\ UNCHANGED <<got, consuming, out, alive, open, flags, running, search,
                 fate>>

(* The consumer's callback: a delivery that comes while the queue is       *)
(* paused or shut down is neither handled nor settled.                     *)
Arrive(w) ==
  /\ Listening(w) /\ arriving[w] # <<>>
  /\ arriving' = [arriving EXCEPT ![w] = Tail(@)]
  /\ LET m == Head(arriving[w]) IN
     \/ /\ isPaused[w] \/ isShutdown[w]
        /\ UNCHANGED running
     \/ /\ ~isPaused[w] /\ ~isShutdown[w]
        /\ running' = [running EXCEPT ![w] = @ \cup {m}]
  /\ UNCHANGED <<broker, out, alive, open, flags, search, fate>>

Settles(w, m) ==
  /\ Listening(w) /\ m \in running[w]
  /\ running' = [running EXCEPT ![w] = @ \ {m}]
  /\ UNCHANGED <<broker, arriving, alive, open, flags, search, fate>>

HandlerResolves(w, m) == Settles(w, m) /\ Send(w, <<F("done", m)>>)

(* maxRetries || DEFAULT_MAX_RETRIES: zero is taken for not given, though  *)
(* task.interface.ts:47 allows it.                                         *)
Limit(t) == IF MaxRetries[t] = 0 THEN DefaultMaxRetries ELSE MaxRetries[t]

(* The retry count is one more than the header says, and is written back.  *)
RetriedSlip(m) == [m EXCEPT !.copy = 0]
Retried(m) == [m EXCEPT !.retryCount = @ + 1, !.copy = 0]

RetriesLeftSlip(m) == m.retryCount + 1 <= Limit(m.task)
RetriesLeft(m) == m.retryCount + 1 < Limit(m.task)

FailureFramesAckFirstSlip(m) ==
  IF RetriesLeft(m) THEN <<F("retried", m), F("publish", Retried(m))>>
                    ELSE <<F("bury", m)>>
FailureFramesTwiceSlip(m) ==
  IF RetriesLeft(m)
  THEN <<F("publish", Retried(m)), F("retried", m), F("bury", m)>>
  ELSE <<F("bury", m)>>
FailureFramesNoAckSlip(m) ==
  IF RetriesLeft(m) THEN <<F("publish", Retried(m))>> ELSE <<F("bury", m)>>

(* What handleFailedTask sends: a copy first, then the acknowledgement.    *)
FailureFrames(m) ==
  IF RetriesLeft(m) THEN <<F("publish", Retried(m)), F("retried", m)>>
                    ELSE <<F("bury", m)>>

HandlerRejects(w, m) == Settles(w, m) /\ Send(w, FailureFrames(m))

------------------------------------------------------------------------------
(* Failures.                                                               *)

ProcessEnds(w) ==
  /\ alive' = [alive EXCEPT ![w] = FALSE]
  /\ running' = [running EXCEPT ![w] = {}]
  /\ arriving' = [arriving EXCEPT ![w] = <<>>]
  /\ search' = [search EXCEPT ![w] = Idle]
  /\ UNCHANGED <<broker, out, open, flags, fate>>

Crash(w) == alive[w] /\ ProcessEnds(w)

(* A handler settles after shutdown has closed the channel: ack throws, so *)
(* the task counts as failed, handleFailedTask throws too, and nobody      *)
(* catches that.                                                           *)
SettlesTooLate(w) ==
  /\ alive[w] /\ ~open[w] /\ running[w] # {}
  /\ ProcessEnds(w)

(* The connection of a process that ended is noticed, and what the broker  *)
(* has not read of it is lost.  A process whose connection breaks ends: no *)
(* module listens to its 'error' event, which Node then throws.            *)
ConnectionLost(w) ==
  /\ ~alive[w]
  /\ out[w] # <<>> \/ consuming[w] \/ unacked[w] \cup got[w] # {}
  /\ Requeue(w)
  /\ out' = [out EXCEPT ![w] = <<>>]
  /\ arriving' = [arriving EXCEPT ![w] = <<>>]
  /\ UNCHANGED <<alive, open, flags, running, search, fate>>

------------------------------------------------------------------------------
(* Bound: a channel has one consumer at a time.                            *)
ClientCall(w) ==
  \/ \E t \in Task : Add(w, t)
  \/ /\ ~consuming[w] /\ ~Sent(w, "consume")
     /\ isShutdown[w] => "again" \in Calls[w]
     /\ Process(w)
  \/ "pause" \in Calls[w] /\ (Pause(w) \/ Resume(w))
  \/ "shutdown" \in Calls[w] /\ Shutdown(w)
  \/ "remove" \in Calls[w] /\ \E t \in Task : Search(w, t)
  \/ "list" \in Calls[w] /\ Search(w, None)
  \/ "clear" \in Calls[w] /\ Clear(w)

BrokerTakes(w) ==
  \/ TakePublish(w) \/ TakeSettlement(w) \/ TakePutBack(w)
  \/ TakeConsume(w) \/ TakeCancel(w) \/ TakeCancelThenClose(w)
  \/ TakeClose(w) \/ TakeGetEmpty(w) \/ TakeGet(w) \/ TakeGetUnheard(w)
  \/ TakePurge(w)

HandlerSettles(w, m) == HandlerResolves(w, m) \/ HandlerRejects(w, m)

Next ==
  \E w \in Worker :
    \/ ClientCall(w)
    \/ BrokerTakes(w)
    \/ Deliver(w)
    \/ Arrive(w)
    \/ \E m \in running[w] : HandlerSettles(w, m)
    \/ "crash" \in Calls[w] /\ Crash(w)
    \/ SettlesTooLate(w)
    \/ ConnectionLost(w)

Spec == Init /\ [][Next]_vars
------------------------------------------------------------------------------
(* Invariants.                                                             *)

Settling(w) == {out[w][i].msg : i \in {j \in DOMAIN out[w] :
                  out[w][j].op \in DOMAIN Outcome \cup {"putBack"}}}
Unsettled(w) == (unacked[w] \cup got[w]) \ Settling(w)

(* The broker alone always has a message of every unfinished task, so      *)
(* neither a crash nor a shutdown in the middle of a retry loses one.      *)
NothingLost ==
  \A t \in Task : fate[t] = "open" => \E m \in AtBroker : m.task = t

(* A worker settles each delivery once, and only while it holds it:        *)
(* anything else would make the broker close the channel.                  *)
SettledOnce ==
  \A w \in Worker : Listening(w) =>
    /\ \A i, j \in DOMAIN out[w] :
         /\ out[w][i].op \in DOMAIN Outcome \cup {"putBack"}
         /\ out[w][j].op \in DOMAIN Outcome \cup {"putBack"}
         /\ out[w][i].msg = out[w][j].msg
         => i = j
    /\ Settling(w) \subseteq unacked[w] \cup got[w]
    /\ running[w] \subseteq unacked[w] \ Settling(w)

(* However often a task is redelivered, requeued by searches or returned   *)
(* by crashed and closed workers, its retry count goes with it: no message *)
(* ever reaches the limit that its task was submitted with.  A limit of 0  *)
(* is left out: the code takes it for not given.                           *)
RetriesBounded ==
  \A m \in AtBroker :
    MaxRetries[m.task] > 0 => m.retryCount < MaxRetries[m.task]

(* Messages of a task that no frame on its way settles, and the frames that *)
(* carry the task or end it; the ack of a retried message does neither.    *)
Copies(t) ==
  {m \in ToSet(ready) \cup UNION {Unsettled(w) : w \in Worker} : m.task = t}
Carries(f, t) == f.op # "retried" /\ f.msg.task = t
OnItsWay(t) ==
  UNION {{w} \X {i \in DOMAIN out[w] : Carries(out[w][i], t)} : w \in Worker}

(* As long as no process ends abnormally a task exists once, in the queue, *)
(* with one worker or in one frame, and not at all when it has ended.      *)
SingleCopy ==
  (\A w \in Worker : alive[w]) =>
    \A t \in Task :
      Cardinality(Copies(t)) + Cardinality(OnItsWay(t)) <=
        IF fate[t] \in {"sent", "open"} THEN 1 ELSE 0

------------------------------------------------------------------------------
(* Liveness.  The broker reads, delivers and notices that a process ended, *)
(* the event loop runs callbacks, and handlers settle.  A message that     *)
(* searches keep getting and putting back is delivered in the end: the     *)
(* broker gives a message that comes back to a waiting consumer before it  *)
(* takes the next get, hence strong fairness of Deliver.                   *)

Fairness ==
  \A w \in Worker :
    /\ WF_vars(BrokerTakes(w)) /\ WF_vars(Arrive(w))
    /\ SF_vars(Deliver(w)) /\ WF_vars(ConnectionLost(w))
    /\ \A t \in Task :
         WF_vars(\E m \in running[w] : m.task = t /\ HandlerSettles(w, m))

FairSpec == Spec /\ Fairness

Open(w) == handler[w] /\ ~isPaused[w] /\ ~isShutdown[w] /\ Listening(w)

(* A delivery that was dropped because it came during a pause or after a   *)
(* shutdown.                                                               *)
Stuck(w, t) ==
  \E m \in Unsettled(w) \ (got[w] \cup running[w] \cup ToSet(arriving[w])) :
    m.task = t

(* With one worker that is never paused nor shut down every accepted task  *)
(* ends, whatever becomes of the other workers, unless one of them was     *)
(* sent it while paused or shut down and sits on it.                       *)
Attending(w) == Open(w) /\ (consumerTag[w] => consuming[w])
EventuallyEnds ==
  \A w \in Worker, t \in Task :
    (fate[t] = "open" /\ []Attending(w)) ~>
      (fate[t] # "open" \/ \E v \in Worker : Stuck(v, t))

(* A shutdown of a worker whose consumer is known gives every message back *)
(* that the worker holds, also when it crashes on the way.                 *)
ShutdownReleases ==
  \A w \in Worker :
    Sent(w, "cancelThenClose") ~> unacked[w] \cup got[w] = {}

------------------------------------------------------------------------------
(* What a comment says and the code does not do: it is violated.           *)

(* queue.interface.ts:88 "Resumes a paused queue": a queue that stays open *)
(* consumes.                                                               *)
ResumeConsumes == \A w \in Worker : (Open(w) /\ []Open(w)) ~> consuming[w]
==============================================================================
