------------------------------ MODULE QueueService ------------------------------
(***************************************************************************)
(* src/services: TaskQueueService creates a Redis queue for every handler  *)
(* of the application and registers the handlers; QueueFactoryService      *)
(* keeps the queues by type and name, and the connections they share.      *)
(* Clients may create queues of their own, and shut queues down, before    *)
(* the application is closed and the destroy hooks of both services run.   *)
(*                                                                         *)
(* Clients start when the initialisation is over.  A step is a stretch of  *)
(* code between two awaits.  Of a queue only what these services touch is  *)
(* modelled: its handler, whether it is paused, the tasks that wait in it  *)
(* and its shutdown, which for a Redis queue reads the processing list     *)
(* and, if there is something on it, writes it back.                       *)
(* The commands of all Redis queues share one connection.                  *)
(*                                                                         *)
(* As in MemoryQueue, a definition whose name ends in Slip is a likely     *)
(* mistake in the definition below it.                                     *)
(***************************************************************************)
EXTENDS Integers, SequencesExt, FiniteSetsExt

CONSTANTS
  Name,         \* names of queues
  MaxHandlers,  \* bound: handlers of the application
  Client,       \* calls of createQueue by clients
  Asked,        \* the types and names of queues that clients ask for
  Used,         \* the handlers whose queues clients use
  Service,      \* the caller of createQueue that is TaskQueueService
  MaxCloses,    \* bound: queues that clients shut down
  MaxFaults,    \* bound: commands and connection attempts that fail
  None          \* no queue

Type == {"redis", "rabbitmq", "memory"}
Key == Type \X Name

ASSUME ServiceAssumption ==
  /\ Asked \subseteq Key /\ Used \subseteq 1 .. MaxHandlers
  /\ MaxHandlers \in Nat /\ MaxFaults \in Nat /\ MaxCloses \in Nat
  /\ Service \notin Client
  /\ IsFiniteSet(Client) /\ IsFiniteSet(Name) /\ Client \cap Name = {}
  /\ None \notin Client \cup Name

Caller == Client \cup {Service}

(* The queues that may be constructed: one per call of createQueue.        *)
Object == Client \cup Name

VARIABLES
  handlers,     \* TaskQueueService.handlers: the queue of each, in order
  service,      \* TaskQueueService.queues
  factory,      \* QueueFactoryService.queues
  key,          \* Object -> the key it was made for
  handler,      \* Object -> the number of its handler, 0 if it has none
  closing,      \* Object -> where its shutdown stands
  isPaused,
  waiting,      \* Used -> the queue with the task that is for that handler
  handledBy,    \* Used -> the number of the handler that was given it, or 0
  call,         \* Caller -> where its call of createQueue stands
  initPhase,    \* onModuleInit of TaskQueueService
  hook,         \* onModuleDestroy of QueueFactoryService
  waits,        \* the shutdowns that hook has started
  redisClient, rabbitMQ,   \* the shared connections
  wire,         \* commands on the Redis connection
  faults,       \* how many commands or attempts have failed
  byClient      \* history: the queues that a client has shut down

app == <<handlers, initPhase>>
maps == <<service, factory>>
objects == <<key, handler, closing>>
tasks == <<isPaused, waiting, handledBy>>
destroy == <<hook, waits>>
connections == <<redisClient, rabbitMQ>>
past == <<faults, byClient>>
vars == <<app, maps, objects, tasks, call, destroy, connections, wire, past>>


Closing == {"unmade", "open", "listing", "restoring", "down", "failed"}
Call == {"idle", "connecting", "channel", "storing", "returned", "failed"}
Hook == {"none", "shutting", "quitting", "done", "failed"}

TypeOK ==
  /\ handlers \in Seq(Name) /\ Len(handlers) <= MaxHandlers
  /\ service \in [Name -> Object \cup {None}]
  /\ factory \in [Key -> Object \cup {None}]
  /\ key \in [Object -> Key \cup {None}]
  /\ handler \in [Object -> 0 .. MaxHandlers]
  /\ closing \in [Object -> Closing]
  /\ isPaused \in [Object -> BOOLEAN]
  /\ waiting \in [Used -> Object \cup {None}]
  /\ handledBy \in [Used -> 0 .. MaxHandlers]
  /\ call \in [Caller -> [phase : Call, key : Key \cup {None}]]
  /\ initPhase \in {"creating", "done", "failed"}
  /\ hook \in Hook /\ waits \subseteq Object
  /\ redisClient \in {"none", "open", "quitting", "closed"}
  /\ rabbitMQ \in {"none", "open", "closed"}
  /\ wire \in Seq([op : {"list", "restore", "quit"}, obj : Object \cup {None}])
  /\ faults \in 0 .. MaxFaults
  /\ byClient \subseteq Object
  /\ \A o \in Object : handler[o] # 0 => closing[o] = "open"

Init ==
  /\ handlers \in UNION {[1 .. n -> Name] : n \in 0 .. MaxHandlers}
  /\ service = [n \in Name |-> None]
  /\ factory = [k \in Key |-> None]
  /\ key = [o \in Object |-> None]
  /\ handler = [o \in Object |-> 0]
  /\ closing = [o \in Object |-> "unmade"]
  /\ isPaused = [o \in Object |-> FALSE]
  /\ waiting = [i \in Used |-> None]
  /\ handledBy = [i \in Used |-> 0]
  /\ call = [c \in Caller |-> [phase |-> "idle", key |-> None]]
  /\ initPhase = "creating"
  /\ hook = "none" /\ waits = {}
  /\ redisClient = "none" /\ rabbitMQ = "none"
  /\ wire = <<>>
  /\ faults = 0
  /\ byClient = {}

------------------------------------------------------------------------------
(* QueueFactoryService.createQueue.                                        *)

Made(c, k) == IF c = Service THEN k[2] ELSE c
Make(c, k) ==
  /\ key' = [key EXCEPT ![Made(c, k)] = k]
  /\ closing' = [closing EXCEPT ![Made(c, k)] = "open"]
Moves(c, phase) == call' = [call EXCEPT ![c].phase = phase]
Begins(c, k, phase) ==
  call' = [call EXCEPT ![c] = [phase |-> phase, key |-> k]]

(* Up to the first await: the queue is known, or made and not stored yet   *)
(* (a memory queue is stored at once), or the broker is called.            *)
CreateQueue(c, k) ==
  /\ \/ /\ factory[k] # None
        /\ Begins(c, k, "returned")
        /\ UNCHANGED <<key, closing, factory, redisClient>>
     \/ /\ factory[k] = None /\ k[1] = "redis"
        /\ redisClient' = IF redisClient = "none" THEN "open" ELSE redisClient
        /\ Make(c, k) /\ Begins(c, k, "storing")
        /\ UNCHANGED factory
     \/ /\ factory[k] = None /\ k[1] = "memory"
        /\ Make(c, k) /\ Begins(c, k, "returned")
        /\ factory' = [factory EXCEPT ![k] = c]
        /\ UNCHANGED redisClient
     \/ /\ factory[k] = None /\ k[1] = "rabbitmq"
        /\ Begins(c, k, IF rabbitMQ = "none" THEN "connecting" ELSE "channel")
        /\ UNCHANGED <<key, closing, factory, redisClient>>
  /\ UNCHANGED <<app, service, handler, tasks, destroy, rabbitMQ, wire, past>>

Store(c) ==
  /\ call[c].phase = "storing"
  /\ factory' = [factory EXCEPT ![call[c].key] = Made(c, call[c].key)]
  /\ Moves(c, "returned")
  /\ UNCHANGED <<app, service, objects, tasks, destroy, connections, wire,
                 past>>

(* Whoever is connected last is remembered.                                *)
Connected(c) ==
  /\ call[c].phase = "connecting"
  /\ rabbitMQ' = "open"
  /\ Moves(c, "channel")
  /\ UNCHANGED <<app, maps, objects, tasks, destroy, redisClient, wire, past>>

(* createChannel and the assertions that follow it.                        *)
ChannelReady(c) ==
  /\ call[c].phase = "channel" /\ rabbitMQ = "open"
  /\ Make(c, call[c].key)
  /\ Moves(c, "storing")
  /\ UNCHANGED <<app, maps, handler, tasks, destroy, connections, wire, past>>

(* The broker refuses, or the connection has been closed meanwhile.        *)
CreationFails(c) ==
  /\ \/ /\ call[c].phase \in {"connecting", "channel"} /\ faults < MaxFaults
        /\ faults' = faults + 1
     \/ /\ call[c].phase = "channel" /\ rabbitMQ = "closed"
        /\ UNCHANGED faults
  /\ Moves(c, "failed")
  /\ UNCHANGED <<app, maps, objects, tasks, destroy, connections, wire,
                 byClient>>

------------------------------------------------------------------------------
(* TaskQueueService.onModuleInit.                                          *)

Missing == {i \in DOMAIN handlers : service[handlers[i]] = None}

ServiceCreates ==
  /\ initPhase = "creating" /\ call[Service].phase = "idle"
  /\ Missing # {}
  /\ CreateQueue(Service, <<"redis", handlers[Min(Missing)]>>)

ServiceGets ==
  /\ call[Service].phase = "returned"
  /\ LET k == call[Service].key IN
     service' = [service EXCEPT ![k[2]] = factory[k]]
  /\ Moves(Service, "idle")
  /\ UNCHANGED <<app, factory, objects, tasks, destroy, connections, wire,
                 past>>

(* The handlers that find another one registered with their queue: process *)
(* throws at the first of them and ends the loop.                          *)
Refused ==
  {i \in DOMAIN handlers : \E j \in 1 .. i - 1 : handlers[j] = handlers[i]}
Registered ==
  {i \in DOMAIN handlers : \A j \in Refused : i < j}

(* process replaces the handler instead of refusing a second one.          *)
RegisterHandlersSlip ==
  /\ initPhase = "creating" /\ call[Service].phase = "idle" /\ Missing = {}
  /\ handler' = [o \in Object |->
       Max({i \in DOMAIN handlers : service[handlers[i]] = o} \cup {0})]
  /\ initPhase' = "done"
  /\ UNCHANGED <<handlers, maps, key, closing, tasks, call, destroy,
                 connections, wire, past>>

(* The second loop of initializeQueues awaits nothing.                     *)
RegisterHandlers ==
  /\ initPhase = "creating" /\ call[Service].phase = "idle" /\ Missing = {}
  /\ handler' = [o \in Object |->
       Max({i \in Registered : service[handlers[i]] = o} \cup {0})]
  /\ initPhase' = IF Refused = {} THEN "done" ELSE "failed"
  /\ UNCHANGED <<handlers, maps, key, closing, tasks, call, destroy,
                 connections, wire, past>>

------------------------------------------------------------------------------
(* Using the queues of the service.  The calls throw when there is none of *)
(* that name, or it has been shut down.                                    *)

Usable(n) ==
  initPhase # "creating" /\ service[n] # None /\ closing[service[n]] = "open"

(* addTask passes the task for handler i on to the queue it names.         *)
AddTask(i) ==
  /\ i \in Used \cap DOMAIN handlers /\ Usable(handlers[i])
  /\ waiting[i] = None /\ handledBy[i] = 0
  /\ waiting' = [waiting EXCEPT ![i] = service[handlers[i]]]
  /\ UNCHANGED <<app, maps, objects, isPaused, handledBy, call, destroy,
                 connections, wire, past>>

PauseQueue(n, paused) ==
  /\ Usable(n) /\ isPaused[service[n]] # paused
  /\ isPaused' = [isPaused EXCEPT ![service[n]] = paused]
  /\ UNCHANGED <<app, maps, objects, waiting, handledBy, call, destroy,
                 connections, wire, past>>

(* A queue gives every task to the handler it has.                         *)
Handle(i) ==
  /\ waiting[i] # None
  /\ LET o == waiting[i] IN
     /\ handler[o] # 0 /\ ~isPaused[o] /\ closing[o] = "open"
     /\ handledBy' = [handledBy EXCEPT ![i] = handler[o]]
  /\ waiting' = [waiting EXCEPT ![i] = None]
  /\ UNCHANGED <<app, maps, objects, isPaused, call, destroy, connections,
                 wire, past>>

------------------------------------------------------------------------------
(* Shutting queues down.                                                   *)

List(o) == [op |-> "list", obj |-> o]
Redis(S) == {o \in S : key[o][1] = "redis"}
Opened(S) == {o \in S : closing[o] = "open"}

(* The handler is kept.                                                    *)
ShutDownSlip(S) ==
  /\ closing' = [o \in Object |->
       IF o \notin S THEN closing[o]
       ELSE IF o \notin Redis(S) THEN "down"
       ELSE IF redisClient = "open" THEN "listing" ELSE "failed"]
  /\ UNCHANGED handler
  /\ wire' = IF redisClient = "open"
             THEN wire \o SetToSeq({List(o) : o \in Redis(S)}) ELSE wire

(* What shutdown does up to its first await, called for the open queues of *)
(* S: only a Redis queue has something to wait for.  A command on a        *)
(* connection that has been quit fails.                                    *)
ShutDown(S) ==
  /\ closing' = [o \in Object |->
       IF o \notin S THEN closing[o]
       ELSE IF o \notin Redis(S) THEN "down"
       ELSE IF redisClient = "open" THEN "listing" ELSE "failed"]
  /\ handler' = [o \in Object |-> IF o \in S THEN 0 ELSE handler[o]]
  /\ wire' = IF redisClient = "open"
             THEN wire \o SetToSeq({List(o) : o \in Redis(S)}) ELSE wire

ClientShutsDown(o) ==
  /\ initPhase # "creating" /\ closing[o] = "open"
  /\ Cardinality(byClient) < MaxCloses
  /\ ShutDown({o})
  /\ byClient' = byClient \cup {o}
  /\ UNCHANGED <<app, maps, key, tasks, call, destroy, connections, faults>>

(* The answer ends the shutdown or, if tasks are being processed, lets it  *)
(* write them back.                                                        *)
ListReplySlip ==
  /\ wire # <<>> /\ Head(wire).op = "list"
  /\ LET o == Head(wire).obj IN
     /\ closing' = [closing EXCEPT ![o] =
                      IF redisClient = "open" THEN "restoring" ELSE "failed"]
     /\ wire' = Tail(wire)
  /\ UNCHANGED <<app, maps, key, handler, tasks, call, destroy, connections,
                 past>>
ListReply ==
  /\ wire # <<>> /\ Head(wire).op = "list"
  /\ LET o == Head(wire).obj IN
     \/ /\ closing' = [closing EXCEPT ![o] = "down"]
        /\ wire' = Tail(wire)
     \/ /\ redisClient = "open"
        /\ closing' = [closing EXCEPT ![o] = "restoring"]
        /\ wire' = Append(Tail(wire), [op |-> "restore", obj |-> o])
     \/ /\ redisClient # "open"
        /\ closing' = [closing EXCEPT ![o] = "failed"]
        /\ wire' = Tail(wire)
  /\ UNCHANGED <<app, maps, key, handler, tasks, call, destroy, connections,
                 past>>

RestoreReply ==
  /\ wire # <<>> /\ Head(wire).op = "restore"
  /\ closing' = [closing EXCEPT ![Head(wire).obj] = "down"]
  /\ wire' = Tail(wire)
  /\ UNCHANGED <<app, maps, key, handler, tasks, call, destroy, connections,
                 past>>

CommandFails ==
  /\ wire # <<>> /\ Head(wire).op \in {"list", "restore"}
  /\ faults < MaxFaults /\ faults' = faults + 1
  /\ closing' = [closing EXCEPT ![Head(wire).obj] = "failed"]
  /\ wire' = Tail(wire)
  /\ UNCHANGED <<app, maps, key, handler, tasks, call, destroy, connections,
                 byClient>>

QuitReply ==
  /\ wire # <<>> /\ Head(wire).op = "quit"
  /\ redisClient' = "closed"
  /\ wire' = Tail(wire)
  /\ UNCHANGED <<app, maps, objects, tasks, call, destroy, rabbitMQ, past>>

------------------------------------------------------------------------------
(* The destroy hooks.                                                      *)

Held(map) == Opened({map[k] : k \in DOMAIN map} \ {None})

(* The hook of the service first: the factory does not wait for what the   *)
(* service has begun.                                                      *)
DestroySlip ==
  /\ hook = "none" /\ initPhase # "creating"
  /\ ShutDown(Held(service) \cup Held(factory))
  /\ waits' = Held(factory) \ Held(service)
  /\ hook' = "shutting"
  /\ UNCHANGED <<app, maps, key, tasks, call, connections, past>>

(* The factory leaves its queues to the service.                           *)
DestroyOwnSlip ==
  /\ hook = "none" /\ initPhase # "creating"
  /\ ShutDown(Held(service))
  /\ waits' = Held(service)
  /\ hook' = "shutting"
  /\ UNCHANGED <<app, maps, key, tasks, call, connections, past>>

(* Both hooks are called in the order of the module's providers            *)
(* (nestjs-task-queue.module.ts:19-20), each up to its first await: the    *)
(* factory shuts its queues down, so the service finds them shut down, and *)
(* waits for nothing.  Queues that a client is shutting down are waited    *)
(* for by neither.                                                         *)
Destroy ==
  /\ hook = "none" /\ initPhase # "creating"
  /\ ShutDown(Held(factory) \cup Held(service))
  /\ waits' = Held(factory)
  /\ hook' = "shutting"
  /\ UNCHANGED <<app, maps, key, tasks, call, connections, past>>

(* The service's hook ends: its map is cleared.                            *)
ServiceClears ==
  /\ hook # "none"
  /\ service' = [n \in Name |-> None]
  /\ UNCHANGED <<app, factory, objects, tasks, call, destroy, connections,
                 wire, past>>

CloseRabbitMQ ==
  /\ rabbitMQ' = IF rabbitMQ = "open" THEN "closed" ELSE rabbitMQ
  /\ hook' = "done"

(* All the shutdowns have resolved: quit is sent if there is a client.     *)
FactoryQuits ==
  /\ hook = "shutting" /\ \A o \in waits : closing[o] = "down"
  /\ factory' = [k \in Key |-> None]
  /\ \/ /\ redisClient # "none"
        /\ hook' = "quitting" /\ redisClient' = "quitting"
        /\ wire' = Append(wire, [op |-> "quit", obj |-> None])
        /\ UNCHANGED rabbitMQ
     \/ /\ redisClient = "none"
        /\ CloseRabbitMQ /\ UNCHANGED <<redisClient, wire>>
  /\ UNCHANGED <<app, service, objects, tasks, call, waits, past>>

(* One has rejected: the hook rejects, and neither connection is closed.   *)
FactoryGivesUp ==
  /\ hook = "shutting" /\ \E o \in waits : closing[o] = "failed"
  /\ hook' = "failed"
  /\ UNCHANGED <<app, maps, objects, tasks, call, waits, connections, wire,
                 past>>

FactoryCloses ==
  /\ hook = "quitting" /\ redisClient = "closed"
  /\ CloseRabbitMQ
  /\ UNCHANGED <<app, maps, objects, tasks, call, waits, redisClient, wire,
                 past>>

------------------------------------------------------------------------------
ClientCreates(c, k) ==
  /\ initPhase # "creating" /\ call[c].phase = "idle"
  /\ CreateQueue(c, k)

Initialises ==
  ServiceCreates \/ Store(Service) \/ ServiceGets \/ RegisterHandlers

Creates(c) == Store(c) \/ Connected(c) \/ ChannelReady(c) \/ CreationFails(c)

Redises == ListReply \/ RestoreReply \/ QuitReply
Destroys == FactoryQuits \/ FactoryGivesUp \/ FactoryCloses

Next ==
  \/ Initialises
  \/ \E c \in Client : (\E k \in Asked : ClientCreates(c, k)) \/ Creates(c)
  \/ \E o \in Object : ClientShutsDown(o)
  \/ \E i \in Used : AddTask(i) \/ Handle(i)
  \/ \E i \in Used \cap DOMAIN handlers, paused \in BOOLEAN :
       PauseQueue(handlers[i], paused)
  \/ Redises \/ CommandFails
  \/ Destroy \/ ServiceClears \/ Destroys

Spec == Init /\ [][Next]_vars

(* The event loop runs, Redis answers, and an open queue works.            *)
FairSpec ==
  /\ Spec /\ WF_vars(Initialises) /\ WF_vars(Redises) /\ WF_vars(Destroys)
  /\ \A i \in Used : WF_vars(Handle(i))

------------------------------------------------------------------------------
(* A task that addTask accepts reaches the handler it is for, with the     *)
(* init hook, the service's map and the queue's single handler between     *)
(* them, unless the application did not initialise, or the queue is paused *)
(* or shut down.                                                           *)
AcceptedIsHandled ==
  \A i \in Used, o \in Object :
    (waiting[i] = o /\ initPhase = "done") ~>
      (handledBy[i] = i \/ isPaused[o] \/ closing[o] # "open")

(* The destroy hooks begin the shutdown of every queue there is, whoever   *)
(* created it and however its creation failed, is under way or overlapped  *)
(* with others - except a queue that is still to be stored, and one of two *)
(* queues that overlapping calls made for one key.                         *)
Doubled(o) == \E p \in Object \ {o} : key[p] = key[o]
Storing(o) == \E c \in Caller :
  call[c].phase = "storing" /\ Made(c, call[c].key) = o
ClosesAll ==
  [][hook = "none" /\ hook' # "none" =>
       \A o \in Opened(Object) :
         closing'[o] # "open" \/ Doubled(o) \/ Storing(o)]_vars

(* No queue is cut off from Redis in the middle of its shutdown, which     *)
(* would leave its tasks on the processing list, whatever queues clients   *)
(* create meanwhile: the connection is quit when every shutdown begun by   *)
(* the hooks is over.  A client that shuts a queue down itself should wait *)
(* before it closes the application.                                       *)
NothingStranded ==
  faults = 0 => \A o \in Object : closing[o] = "failed" => o \in byClient

(* The hooks come to their end and both connections are closed, unless a   *)
(* shutdown fails.                                                         *)
DestroyEnds ==
  hook = "shutting" ~>
    \/ hook = "done" /\ redisClient # "open" /\ rabbitMQ # "open"
    \/ \E o \in Object : closing[o] = "failed"
==============================================================================
