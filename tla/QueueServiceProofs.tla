---------------------------- MODULE QueueServiceProofs ----------------------------
(***************************************************************************)
(* Proofs about QueueService, for any number of names, handlers, clients   *)
(* and failures, whatever types and names the clients ask for.             *)
(***************************************************************************)
EXTENDS QueueService, FiniteSetTheorems, SequenceTheorems, NaturalsInduction,
        TLAPS

(* A command is in one place of the wire at most.                          *)
Injective(s) == \A i, j \in 1 .. Len(s) : s[i] = s[j] => i = j

(* The queue that a call of createQueue makes, and the key the service asks *)
(* for.                                                                    *)
Makes(c) == Made(c, call[c].key)
RedisKey(n) == <<"redis", n>>

Command == [op : {"list", "restore", "quit"}, obj : Object \cup {None}]

(* Where the calls of createQueue stand: a call makes one queue at most,   *)
(* and what it stores has been made for its key.                           *)
Calling ==
  /\ \A c \in Caller : call[c].phase # "idle" => call[c].key \in Key
  /\ \A c \in Client :
       /\ call[c].phase \in {"idle", "connecting", "channel", "failed"} =>
            closing[c] = "unmade"
       /\ call[c].phase \in {"connecting", "channel"} =>
            call[c].key[1] = "rabbitmq"
  /\ \A c \in Caller : call[c].phase = "storing" =>
       closing[Makes(c)] # "unmade" /\ key[Makes(c)] = call[c].key
  /\ call[Service].phase \in {"idle", "storing", "returned"}
  /\ call[Service].phase # "idle" =>
       initPhase = "creating" /\ call[Service].key[1] = "redis"

(* What is known of a queue that has been made.                            *)
Keyed ==
  \A o \in Object : closing[o] # "unmade" =>
     /\ key[o] \in Key
     /\ o \in Name => key[o] = RedisKey(o)
     /\ key[o][1] = "redis" => redisClient # "none"

(* While the application initialises there are only the service's queues.  *)
Early ==
  initPhase = "creating" =>
    /\ hook = "none" /\ wire = <<>> /\ byClient = {} /\ faults = 0
    /\ redisClient \in {"none", "open"}
    /\ \A c \in Client : call[c].phase = "idle"
    /\ \A o \in Object : handler[o] = 0 /\ closing[o] \in {"unmade", "open"}
    /\ \A k \in Key : factory[k] # None =>
         k[1] = "redis" /\ factory[k] = k[2] /\ closing[k[2]] = "open"
    /\ \A n \in Name :
         /\ service[n] # None => service[n] = n /\ factory[RedisKey(n)] = n
         /\ closing[n] # "unmade" =>
              \/ factory[RedisKey(n)] = n
              \/ call[Service].phase = "storing" /\ call[Service].key = RedisKey(n)
    /\ call[Service].phase = "returned" => factory[call[Service].key] # None

(* A shutdown that awaits Redis has one command on the wire at most, was   *)
(* begun by a client or is awaited by the factory's hook.                  *)
Wired ==
  /\ Injective(wire)
  /\ \A f \in ToSet(wire) :
       /\ f.op = "list" => f.obj \in Object /\ closing[f.obj] = "listing"
       /\ f.op = "restore" => f.obj \in Object /\ closing[f.obj] = "restoring"
       /\ f.op = "quit" => hook \in {"quitting", "done"}
  /\ \A o \in Object : closing[o] \in {"listing", "restoring"} =>
       key[o][1] = "redis" /\ o \in byClient \cup waits

(* The connection is quit when the awaited shutdowns are over.             *)
Ending ==
  /\ redisClient \in {"quitting", "closed"} => hook \in {"quitting", "done"}
  /\ hook \in {"quitting", "done"} => \A o \in waits : closing[o] = "down"
  /\ hook = "none" => waits = {}

(* Until the hooks run the factory has the service's queues, and every     *)
(* open queue that it has not is to be stored, or has a double.            *)
Mapped ==
  hook = "none" =>
    /\ \A n \in Name : service[n] # None =>
         /\ factory[RedisKey(n)] = service[n]
         /\ \A c \in Client :
              call[c].phase = "storing" => call[c].key # RedisKey(n)
    /\ \A o \in Opened(Object) :
         \/ factory[key[o]] = o
         \/ Storing(o)
         \/ \E p \in Object \ {o} : closing[p] # "unmade" /\ key[p] = key[o]

SInv ==
  /\ TypeOK /\ Calling /\ Keyed /\ Early /\ Wired /\ Ending /\ Mapped
  /\ NothingStranded

------------------------------------------------------------------------------
(* Sequences.                                                              *)

(* What is in the tail, in a concatenation, and at the head of one.        *)
LEMMA TailIs ==
  ASSUME NEW S, NEW s \in Seq(S), s # <<>>
  PROVE  /\ Head(s) \in S /\ Tail(s) \in Seq(S)
         /\ Head(s) = s[1] /\ 1 \in 1 .. Len(s)
         /\ Len(Tail(s)) = Len(s) - 1 /\ Len(s) \in Nat \ {0}
         /\ \A i \in 1 .. Len(Tail(s)) : Tail(s)[i] = s[i + 1] /\ i + 1 \in 1 .. Len(s)
         /\ ToSet(s) = {Head(s)} \cup ToSet(Tail(s))
<1>1. /\ Head(s) \in S /\ Tail(s) \in Seq(S) /\ Len(Tail(s)) = Len(s) - 1
      /\ Len(s) \in Nat \ {0} /\ Head(s) = s[1]
      /\ \A i \in 1 .. Len(Tail(s)) : Tail(s)[i] = s[i + 1]
  BY HeadTailProperties, EmptySeq
<1>2. DOMAIN s = 1 .. Len(s) /\ DOMAIN Tail(s) = 1 .. Len(Tail(s))
  BY <1>1, LenProperties
<1> DEFINE q == Tail(s)
<1> HIDE DEF q
<1>3. ASSUME NEW x \in ToSet(s) PROVE x = Head(s) \/ x \in ToSet(q)
  <2>1. PICK i \in 1 .. Len(s) : x = s[i]
    BY <1>2 DEF ToSet
  <2>2. CASE i # 1
    <3>1. i - 1 \in 1 .. Len(q) /\ q[i - 1] = s[(i - 1) + 1] /\ (i - 1) + 1 = i
      BY <1>1, <2>2 DEF q
    <3> QED BY <1>2, <2>1, <3>1 DEF ToSet, q
  <2> QED BY <1>1, <2>1, <2>2
<1>4. ASSUME NEW x \in ToSet(q) PROVE x \in ToSet(s)
  <2>1. PICK i \in 1 .. Len(q) : x = q[i]
    BY <1>2, <1>4 DEF ToSet, q
  <2>2. q[i] = s[i + 1] /\ i + 1 \in 1 .. Len(s)
    BY <1>1 DEF q
  <2> QED BY <1>2, <2>1, <2>2 DEF ToSet
<1>5. Head(s) \in ToSet(s)
  BY <1>1, <1>2 DEF ToSet
<1> QED BY <1>1, <1>3, <1>4, <1>5 DEF q

(* Length, elements and head of a concatenation.                           *)
LEMMA ConcatIs ==
  ASSUME NEW S, NEW s \in Seq(S), NEW t \in Seq(S)
  PROVE  /\ s \o t \in Seq(S)
         /\ Len(s) \in Nat /\ Len(t) \in Nat /\ Len(s \o t) = Len(s) + Len(t)
         /\ \A i \in 1 .. Len(s) + Len(t) :
              (s \o t)[i] = IF i <= Len(s) THEN s[i] ELSE t[i - Len(s)]
         /\ ToSet(s \o t) = ToSet(s) \cup ToSet(t)
         /\ s \o t # <<>> =>
              Head(s \o t) = IF s = <<>> THEN Head(t) ELSE Head(s)
<1> DEFINE c == s \o t
<1>1. /\ c \in Seq(S) /\ Len(s) \in Nat /\ Len(t) \in Nat
      /\ Len(c) = Len(s) + Len(t)
      /\ \A i \in 1 .. Len(s) + Len(t) :
           c[i] = IF i <= Len(s) THEN s[i] ELSE t[i - Len(s)]
  BY ConcatProperties, LenProperties
<1>2. /\ DOMAIN s = 1 .. Len(s) /\ DOMAIN t = 1 .. Len(t)
      /\ DOMAIN c = 1 .. Len(c)
  BY <1>1, LenProperties
<1>3. s = <<>> => c = t
  BY ConcatEmptySeq
<1> HIDE DEF c
<1>4. ASSUME NEW i \in 1 .. Len(s)
      PROVE  i \in 1 .. Len(c) /\ c[i] = s[i]
  BY <1>1
<1>5. ASSUME NEW i \in 1 .. Len(t)
      PROVE  i + Len(s) \in 1 .. Len(c) /\ c[i + Len(s)] = t[i]
  <2>1. /\ i + Len(s) \in 1 .. Len(s) + Len(t) /\ ~(i + Len(s) <= Len(s))
        /\ (i + Len(s)) - Len(s) = i
    BY <1>1
  <2> QED BY <1>1, <2>1
<1>6. ASSUME NEW i \in 1 .. Len(c)
      PROVE  c[i] \in ToSet(s) \cup ToSet(t)
  <2>1. CASE i <= Len(s)
    BY <1>1, <1>2, <2>1 DEF ToSet
  <2>2. CASE ~(i <= Len(s))
    <3>1. i - Len(s) \in 1 .. Len(t) /\ c[i] = t[i - Len(s)]
      BY <1>1, <2>2
    <3> QED BY <1>2, <3>1 DEF ToSet
  <2> QED BY <2>1, <2>2
<1>7. ToSet(c) = ToSet(s) \cup ToSet(t)
  <2>1. ToSet(c) \subseteq ToSet(s) \cup ToSet(t)
    BY <1>2, <1>6 DEF ToSet
  <2>2. ToSet(s) \subseteq ToSet(c)
    BY <1>2, <1>4 DEF ToSet
  <2>3. ToSet(t) \subseteq ToSet(c)
    BY <1>2, <1>5 DEF ToSet
  <2> QED BY <2>1, <2>2, <2>3
<1>8. s # <<>> => Head(c) = Head(s)
  <2>1. s # <<>> => Len(s) > 0 /\ Head(s) = s[1]
    BY EmptySeq
  <2>2. s # <<>> => c # <<>>
    BY <1>1, <2>1, EmptySeq
  <2>3. c # <<>> => Head(c) = c[1]
    BY <1>1
  <2> QED BY <1>1, <2>1, <2>2, <2>3
<1> QED BY <1>1, <1>3, <1>7, <1>8 DEF c

(* What is once in a sequence is once in its tail, and the head is not in  *)
(* the tail.                                                               *)
LEMMA InjectiveTail ==
  ASSUME NEW S, NEW s \in Seq(S), s # <<>>, Injective(s)
  PROVE  Injective(Tail(s)) /\ Head(s) \notin ToSet(Tail(s))
<1> DEFINE q == Tail(s)
<1>1. /\ q \in Seq(S) /\ Head(s) = s[1] /\ 1 \in 1 .. Len(s) /\ Len(q) \in Nat
      /\ \A i \in 1 .. Len(q) : q[i] = s[i + 1] /\ i + 1 \in 1 .. Len(s)
  BY TailIs, LenProperties
<1>2. DOMAIN q = 1 .. Len(q)
  BY <1>1, LenProperties
<1> HIDE DEF q
<1>3. ASSUME NEW i \in 1 .. Len(q), NEW j \in 1 .. Len(q), q[i] = q[j] PROVE i = j
  <2>1. i + 1 = j + 1
    BY <1>1, <1>3 DEF Injective
  <2> QED BY <2>1
<1>4. ASSUME NEW i \in 1 .. Len(q) PROVE q[i] # s[1]
  <2>1. i + 1 # 1
    OBVIOUS
  <2> QED BY <1>1, <2>1 DEF Injective
<1>5. s[1] \notin ToSet(q)
  BY <1>2, <1>4 DEF ToSet
<1> QED BY <1>1, <1>3, <1>5 DEF Injective, q

(* Two sequences of different elements, joined.                            *)
LEMMA InjectiveConcat ==
  ASSUME NEW S, NEW s \in Seq(S), NEW t \in Seq(S), Injective(s), Injective(t),
         ToSet(s) \cap ToSet(t) = {}
  PROVE  Injective(s \o t)
<1> DEFINE c == s \o t
<1>1. /\ Len(s) \in Nat /\ Len(t) \in Nat /\ Len(c) = Len(s) + Len(t)
      /\ \A i \in 1 .. Len(s) + Len(t) :
           c[i] = IF i <= Len(s) THEN s[i] ELSE t[i - Len(s)]
  BY ConcatIs
<1>2. DOMAIN s = 1 .. Len(s) /\ DOMAIN t = 1 .. Len(t)
  BY LenProperties
<1> HIDE DEF c
<1>3. ASSUME NEW i \in 1 .. Len(c), NEW j \in 1 .. Len(c), c[i] = c[j]
      PROVE  i = j
  <2>1. CASE i <= Len(s) /\ j <= Len(s)
    BY <1>1, <1>3, <2>1 DEF Injective
  <2>2. CASE ~(i <= Len(s)) /\ ~(j <= Len(s))
    <3>1. /\ i - Len(s) \in 1 .. Len(t) /\ j - Len(s) \in 1 .. Len(t)
          /\ c[i] = t[i - Len(s)] /\ c[j] = t[j - Len(s)]
      BY <1>1, <2>2
    <3>2. i - Len(s) = j - Len(s)
      BY <1>3, <3>1 DEF Injective
    <3> QED BY <1>1, <3>2
  <2>3. ASSUME NEW k \in 1 .. Len(c), NEW l \in 1 .. Len(c), k <= Len(s), ~(l <= Len(s))
        PROVE  c[k] # c[l]
    <3>1. /\ k \in 1 .. Len(s) /\ l - Len(s) \in 1 .. Len(t)
          /\ c[k] = s[k] /\ c[l] = t[l - Len(s)]
      BY <1>1, <2>3
    <3>2. c[k] \in ToSet(s) /\ c[l] \in ToSet(t)
      BY <1>2, <3>1 DEF ToSet
    <3> QED BY <3>2
  <2> QED BY <1>3, <2>1, <2>2, <2>3
<1> QED BY <1>3 DEF Injective, c

(* A sequence of one element, and the empty one.                           *)
LEMMA OneElement ==
  ASSUME NEW S, NEW x \in S
  PROVE  /\ <<x>> \in Seq(S) /\ ToSet(<<x>>) = {x} /\ Injective(<<x>>)
         /\ Len(<<x>>) = 1 /\ <<x>>[1] = x /\ Head(<<x>>) = x
         /\ ToSet(<<>>) = {} /\ Injective(<<>>) /\ <<>> \in Seq(S)
BY DEF ToSet, Injective

(* A set of numbers has a least and a greatest element.                    *)
LEMMA Extremes ==
  ASSUME NEW n \in Nat, NEW S \in SUBSET (0 .. n), S # {}
  PROVE  Min(S) \in S /\ Max(S) \in S
<1> DEFINE R == OpToRel(<, Nat)
           T == {i \in Nat : n - i \in S}
<1>0. \A x, y \in Nat : x < y => <<x, y>> \in R
  BY Zenon DEF OpToRel
<1>1. IsWellFoundedOn(R, Nat)
  BY NatLessThanWellFounded
<1> HIDE DEF R
<1>2. Min(S) \in S
  <2>1. S \subseteq Nat
    OBVIOUS
  <2>2. PICK x \in S : \A y \in S : ~(<<y, x>> \in R)
    BY <1>1, <2>1, WFMin
  <2>3. ASSUME NEW y \in S PROVE x <= y
    <3>1. x \in Nat /\ y \in Nat
      BY <2>1
    <3>2. ~(y < x)
      BY <1>0, <2>2, <3>1
    <3> QED BY <3>1, <3>2
  <2> QED BY <2>3 DEF Min
<1>3. Max(S) \in S
  <2>1. T \subseteq Nat
    OBVIOUS
  <2>2. T # {}
    <3>1. PICK i \in S : TRUE
      OBVIOUS
    <3>2. n - i \in Nat /\ n - (n - i) = i
      OBVIOUS
    <3> QED BY <3>2
  <2>3. PICK x \in T : \A y \in T : ~(<<y, x>> \in R)
    <3> HIDE DEF T
    <3> QED BY <1>1, <2>1, <2>2, WFMin
  <2>4. x \in Nat /\ n - x \in S
    BY <2>3
  <2>5. ASSUME NEW y \in S PROVE n - x >= y
    <3>1. n - y \in Nat /\ n - (n - y) = y
      OBVIOUS
    <3>2. n - y \in T
      BY <3>1
    <3>3. ~(n - y < x)
      BY <1>0, <2>3, <2>4, <3>1, <3>2
    <3> QED BY <2>4, <3>1, <3>3
  <2> QED BY <2>4, <2>5 DEF Max
<1> QED BY <1>2, <1>3

(* The commands that a shutdown of several queues sends, in some order.    *)
LEMMA Listed ==
  ASSUME NEW S \in SUBSET Object
  PROVE  /\ SetToSeq({List(o) : o \in S}) \in Seq(Command)
         /\ Injective(SetToSeq({List(o) : o \in S}))
         /\ ToSet(SetToSeq({List(o) : o \in S})) = {List(o) : o \in S}
<1> DEFINE C == {List(o) : o \in S}
           n == Cardinality(C)
           f == [o \in S |-> List(o)]
           s == SetToSeq(C)
<1>1. IsFiniteSet(C)
  <2>1. IsFiniteSet(S)
    BY ServiceAssumption, FS_Union, FS_Subset DEF Object
  <2>2. f \in Surjection(S, C)
    BY DEF Surjection
  <2> HIDE DEF f, C
  <2> QED BY <2>1, <2>2, FS_Surjection
<1>2. C \subseteq Command
  BY DEF List, Command
<1> HIDE DEF C
<1>3. n \in Nat /\ ExistsBijection(1 .. n, C)
  BY <1>1, FS_CardinalityType
<1>4. s \in [1 .. n -> C] /\ IsInjective(s)
  <2>1. PICK b \in Bijection(1 .. n, C) : TRUE
    BY <1>3 DEF ExistsBijection
  <2>2. b \in [1 .. n -> C]
    BY <2>1 DEF Bijection, Injection
  <2>3. IsInjective(b)
    BY <2>1, <2>2 DEF Bijection, Injection, IsInjective
  <2> QED BY <2>2, <2>3 DEF SetToSeq
<1> HIDE DEF s
<1>5. s \in Seq(Command) /\ Len(s) = n /\ DOMAIN s = 1 .. n
  <2>1. s \in [1 .. n -> Command]
    BY <1>2, <1>4
  <2>2. s \in Seq(Command)
    BY <1>3, <2>1
  <2>3. DOMAIN s = 1 .. Len(s) /\ Len(s) \in Nat
    BY <2>2, LenProperties
  <2>4. Len(s) = n
    BY <1>3, <2>1, <2>3
  <2> QED BY <2>1, <2>2, <2>4
<1>6. ToSet(s) = C
  <2>1. s \in Injection(1 .. n, C)
    BY <1>4 DEF Injection, IsInjective
  <2>2. IsFiniteSet(1 .. n) /\ Cardinality(1 .. n) = n
    BY <1>3, FS_Interval
  <2>3. s \in Surjection(1 .. n, C)
    BY <1>1, <2>1, <2>2, FS_Injection
  <2> QED BY <1>5, <2>3 DEF Surjection, ToSet
<1>7. Injective(s)
  BY <1>4, <1>5 DEF Injective, IsInjective
<1> QED BY <1>5, <1>6, <1>7 DEF s, C

------------------------------------------------------------------------------
(* Keys, and the queues that are made for them.                            *)

(* A key is a type and a name.                                             *)
LEMMA KeyIs ==
  /\ \A k \in Key : k[1] \in Type /\ k[2] \in Name /\ k = <<k[1], k[2]>>
  /\ \A n \in Name : RedisKey(n) \in Key /\ RedisKey(n)[1] = "redis" /\ RedisKey(n)[2] = n
  /\ \A k \in Key : k[1] = "redis" => k = RedisKey(k[2])
BY DEF Key, Type, RedisKey

(* Calls of different callers make different queues.                       *)
LEMMA MadeIs ==
  /\ \A c \in Caller, k \in Key : Made(c, k) \in Object
  /\ \A c \in Client, k \in Key : Made(c, k) = c
  /\ \A k \in Key : Made(Service, k) = k[2] /\ k[2] \in Name
  /\ \A c \in Client : c \in Object /\ c \in Caller /\ c \notin Name /\ c # Service
  /\ \A n \in Name : n \in Object /\ n \notin Client
  /\ Service \in Caller /\ None \notin Object
BY ServiceAssumption, KeyIs DEF Made, Caller, Object

(* At first there is nothing.                                              *)
LEMMA SInvInit == Init => SInv
<1> SUFFICES ASSUME Init PROVE SInv
  OBVIOUS
<1>1. /\ wire = <<>> /\ ToSet(wire) = {} /\ Injective(wire)
      /\ wire \in Seq(Command)
  BY DEF Init, ToSet, Injective
<1>2. handlers \in Seq(Name) /\ Len(handlers) <= MaxHandlers
  <2>1. PICK n \in 0 .. MaxHandlers : handlers \in [1 .. n -> Name]
    BY DEF Init
  <2>2. n \in Nat /\ n <= MaxHandlers
    BY <2>1, ServiceAssumption
  <2>3. handlers \in Seq(Name)
    BY <2>1, <2>2
  <2>4. DOMAIN handlers = 1 .. Len(handlers) /\ Len(handlers) \in Nat
    BY <2>3, LenProperties
  <2>5. Len(handlers) = n
    BY <2>1, <2>2, <2>4
  <2> QED BY <2>2, <2>3, <2>5
<1>3. TypeOK
  <2>1. \A c \in Caller :
          [phase |-> "idle", key |-> None] \in [phase : Call, key : Key \cup {None}]
    BY DEF Call
  <2>2. call \in [Caller -> [phase : Call, key : Key \cup {None}]]
    BY <2>1 DEF Init
  <2>3. 0 \in 0 .. MaxHandlers /\ 0 \in 0 .. MaxFaults
    BY ServiceAssumption
  <2> QED BY <1>1, <1>2, <2>2, <2>3 DEF Init, TypeOK, Closing, Hook, Command
<1>4. Calling
  BY MadeIs DEF Init, Calling, Caller
<1>5. Early
  BY KeyIs, MadeIs DEF Init, Early
<1> QED BY <1>1, <1>3, <1>4, <1>5
        DEF Init, SInv, Keyed, Wired, Ending, Mapped, Opened, NothingStranded

------------------------------------------------------------------------------
(* Using the queues.                                                       *)

(* Tasks come and go without a change of the queues.                       *)
LEMMA TasksInv ==
  ASSUME SInv,
         UNCHANGED <<app, maps, objects, call, destroy, connections, wire, past>>,
         isPaused' \in [Object -> BOOLEAN],
         waiting' \in [Used -> Object \cup {None}],
         handledBy' \in [Used -> 0 .. MaxHandlers]
  PROVE  SInv'
<1> USE DEF app, maps, objects, destroy, connections, past
<1>1. TypeOK'
  BY DEF SInv, TypeOK
<1>2. Calling' /\ Keyed'
  BY DEF SInv, Calling, Keyed, Makes
<1>3. Early'
  BY DEF SInv, Early
<1>4. Wired' /\ Ending' /\ NothingStranded'
  BY DEF SInv, Wired, Ending, NothingStranded
<1>5. Mapped'
  BY DEF SInv, Mapped, Opened, Storing
<1> QED BY <1>1, <1>2, <1>3, <1>4, <1>5 DEF SInv

(* The calls that use a queue.                                             *)
LEMMA UseInv ==
  ASSUME SInv,
         \/ \E i \in Used : AddTask(i) \/ Handle(i)
         \/ \E i \in Used \cap DOMAIN handlers, paused \in BOOLEAN :
              PauseQueue(handlers[i], paused)
  PROVE  SInv'
<1> USE DEF app, maps, objects, destroy, connections, past
<1>0. /\ isPaused \in [Object -> BOOLEAN] /\ waiting \in [Used -> Object \cup {None}]
      /\ handledBy \in [Used -> 0 .. MaxHandlers]
      /\ handler \in [Object -> 0 .. MaxHandlers]
      /\ service \in [Name -> Object \cup {None}]
      /\ \A i \in DOMAIN handlers : handlers[i] \in Name
  BY LenProperties, ElementOfSeq DEF SInv, TypeOK
<1>1. ASSUME NEW i \in Used, AddTask(i) PROVE SInv'
  <2> DEFINE o == service[handlers[i]]
  <2>1. o \in Object \cup {None} /\ waiting' = [waiting EXCEPT ![i] = o]
    BY <1>0, <1>1 DEF AddTask
  <2> HIDE DEF o
  <2>2. waiting' \in [Used -> Object \cup {None}]
    BY <1>0, <2>1
  <2> QED BY <1>0, <1>1, <2>2, TasksInv DEF AddTask
<1>2. ASSUME NEW i \in Used, Handle(i) PROVE SInv'
  <2> DEFINE o == waiting[i]
             h == handler[o]
  <2>1. o \in Object /\ h \in 0 .. MaxHandlers
    BY <1>0, <1>2 DEF Handle
  <2>2. /\ handledBy' = [handledBy EXCEPT ![i] = h]
        /\ waiting' = [waiting EXCEPT ![i] = None]
    BY <1>2 DEF Handle
  <2> HIDE DEF o, h
  <2>3. /\ handledBy' \in [Used -> 0 .. MaxHandlers]
        /\ waiting' \in [Used -> Object \cup {None}]
    BY <1>0, <2>1, <2>2
  <2> QED BY <1>0, <1>2, <2>3, TasksInv DEF Handle
<1>3. ASSUME NEW n \in Name, NEW paused \in BOOLEAN, PauseQueue(n, paused)
      PROVE  SInv'
  <2> DEFINE o == service[n]
  <2>1. isPaused' = [isPaused EXCEPT ![o] = paused]
    BY <1>3 DEF PauseQueue
  <2> HIDE DEF o
  <2>2. isPaused' \in [Object -> BOOLEAN]
    BY <1>0, <2>1
  <2> QED BY <1>0, <1>3, <2>2, TasksInv DEF PauseQueue
<1> QED BY <1>0, <1>1, <1>2, <1>3

------------------------------------------------------------------------------
(* Creating queues.                                                        *)

(* What every call of createQueue starts from.                             *)
MayCreate(c, k) ==
  /\ call[c].phase = "idle"
  /\ c = Service => initPhase = "creating" /\ k[1] = "redis"
  /\ c # Service => initPhase # "creating"

(* A queue that is made has not been made before.                          *)
LEMMA NotMade ==
  ASSUME SInv, NEW c \in Caller, NEW k \in Key, MayCreate(c, k), factory[k] = None
  PROVE  closing[Made(c, k)] = "unmade" /\ Made(c, k) \in Object
<1>1. CASE c # Service
  BY <1>1, MadeIs DEF SInv, Calling, MayCreate, Caller
<1>2. CASE c = Service
  <2>1. k = RedisKey(k[2]) /\ Made(c, k) = k[2] /\ k[2] \in Name /\ k[2] \in Object
    BY <1>2, KeyIs, MadeIs DEF MayCreate
  <2>2. /\ initPhase = "creating" /\ call[Service].phase = "idle"
        /\ k[2] # None /\ factory[RedisKey(k[2])] = None
    BY <1>2, <2>1, MadeIs DEF MayCreate
  <2> HIDE DEF RedisKey
  <2>3. closing[k[2]] \in {"unmade", "open"}
    BY <2>1, <2>2 DEF SInv, Early
  <2> QED BY <2>1, <2>2, <2>3 DEF SInv, Early
<1> QED BY <1>1, <1>2

(* The call is somewhere else than before, and nothing is made.            *)
LEMMA CallMoves ==
  ASSUME SInv, NEW c \in Caller, NEW k \in Key, MayCreate(c, k),
         NEW p \in Call, call' = [call EXCEPT ![c] = [phase |-> p, key |-> k]],
         \/ p = "returned" /\ factory[k] # None
         \/ c # Service /\ p \in {"connecting", "channel"} /\ k[1] = "rabbitmq",
         UNCHANGED <<app, maps, objects, tasks, destroy, connections, wire, past>>
  PROVE  SInv'
<1> USE DEF app, maps, objects, tasks, destroy, connections, past
<1> DEFINE r == [phase |-> p, key |-> k]
<1>0. /\ call \in [Caller -> [phase : Call, key : Key \cup {None}]]
      /\ r \in [phase : Call, key : Key \cup {None}]
      /\ r.phase = p /\ r.key = k /\ p # "storing" /\ p # "idle"
      /\ call' = [call EXCEPT ![c] = r]
  BY DEF SInv, TypeOK
<1> HIDE DEF r
<1>1. /\ call' \in [Caller -> [phase : Call, key : Key \cup {None}]]
      /\ call'[c] = r /\ \A d \in Caller \ {c} : call'[d] = call[d]
  BY <1>0
<1>2. TypeOK'
  BY <1>1 DEF SInv, TypeOK
<1>3. Calling'
  BY <1>0, <1>1, MadeIs DEF SInv, Calling, Makes, MayCreate, Caller
<1>4. Early'
  BY <1>0, <1>1, MadeIs DEF SInv, Early, MayCreate, Caller
<1>5. Mapped'
  <2>1. ASSUME NEW o \in Object, Storing(o) PROVE Storing(o)'
    BY <1>0, <1>1, <2>1 DEF Storing, MayCreate
  <2>2. \A d \in Client : call'[d].phase = "storing" =>
           call[d].phase = "storing" /\ call'[d].key = call[d].key
    BY <1>0, <1>1, MadeIs
  <2> QED BY <2>1, <2>2 DEF SInv, Mapped, Opened
<1>6. Keyed' /\ Wired' /\ Ending' /\ NothingStranded'
  BY DEF SInv, Keyed, Wired, Ending, NothingStranded
<1> QED BY <1>2, <1>3, <1>4, <1>5, <1>6 DEF SInv

(* A queue is made.                                                        *)
LEMMA MakeInv ==
  ASSUME SInv, NEW c \in Caller, NEW k \in Key, Make(c, k),
         closing[Made(c, k)] = "unmade",
         c = Service => initPhase = "creating" /\ k[1] = "redis",
         c # Service => initPhase # "creating",
         call[c].phase \in {"idle", "channel"},
         k[1] = "redis" => factory[k] = None /\ redisClient' # "none",
         NEW p \in {"storing", "returned"},
         call' = [call EXCEPT ![c] = [phase |-> p, key |-> k]],
         \/ p = "storing" /\ UNCHANGED factory
         \/ /\ p = "returned" /\ c # Service /\ k[1] = "memory"
            /\ factory[k] = None /\ factory' = [factory EXCEPT ![k] = c],
         redisClient' = redisClient \/ (redisClient = "none" /\ redisClient' = "open"),
         UNCHANGED <<app, service, handler, tasks, destroy, rabbitMQ, wire, past>>
  PROVE  SInv'
<1> USE DEF app, tasks, destroy, past
<1> DEFINE r == [phase |-> p, key |-> k]
           m == Made(c, k)
<1>0. /\ call \in [Caller -> [phase : Call, key : Key \cup {None}]]
      /\ r \in [phase : Call, key : Key \cup {None}]
      /\ r.phase = p /\ r.key = k
      /\ call' = [call EXCEPT ![c] = r]
  BY DEF SInv, TypeOK, Call
<1>m. /\ m \in Object /\ closing[m] = "unmade"
      /\ key' = [key EXCEPT ![m] = k] /\ closing' = [closing EXCEPT ![m] = "open"]
      /\ c # Service => m = c /\ c \in Client /\ m \notin Name
      /\ c = Service => m = k[2] /\ k = RedisKey(m) /\ m \in Name
      /\ Made(c, r.key) = m
  BY <1>0, MadeIs, KeyIs DEF Make, Caller
<1> HIDE DEF r, m
<1>1. /\ call' \in [Caller -> [phase : Call, key : Key \cup {None}]]
      /\ call'[c] = r /\ \A d \in Caller \ {c} : call'[d] = call[d]
  BY <1>0
<1>2. /\ key' \in [Object -> Key \cup {None}] /\ closing' \in [Object -> Closing]
      /\ key'[m] = k /\ closing'[m] = "open"
      /\ \A o \in Object \ {m} : key'[o] = key[o] /\ closing'[o] = closing[o]
  BY <1>m DEF SInv, TypeOK, Closing
<1>3. /\ factory' \in [Key -> Object \cup {None}]
      /\ \A l \in Key : factory'[l] = factory[l] \/ (l = k /\ factory'[l] = m /\ factory[l] = None)
  BY <1>m DEF SInv, TypeOK
<1>4. TypeOK'
  BY <1>1, <1>2, <1>3, <1>m DEF SInv, TypeOK
<1>5. Calling'
  <2>1. ASSUME NEW d \in Caller, call'[d].phase # "idle" PROVE call'[d].key \in Key
    BY <1>0, <1>1, <2>1 DEF SInv, Calling
  <2>2. ASSUME NEW d \in Client
        PROVE  /\ call'[d].phase \in {"idle", "connecting", "channel", "failed"} =>
                    closing'[d] = "unmade"
               /\ call'[d].phase \in {"connecting", "channel"} =>
                    call'[d].key[1] = "rabbitmq"
    <3>1. CASE d = c
      BY <1>0, <1>1, <3>1
    <3>2. CASE d # c
      <4>1. d # m /\ d \in Object /\ d \in Caller
        BY <1>m, <3>2, MadeIs
      <4> QED BY <1>1, <1>2, <3>2, <4>1 DEF SInv, Calling
    <3> QED BY <3>1, <3>2
  <2>3. ASSUME NEW d \in Caller, call'[d].phase = "storing"
        PROVE  closing'[Makes(d)'] # "unmade" /\ key'[Makes(d)'] = call'[d].key
    <3>1. CASE d = c
      BY <1>0, <1>1, <1>2, <1>m, <3>1 DEF Makes
    <3>2. CASE d # c
      <4>1. call'[d] = call[d] /\ call[d].key \in Key
        BY <1>1, <2>3, <3>2 DEF SInv, Calling
      <4>2. closing[Makes(d)] # "unmade" /\ key[Makes(d)] = call[d].key
        BY <2>3, <4>1 DEF SInv, Calling
      <4>3. Makes(d) \in Object /\ Makes(d) # m /\ Makes(d)' = Makes(d)
        BY <1>m, <4>1, <4>2, MadeIs DEF Makes
      <4> QED BY <1>2, <4>1, <4>2, <4>3
    <3> QED BY <3>1, <3>2
  <2>4. /\ call'[Service].phase \in {"idle", "storing", "returned"}
        /\ call'[Service].phase # "idle" =>
             initPhase' = "creating" /\ call'[Service].key[1] = "redis"
    BY <1>0, <1>1, MadeIs DEF SInv, Calling
  <2> QED BY <2>1, <2>2, <2>3, <2>4 DEF Calling
<1>6. Keyed'
  BY <1>2, <1>m, KeyIs DEF SInv, Keyed
<1>7. Early'
  <2> SUFFICES ASSUME initPhase' = "creating" PROVE Early'
    BY DEF Early
  <2>1. c = Service /\ k = RedisKey(m) /\ m \in Name /\ factory' = factory
        /\ p = "storing" /\ call[Service].phase # "storing"
    BY <1>m DEF SInv, Calling
  <2>2. \A d \in Client : call'[d] = call[d]
    BY <1>1, <2>1, MadeIs
  <2>3. redisClient' \in {"none", "open"}
    BY DEF SInv, Early
  <2>4. \A l \in Key : l[2] \in Object
    BY KeyIs, MadeIs
  <2>5. ASSUME NEW l \in Key, factory'[l] # None
        PROVE  l[1] = "redis" /\ factory'[l] = l[2] /\ closing'[l[2]] = "open"
    BY <1>2, <2>1, <2>4, <2>5 DEF SInv, Early
  <2>6. ASSUME NEW n \in Name
        PROVE  /\ service'[n] # None =>
                    service'[n] = n /\ factory'[RedisKey(n)] = n
               /\ closing'[n] # "unmade" =>
                    \/ factory'[RedisKey(n)] = n
                    \/ call'[Service].phase = "storing"
                       /\ call'[Service].key = RedisKey(n)
    BY <1>0, <1>1, <1>2, <2>1, <2>6, MadeIs DEF SInv, Early
  <2>7. \A o \in Object : handler'[o] = 0 /\ closing'[o] \in {"unmade", "open"}
    BY <1>2 DEF SInv, Early
  <2>8. call'[Service].phase # "returned"
    BY <1>0, <1>1, <2>1
  <2>9. /\ hook' = "none" /\ wire' = <<>> /\ byClient' = {} /\ faults' = 0
        /\ \A d \in Client : call'[d].phase = "idle"
    BY <2>2 DEF SInv, Early
  <2> QED BY <2>3, <2>5, <2>6, <2>7, <2>8, <2>9 DEF Early
<1>8. Wired'
  BY <1>2, <1>m DEF SInv, Wired
<1>9. Ending'
  BY <1>2, <1>m DEF SInv, Ending
<1>10. NothingStranded'
  BY <1>2, <1>m DEF SInv, NothingStranded
<1>11. Mapped'
  <2> SUFFICES ASSUME hook' = "none" PROVE Mapped'
    BY DEF Mapped
  <2>1. ASSUME NEW n \in Name, service'[n] # None
        PROVE  factory'[RedisKey(n)] = service'[n]
    BY <1>3, <2>1, KeyIs DEF SInv, Mapped
  <2>2. ASSUME NEW n \in Name, service'[n] # None, NEW d \in Client,
               call'[d].phase = "storing"
        PROVE  call'[d].key # RedisKey(n)
    <3>1. CASE d = c
      <4>1. k = RedisKey(n) => factory[k] = None /\ factory[k] = service[n]
        BY <2>2, KeyIs DEF SInv, Mapped
      <4> QED BY <1>0, <1>1, <2>2, <3>1, <4>1
    <3>2. CASE d # c
      BY <1>1, <2>2, <3>2, MadeIs DEF SInv, Mapped
    <3> QED BY <3>1, <3>2
  <2>3. ASSUME NEW o \in Object, closing'[o] = "open"
        PROVE  \/ factory'[key'[o]] = o
               \/ Storing(o)'
               \/ \E q \in Object \ {o} : closing'[q] # "unmade" /\ key'[q] = key'[o]
    <3>1. CASE o = m
      <4>1. CASE p = "storing"
        BY <1>0, <1>1, <1>m, <3>1, <4>1 DEF Storing
      <4>2. CASE p = "returned"
        BY <1>2, <1>m, <3>1, <4>2 DEF SInv, TypeOK
      <4> QED BY <4>1, <4>2
    <3>2. CASE o # m
      <4>1. closing[o] = "open" /\ key'[o] = key[o] /\ key[o] \in Key
        BY <1>2, <2>3, <3>2 DEF SInv, Keyed
      <4>2. CASE factory[key[o]] = o
        BY <1>3, <4>1, <4>2, MadeIs
      <4>3. ASSUME Storing(o) PROVE Storing(o)'
        <5>1. PICK d \in Caller : call[d].phase = "storing" /\ Made(d, call[d].key) = o
          BY <4>3 DEF Storing
        <5> QED BY <1>1, <5>1 DEF Storing
      <4>4. ASSUME NEW q \in Object \ {o}, closing[q] # "unmade", key[q] = key[o]
            PROVE  closing'[q] # "unmade" /\ key'[q] = key'[o]
        BY <1>2, <1>m, <4>1, <4>4
      <4> QED BY <4>1, <4>2, <4>3, <4>4 DEF SInv, Mapped, Opened
    <3> QED BY <3>1, <3>2
  <2> QED BY <2>1, <2>2, <2>3 DEF Mapped, Opened
<1> QED BY <1>4, <1>5, <1>6, <1>7, <1>8, <1>9, <1>10, <1>11 DEF SInv

(* createQueue, up to its first await.                                     *)
LEMMA CreateInv ==
  ASSUME SInv, NEW c \in Caller, NEW k \in Key, MayCreate(c, k), CreateQueue(c, k)
  PROVE  SInv'
<1> USE DEF tasks, connections, objects, maps
<1>1. CASE factory[k] # None /\ Begins(c, k, "returned")
           /\ UNCHANGED <<key, closing, factory, redisClient>>
  BY <1>1, CallMoves DEF CreateQueue, Begins, Call
<1>2. ASSUME factory[k] = None, k[1] = "redis",
             redisClient' = IF redisClient = "none" THEN "open" ELSE redisClient,
             Make(c, k), Begins(c, k, "storing"), UNCHANGED factory
      PROVE  SInv'
  <2>1. closing[Made(c, k)] = "unmade"
    BY <1>2, NotMade
  <2>2. redisClient' # "none"
    BY <1>2
  <2> QED BY <1>2, <2>1, <2>2, MakeInv DEF MayCreate, CreateQueue, Begins
<1>3. ASSUME factory[k] = None, k[1] = "memory", Make(c, k),
             Begins(c, k, "returned"), factory' = [factory EXCEPT ![k] = c],
             UNCHANGED redisClient
      PROVE  SInv'
  <2>1. closing[Made(c, k)] = "unmade"
    BY <1>3, NotMade
  <2>2. c # Service
    BY <1>3 DEF MayCreate
  <2> QED BY <1>3, <2>1, <2>2, MakeInv DEF MayCreate, CreateQueue, Begins
<1>4. ASSUME factory[k] = None, k[1] = "rabbitmq",
             Begins(c, k, IF rabbitMQ = "none" THEN "connecting" ELSE "channel"),
             UNCHANGED <<key, closing, factory, redisClient>>
      PROVE  SInv'
  <2> DEFINE p == IF rabbitMQ = "none" THEN "connecting" ELSE "channel"
  <2>1. p \in {"connecting", "channel"} /\ p \in Call
    BY DEF Call
  <2>2. call' = [call EXCEPT ![c] = [phase |-> p, key |-> k]]
    BY <1>4 DEF Begins
  <2>3. c # Service
    BY <1>4 DEF MayCreate
  <2>4. UNCHANGED <<app, maps, objects, tasks, destroy, connections, wire, past>>
    BY <1>4 DEF CreateQueue
  <2> HIDE DEF p
  <2> QED BY <1>4, <2>1, <2>2, <2>3, <2>4, CallMoves
<1> QED BY <1>1, <1>2, <1>3, <1>4 DEF CreateQueue

(* The broker answers: the queue is made, or the call fails.               *)
LEMMA BrokerInv ==
  ASSUME SInv, NEW c \in Client, Connected(c) \/ ChannelReady(c) \/ CreationFails(c)
  PROVE  SInv'
<1> USE DEF app, maps, objects, tasks, destroy, connections, past
<1> DEFINE k == call[c].key
<1>0. /\ call[c].phase \in {"connecting", "channel"}
      /\ k \in Key /\ k[1] = "rabbitmq" /\ closing[c] = "unmade" /\ Made(c, k) = c
      /\ c \in Caller /\ c # Service /\ initPhase # "creating"
      /\ call \in [Caller -> [phase : Call, key : Key \cup {None}]]
  BY MadeIs DEF SInv, TypeOK, Calling, Early, Connected, ChannelReady, CreationFails
<1> HIDE DEF k
<1>1. ASSUME NEW p \in Call, Moves(c, p)
      PROVE  /\ call' = [call EXCEPT ![c] = [phase |-> p, key |-> k]]
             /\ call' \in [Caller -> [phase : Call, key : Key \cup {None}]]
             /\ call'[c].phase = p /\ call'[c].key = k
             /\ \A d \in Caller \ {c} : call'[d] = call[d]
  <2>1. [call[c] EXCEPT !.phase = p] = [phase |-> p, key |-> k]
    BY <1>0 DEF k
  <2>2. call' = [call EXCEPT ![c] = [call[c] EXCEPT !.phase = p]]
    BY <1>1 DEF Moves
  <2>3. [phase |-> p, key |-> k] \in [phase : Call, key : Key \cup {None}]
    BY <1>0
  <2> QED BY <1>0, <2>1, <2>2, <2>3
<1>2. CASE ChannelReady(c)
  <2>1. call' = [call EXCEPT ![c] = [phase |-> "storing", key |-> k]] /\ Make(c, k)
    BY <1>1, <1>2 DEF ChannelReady, Call, k
  <2> QED BY <1>0, <1>2, <2>1, MakeInv DEF ChannelReady
<1>3. ASSUME NEW p \in {"channel", "failed"}, Moves(c, p),
             faults' \in 0 .. MaxFaults, faults' = faults \/ faults' # 0,
             rabbitMQ' \in {"none", "open", "closed"},
             UNCHANGED <<app, maps, objects, tasks, destroy, redisClient, wire,
                         byClient>>
      PROVE  SInv'
  <2>0. p \in Call
    BY DEF Call
  <2>1. /\ call' \in [Caller -> [phase : Call, key : Key \cup {None}]]
        /\ call'[c].phase = p /\ call'[c].key = k
        /\ \A d \in Caller \ {c} : call'[d] = call[d]
    BY <1>1, <1>3, <2>0
  <2>2. TypeOK'
    BY <1>3, <2>1 DEF SInv, TypeOK
  <2>3. Calling'
    BY <1>0, <1>3, <2>1, MadeIs DEF SInv, Calling, Makes
  <2>4. Early'
    BY <1>0, <1>3 DEF Early
  <2>5. Mapped'
    <3>1. ASSUME NEW o \in Object, Storing(o) PROVE Storing(o)'
      BY <1>0, <2>1, <3>1 DEF Storing
    <3>2. \A d \in Client : call'[d].phase = "storing" => call'[d] = call[d]
      BY <2>1, MadeIs
    <3> QED BY <1>3, <3>1, <3>2 DEF SInv, Mapped, Opened
  <2>6. Keyed' /\ Wired' /\ Ending' /\ NothingStranded'
    BY <1>3 DEF SInv, Keyed, Wired, Ending, NothingStranded
  <2> QED BY <2>2, <2>3, <2>4, <2>5, <2>6 DEF SInv
<1>4. CASE Connected(c)
  BY <1>3, <1>4 DEF Connected, SInv, TypeOK
<1>5. CASE CreationFails(c)
  <2>1. faults' \in 0 .. MaxFaults /\ (faults' = faults \/ faults' # 0)
    BY <1>5, ServiceAssumption DEF CreationFails, SInv, TypeOK
  <2>2. rabbitMQ' \in {"none", "open", "closed"}
    BY <1>5 DEF CreationFails, SInv, TypeOK
  <2> QED BY <1>3, <1>5, <2>1, <2>2 DEF CreationFails
<1> QED BY <1>2, <1>4, <1>5

(* A queue is stored under the key it has been made for.                   *)
LEMMA StoreInv == ASSUME SInv, NEW c \in Caller, Store(c) PROVE SInv'
<1> USE DEF app, objects, tasks, destroy, connections, past
<1> DEFINE k == call[c].key
           m == Made(c, k)
<1>0. /\ call[c].phase = "storing" /\ k \in Key /\ m \in Object /\ m # None
      /\ closing[m] # "unmade" /\ key[m] = k
      /\ c # Service => c \in Client /\ initPhase # "creating"
      /\ c = Service => initPhase = "creating" /\ k = RedisKey(m) /\ m \in Name
      /\ call \in [Caller -> [phase : Call, key : Key \cup {None}]]
  <2>1. k \in Key /\ closing[m] # "unmade" /\ key[m] = k /\ call[c].phase = "storing"
    BY DEF Store, SInv, Calling, Makes
  <2>2. c = Service => k[1] = "redis" /\ initPhase = "creating"
    BY <2>1 DEF SInv, Calling
  <2>3. c # Service => c \in Client /\ initPhase # "creating"
    BY <2>1 DEF SInv, Early, Caller
  <2> QED BY <2>1, <2>2, <2>3, MadeIs, KeyIs DEF SInv, TypeOK
<1>1. /\ call' \in [Caller -> [phase : Call, key : Key \cup {None}]]
      /\ call'[c].phase = "returned" /\ call'[c].key = k
      /\ \A d \in Caller \ {c} : call'[d] = call[d]
  <2>1. [call[c] EXCEPT !.phase = "returned"] = [phase |-> "returned", key |-> k]
    BY <1>0
  <2>2. call' = [call EXCEPT ![c] = [call[c] EXCEPT !.phase = "returned"]]
    BY DEF Store, Moves
  <2>3. [phase |-> "returned", key |-> k] \in [phase : Call, key : Key \cup {None}]
    BY <1>0 DEF Call
  <2> QED BY <1>0, <2>1, <2>2, <2>3
<1>2. factory' = [factory EXCEPT ![k] = m]
  BY DEF Store
<1>u. UNCHANGED <<app, service, objects, tasks, destroy, connections, wire, past>>
  BY DEF Store
<1> HIDE DEF k, m
<1>3. /\ factory' \in [Key -> Object \cup {None}] /\ factory'[k] = m
      /\ \A l \in Key \ {k} : factory'[l] = factory[l]
  BY <1>0, <1>2 DEF SInv, TypeOK
<1>4. TypeOK'
  BY <1>1, <1>3, <1>u DEF SInv, TypeOK
<1>5. Calling'
  <2>1. /\ \A d \in Caller : call'[d].phase # "idle" => call'[d].key \in Key
        /\ call'[Service].phase \in {"idle", "storing", "returned"}
        /\ call'[Service].phase # "idle" =>
             initPhase' = "creating" /\ call'[Service].key[1] = "redis"
    BY <1>0, <1>1, <1>u, MadeIs, KeyIs DEF SInv, Calling
  <2>2. \A d \in Client :
          /\ call'[d].phase \in {"idle", "connecting", "channel", "failed"} =>
               closing'[d] = "unmade"
          /\ call'[d].phase \in {"connecting", "channel"} =>
               call'[d].key[1] = "rabbitmq"
    BY <1>1, <1>u, MadeIs DEF SInv, Calling
  <2>3. \A d \in Caller : call'[d].phase = "storing" =>
          closing'[Makes(d)'] # "unmade" /\ key'[Makes(d)'] = call'[d].key
    BY <1>1, <1>u DEF SInv, Calling, Makes
  <2> QED BY <2>1, <2>2, <2>3 DEF Calling
<1>6. Early'
  <2> SUFFICES ASSUME initPhase' = "creating" PROVE Early'
    BY DEF Early
  <2>0. c = Service /\ k = RedisKey(m) /\ m \in Name /\ initPhase = "creating"
    BY <1>0, <1>u
  <2>1. \A d \in Client : call'[d].phase = "idle"
    <3>1. \A d \in Client : call[d].phase = "idle"
      BY <2>0 DEF SInv, Early
    <3>2. \A d \in Client : call'[d] = call[d]
      BY <1>1, <2>0, MadeIs
    <3> QED BY <3>1, <3>2
  <2>2. ASSUME NEW l \in Key, factory'[l] # None
        PROVE  l[1] = "redis" /\ factory'[l] = l[2] /\ closing'[l[2]] = "open"
    <3>1. CASE l = k
      <4>1. l[1] = "redis" /\ l[2] = m
        BY <2>0, <3>1, KeyIs
      <4>2. closing[m] \in {"unmade", "open"}
        BY <1>0, <2>0 DEF SInv, Early
      <4> QED BY <1>0, <1>3, <1>u, <3>1, <4>1, <4>2
    <3>2. CASE l # k
      BY <1>3, <1>u, <2>0, <2>2, <3>2 DEF SInv, Early
    <3> QED BY <3>1, <3>2
  <2>3. ASSUME NEW n \in Name
        PROVE  /\ service'[n] # None =>
                    service'[n] = n /\ factory'[RedisKey(n)] = n
               /\ closing'[n] # "unmade" => factory'[RedisKey(n)] = n
    <3>1. RedisKey(n) \in Key /\ (RedisKey(n) = k => n = m)
      BY <2>0, KeyIs
    <3>2. RedisKey(n) # k => call[Service].key # RedisKey(n)
      BY <2>0 DEF k
    <3> QED BY <1>3, <1>u, <2>0, <3>1, <3>2 DEF SInv, Early
  <2>4. call'[Service].phase = "returned" => factory'[call'[Service].key] # None
    BY <1>0, <1>1, <1>3, <2>0
  <2> QED BY <1>u, <2>0, <2>1, <2>2, <2>3, <2>4 DEF SInv, Early
<1>7. Mapped'
  <2> SUFFICES ASSUME hook' = "none" PROVE Mapped'
    BY DEF Mapped
  <2>1. ASSUME NEW n \in Name, service'[n] # None
        PROVE  factory'[RedisKey(n)] = service'[n]
    <3>1. CASE RedisKey(n) = k
      <4>1. c = Service
        BY <1>0, <1>u, <2>1, <3>1 DEF SInv, Mapped, k
      <4>2. n = m /\ service[n] = n
        BY <1>0, <1>u, <2>1, <3>1, <4>1, KeyIs DEF SInv, Early
      <4> QED BY <1>3, <1>u, <3>1, <4>2
    <3>2. CASE RedisKey(n) # k
      BY <1>3, <1>u, <2>1, <3>2, KeyIs DEF SInv, Mapped
    <3> QED BY <3>1, <3>2
  <2>2. ASSUME NEW n \in Name, service'[n] # None, NEW d \in Client,
               call'[d].phase = "storing"
        PROVE  call'[d].key # RedisKey(n)
    BY <1>1, <1>u, <2>2, MadeIs DEF SInv, Mapped
  <2>3. ASSUME NEW o \in Object, closing'[o] = "open"
        PROVE  \/ factory'[key'[o]] = o
               \/ Storing(o)'
               \/ \E q \in Object \ {o} : closing'[q] # "unmade" /\ key'[q] = key'[o]
    <3>1. CASE key[o] = k
      BY <1>0, <1>3, <1>u, <3>1
    <3>2. CASE key[o] # k
      <4>1. key[o] \in Key /\ o # m
        BY <1>0, <1>u, <2>3, <3>2 DEF SInv, Keyed
      <4>2. ASSUME Storing(o) PROVE Storing(o)'
        <5>1. PICK d \in Caller : call[d].phase = "storing" /\ Made(d, call[d].key) = o
          BY <4>2 DEF Storing
        <5>2. d # c
          BY <4>1, <5>1 DEF m, k
        <5> QED BY <1>1, <5>1, <5>2 DEF Storing
      <4> QED BY <1>3, <1>u, <2>3, <3>2, <4>1, <4>2 DEF SInv, Mapped, Opened
    <3> QED BY <3>1, <3>2
  <2> QED BY <2>1, <2>2, <2>3 DEF Mapped, Opened
<1>8. Keyed' /\ Wired' /\ Ending' /\ NothingStranded'
  BY <1>u DEF SInv, Keyed, Wired, Ending, NothingStranded
<1> QED BY <1>4, <1>5, <1>6, <1>7, <1>8 DEF SInv

------------------------------------------------------------------------------
(* Initialising.                                                           *)

(* The service asks for the queue of the first handler that lacks one.     *)
LEMMA ServiceCreatesInv == ASSUME SInv, ServiceCreates PROVE SInv'
<1> DEFINE n == handlers[Min(Missing)]
           k == <<"redis", n>>
<1>1. handlers \in Seq(Name) /\ Len(handlers) <= MaxHandlers
      /\ DOMAIN handlers = 1 .. Len(handlers) /\ Len(handlers) \in Nat
  BY LenProperties DEF SInv, TypeOK
<1>2. Missing \in SUBSET (0 .. MaxHandlers) /\ Missing # {}
  BY <1>1, ServiceAssumption DEF ServiceCreates, Missing
<1>3. Min(Missing) \in Missing
  BY <1>2, Extremes, ServiceAssumption
<1>4. n \in Name
  BY <1>1, <1>3, ElementOfSeq DEF Missing
<1> HIDE DEF n
<1>5. k \in Key /\ k[1] = "redis" /\ CreateQueue(Service, k) /\ Service \in Caller
  BY <1>4, KeyIs, MadeIs DEF RedisKey, ServiceCreates, n
<1> HIDE DEF k
<1> QED BY <1>5, CreateInv DEF MayCreate, ServiceCreates

(* The service maps the name to the queue it is given.                     *)
LEMMA ServiceGetsInv == ASSUME SInv, ServiceGets PROVE SInv'
<1> USE DEF app, objects, tasks, destroy, connections, past
<1> DEFINE k == call[Service].key
           n == k[2]
<1>0. /\ initPhase = "creating" /\ call[Service].phase = "returned"
      /\ k \in Key /\ k = RedisKey(n) /\ n \in Name /\ n # None
      /\ factory[k] = n
      /\ call \in [Caller -> [phase : Call, key : Key \cup {None}]]
  <2>1. k \in Key /\ k[1] = "redis" /\ initPhase = "creating"
        /\ call[Service].phase = "returned"
    BY MadeIs DEF ServiceGets, SInv, Calling
  <2>2. factory[k] = n
    BY <2>1 DEF SInv, Early
  <2>3. k = RedisKey(n) /\ n \in Name
    BY <2>1, KeyIs
  <2>4. n # None
    BY <2>3, MadeIs
  <2> QED BY <2>1, <2>2, <2>3, <2>4 DEF SInv, TypeOK
<1>1. /\ call' \in [Caller -> [phase : Call, key : Key \cup {None}]]
      /\ call'[Service].phase = "idle"
      /\ \A d \in Caller \ {Service} : call'[d] = call[d]
  <2>1. [call[Service] EXCEPT !.phase = "idle"] = [phase |-> "idle", key |-> k]
    BY <1>0, MadeIs
  <2>2. call' = [call EXCEPT ![Service] = [call[Service] EXCEPT !.phase = "idle"]]
    BY DEF ServiceGets, Moves
  <2>3. [phase |-> "idle", key |-> k] \in [phase : Call, key : Key \cup {None}]
    BY <1>0 DEF Call
  <2> QED BY <1>0, <2>1, <2>2, <2>3, MadeIs
<1>2. service' = [service EXCEPT ![n] = n]
  BY <1>0 DEF ServiceGets
<1>u. UNCHANGED <<app, factory, objects, tasks, destroy, connections, wire, past>>
  BY DEF ServiceGets
<1>c. \A d \in Client : call'[d] = call[d] /\ call[d].phase = "idle"
  <2>1. \A d \in Client : call[d].phase = "idle"
    BY <1>0 DEF SInv, Early
  <2> QED BY <1>1, <2>1, MadeIs
<1> HIDE DEF k, n
<1>3. /\ service' \in [Name -> Object \cup {None}] /\ service'[n] = n
      /\ \A l \in Name \ {n} : service'[l] = service[l]
  BY <1>0, <1>2, MadeIs DEF SInv, TypeOK
<1>4. TypeOK'
  BY <1>1, <1>3, <1>u DEF SInv, TypeOK
<1>5. Calling'
  <2>1. \A c \in Caller : call'[c].phase # "idle" => call'[c] = call[c]
    BY <1>1
  <2>2. \A c \in Client :
          call[c].phase \in {"idle", "connecting", "channel", "failed"} =>
            closing[c] = "unmade"
    BY DEF SInv, Calling
  <2>3. \A c \in Caller : call'[c].phase # "storing"
    BY <1>1, <1>c DEF Caller
  <2>4. \A c \in Caller : call'[c].phase # "idle" => call'[c].key \in Key
    BY <2>1 DEF SInv, Calling
  <2> QED BY <1>1, <1>c, <1>u, <2>2, <2>3, <2>4 DEF Calling
<1>6. Early'
  <2>1. ASSUME NEW l \in Name
        PROVE  /\ service'[l] # None =>
                    service'[l] = l /\ factory'[RedisKey(l)] = l
               /\ closing'[l] # "unmade" => factory'[RedisKey(l)] = l
    <3>1. call[Service].phase # "storing"
      BY <1>0
    <3>2. /\ service[l] # None => service[l] = l /\ factory[RedisKey(l)] = l
          /\ closing[l] # "unmade" => factory[RedisKey(l)] = l
      BY <1>0, <3>1 DEF SInv, Early
    <3> QED BY <1>0, <1>3, <1>u, <3>2
  <2>2. \A d \in Client : call'[d].phase = "idle"
    BY <1>c
  <2> QED BY <1>0, <1>1, <1>u, <2>1, <2>2 DEF SInv, Early
<1>7. Mapped'
  <2>1. ASSUME NEW l \in Name, service'[l] # None
        PROVE  factory'[RedisKey(l)] = service'[l]
    BY <1>0, <1>3, <1>u, <2>1 DEF SInv, Early
  <2>2. \A d \in Client : call'[d].phase # "storing"
    BY <1>c
  <2>3. ASSUME NEW o \in Object, Storing(o) PROVE FALSE
    BY <1>0, <1>c, <2>3 DEF Storing, Caller
  <2> QED BY <1>u, <2>1, <2>2, <2>3 DEF SInv, Mapped, Opened
<1>8. Keyed' /\ Wired' /\ Ending' /\ NothingStranded'
  BY <1>u DEF SInv, Keyed, Wired, Ending, NothingStranded
<1> QED BY <1>4, <1>5, <1>6, <1>7, <1>8 DEF SInv

(* Every queue of the service gets the number of a handler, and is open.   *)
LEMMA RegisterInv == ASSUME SInv, RegisterHandlers PROVE SInv'
<1> USE DEF maps, tasks, destroy, connections, past
<1> DEFINE H(o) == {i \in Registered : service[handlers[i]] = o} \cup {0}
           h(o) == Max(H(o))
<1>1. handlers \in Seq(Name) /\ Len(handlers) <= MaxHandlers
      /\ DOMAIN handlers = 1 .. Len(handlers) /\ Len(handlers) \in Nat
  BY LenProperties DEF SInv, TypeOK
<1>2. initPhase = "creating" /\ initPhase' # "creating"
      /\ initPhase' \in {"creating", "done", "failed"}
  BY DEF RegisterHandlers
<1>3. ASSUME NEW o \in Object
      PROVE  h(o) \in 0 .. MaxHandlers /\ (h(o) # 0 => closing[o] = "open")
  <2>1. H(o) \in SUBSET (0 .. MaxHandlers) /\ H(o) # {}
    BY <1>1, ServiceAssumption DEF Registered
  <2>2. h(o) \in H(o)
    <3> HIDE DEF H
    <3> QED BY <2>1, Extremes, ServiceAssumption
  <2>3. ASSUME h(o) # 0 PROVE closing[o] = "open"
    <3>1. PICK i \in Registered : service[handlers[i]] = o
      BY <2>2, <2>3
    <3>2. handlers[i] \in Name /\ o # None
      BY <1>1, <3>1, ElementOfSeq, MadeIs DEF Registered
    <3>3. o = handlers[i] /\ factory[RedisKey(o)] = o /\ RedisKey(o) \in Key
          /\ RedisKey(o)[2] = o
      BY <1>2, <3>1, <3>2, KeyIs DEF SInv, Early
    <3>4. factory[RedisKey(o)] # None
      BY <3>2, <3>3
    <3> HIDE DEF RedisKey
    <3> QED BY <1>2, <3>3, <3>4 DEF SInv, Early
  <2> QED BY <2>1, <2>2, <2>3
<1>4. handler' = [o \in Object |-> h(o)]
  BY DEF RegisterHandlers
<1>u. UNCHANGED <<handlers, maps, key, closing, tasks, call, destroy, connections,
                  wire, past>>
  BY DEF RegisterHandlers
<1> HIDE DEF h, H
<1>5. TypeOK'
  BY <1>2, <1>3, <1>4, <1>u DEF SInv, TypeOK
<1>6. Calling'
  <2>1. call[Service].phase = "idle"
    BY DEF RegisterHandlers
  <2> QED BY <1>u, <2>1 DEF SInv, Calling, Makes
<1>7. Early'
  BY <1>2 DEF Early
<1>8. Mapped'
  BY <1>u DEF SInv, Mapped, Opened, Storing
<1>9. Keyed' /\ Wired' /\ Ending' /\ NothingStranded'
  BY <1>u DEF SInv, Keyed, Wired, Ending, NothingStranded
<1> QED BY <1>5, <1>6, <1>7, <1>8, <1>9 DEF SInv

------------------------------------------------------------------------------
(* Shutting down.                                                          *)

(* A queue that is shut down awaits Redis, has failed for want of a        *)
(* connection, or is down.                                                 *)
LEMMA ShutDownIs ==
  ASSUME SInv, NEW S \in SUBSET Opened(Object), ShutDown(S)
  PROVE  /\ closing' \in [Object -> Closing] /\ handler' \in [Object -> 0 .. MaxHandlers]
         /\ \A o \in Object \ S : closing'[o] = closing[o] /\ handler'[o] = handler[o]
         /\ \A o \in S : /\ handler'[o] = 0 /\ closing'[o] \in {"listing", "failed", "down"}
                         /\ closing'[o] = "listing" => key[o][1] = "redis"
                         /\ closing'[o] = "failed" =>
                              key[o][1] = "redis" /\ redisClient # "open"
         /\ wire' \in Seq(Command) /\ Injective(wire')
         /\ \A f \in ToSet(wire') : \/ f \in ToSet(wire)
                                    \/ \E o \in S : f = List(o) /\ closing'[o] = "listing"
<1> DEFINE L == {List(o) : o \in Redis(S)}
           s == SetToSeq(L)
<1>0. /\ closing \in [Object -> Closing] /\ handler \in [Object -> 0 .. MaxHandlers]
      /\ wire \in Seq(Command) /\ Injective(wire) /\ S \subseteq Object
      /\ \A o \in S : closing[o] = "open"
  BY DEF SInv, TypeOK, Wired, Command, Opened
<1>1. \A o \in Object : closing'[o] =
        IF o \notin S THEN closing[o]
        ELSE IF key[o][1] # "redis" THEN "down"
        ELSE IF redisClient = "open" THEN "listing" ELSE "failed"
  BY DEF ShutDown, Redis
<1>2. /\ closing' \in [Object -> Closing] /\ handler' \in [Object -> 0 .. MaxHandlers]
      /\ \A o \in Object : handler'[o] = IF o \in S THEN 0 ELSE handler[o]
  <2>1. /\ \A o \in Object : closing'[o] \in Closing
        /\ \E g : closing' = [o \in Object |-> g[o]]
    <3>1. \A o \in Object : closing'[o] \in Closing
      BY <1>0, <1>1 DEF Closing
    <3>2. closing' = [o \in Object |-> closing'[o]]
      BY DEF ShutDown
    <3> QED BY <3>1, <3>2
  <2>2. 0 \in 0 .. MaxHandlers
    BY ServiceAssumption
  <2> QED BY <1>0, <2>1, <2>2 DEF ShutDown
<1>3. Redis(S) \in SUBSET Object
  BY <1>0 DEF Redis
<1>4. s \in Seq(Command) /\ Injective(s) /\ ToSet(s) = L
  BY <1>3, Listed
<1>5. ASSUME NEW f \in L, f \in ToSet(wire) PROVE FALSE
  <2>1. PICK o \in Redis(S) : f = [op |-> "list", obj |-> o]
    BY <1>5 DEF List
  <2>2. closing[o] = "listing"
    BY <1>5, <2>1 DEF SInv, Wired
  <2> QED BY <1>0, <2>1, <2>2 DEF Redis
<1>6. wire' = IF redisClient = "open" THEN wire \o s ELSE wire
  BY DEF ShutDown
<1>7. \A f \in L : \E o \in S : f = List(o) /\ key[o][1] = "redis"
  BY DEF Redis
<1> HIDE DEF L, s
<1>8. /\ wire' \in Seq(Command) /\ Injective(wire')
      /\ \A f \in ToSet(wire') : f \in ToSet(wire) \/ (f \in L /\ redisClient = "open")
  <2>1. CASE redisClient = "open"
    <3>1. ToSet(wire) \cap ToSet(s) = {}
      BY <1>4, <1>5
    <3>2. Injective(wire \o s)
      BY <1>0, <1>4, <3>1, InjectiveConcat
    <3>3. wire \o s \in Seq(Command) /\ ToSet(wire \o s) = ToSet(wire) \cup ToSet(s)
      BY <1>0, <1>4, ConcatIs
    <3> QED BY <1>4, <1>6, <2>1, <3>2, <3>3
  <2>2. CASE redisClient # "open"
    BY <1>0, <1>6, <2>2
  <2> QED BY <2>1, <2>2
<1>9. ASSUME NEW f \in ToSet(wire')
      PROVE  f \in ToSet(wire) \/ \E o \in S : f = List(o) /\ closing'[o] = "listing"
  <2>1. CASE f \in L /\ redisClient = "open"
    <3>1. PICK o \in S : f = List(o) /\ key[o][1] = "redis"
      BY <1>7, <2>1
    <3>2. closing'[o] = "listing"
      BY <1>0, <1>1, <2>1, <3>1
    <3> QED BY <3>1, <3>2
  <2> QED BY <1>8, <2>1
<1> QED BY <1>0, <1>1, <1>2, <1>8, <1>9

(* Open queues are shut down, by a client or by the hooks.                 *)
LEMMA ClosesInv ==
  ASSUME SInv, NEW S \in SUBSET Opened(Object), ShutDown(S), initPhase # "creating",
         UNCHANGED <<app, maps, key, tasks, call, connections, faults>>,
         \/ /\ UNCHANGED <<hook, waits>>
            /\ byClient' = byClient \cup S
         \/ /\ hook = "none" /\ hook' = "shutting" /\ S \subseteq waits'
            /\ waits' \subseteq Object /\ UNCHANGED byClient
  PROVE  SInv'
<1> USE DEF app, maps, tasks, connections
<1>1. /\ closing' \in [Object -> Closing] /\ handler' \in [Object -> 0 .. MaxHandlers]
      /\ \A o \in Object \ S : closing'[o] = closing[o] /\ handler'[o] = handler[o]
      /\ \A o \in S : /\ handler'[o] = 0 /\ closing'[o] \in {"listing", "failed", "down"}
                      /\ closing'[o] = "listing" => key[o][1] = "redis"
                      /\ closing'[o] = "failed" =>
                           key[o][1] = "redis" /\ redisClient # "open"
      /\ wire' \in Seq(Command) /\ Injective(wire')
      /\ \A f \in ToSet(wire') : \/ f \in ToSet(wire)
                                 \/ \E o \in S : f = List(o) /\ closing'[o] = "listing"
  BY ShutDownIs
<1>0. S \subseteq Object /\ \A o \in S : closing[o] = "open" /\ key[o] \in Key
  BY DEF Opened, SInv, Keyed
<1>2. TypeOK'
  <2>1. hook' \in Hook /\ waits' \subseteq Object /\ byClient' \subseteq Object
    BY <1>0 DEF SInv, TypeOK, Hook
  <2>2. \A o \in Object : handler'[o] # 0 => closing'[o] = "open"
    BY <1>0, <1>1 DEF SInv, TypeOK
  <2> QED BY <1>1, <2>1, <2>2 DEF SInv, TypeOK, Command
<1>m. \A o \in Object : closing'[o] = "unmade" <=> closing[o] = "unmade"
  BY <1>0, <1>1
<1>3. Calling'
  <2>1. \A c \in Client : closing'[c] = "unmade" <=> closing[c] = "unmade"
    BY <1>m, MadeIs
  <2>2. \A c \in Caller : call[c].phase = "storing" => Makes(c) \in Object /\ Makes(c)' = Makes(c)
    BY MadeIs DEF SInv, Calling, Makes
  <2> QED BY <1>m, <2>1, <2>2 DEF SInv, Calling
<1>4. Keyed'
  BY <1>m DEF SInv, Keyed
<1>5. Early'
  BY DEF Early
<1>6. Wired'
  <2>1. ASSUME NEW f \in ToSet(wire')
        PROVE  /\ f.op = "list" => f.obj \in Object /\ closing'[f.obj] = "listing"
               /\ f.op = "restore" => f.obj \in Object /\ closing'[f.obj] = "restoring"
               /\ f.op = "quit" => hook' \in {"quitting", "done"}
    <3>1. CASE f \in ToSet(wire)
      <4>1. /\ f.op = "list" => f.obj \in Object /\ closing[f.obj] = "listing"
            /\ f.op = "restore" => f.obj \in Object /\ closing[f.obj] = "restoring"
            /\ f.op = "quit" => hook \in {"quitting", "done"}
        BY <3>1 DEF SInv, Wired
      <4> QED BY <1>0, <1>1, <4>1
    <3>2. ASSUME NEW o \in S, f = List(o), closing'[o] = "listing"
          PROVE  f.op = "list" /\ f.obj \in Object /\ closing'[f.obj] = "listing"
      BY <1>0, <3>2 DEF List
    <3> QED BY <1>1, <3>1, <3>2
  <2>2. ASSUME NEW o \in Object, closing'[o] \in {"listing", "restoring"}
        PROVE  key'[o][1] = "redis" /\ o \in byClient' \cup waits'
    <3>1. CASE o \in S
      BY <1>1, <2>2, <3>1
    <3>2. CASE o \notin S
      BY <1>1, <2>2, <3>2 DEF SInv, Wired, Ending
    <3> QED BY <3>1, <3>2
  <2> QED BY <1>1, <2>1, <2>2 DEF Wired
<1>7. Ending'
  <2>1. \A o \in waits : closing[o] = "down" => closing'[o] = "down"
    BY <1>0, <1>1 DEF SInv, TypeOK
  <2>2. CASE UNCHANGED <<hook, waits>>
    BY <2>1, <2>2 DEF SInv, Ending
  <2>3. CASE hook = "none" /\ hook' = "shutting"
    BY <2>3 DEF SInv, Ending
  <2> QED BY <2>2, <2>3
<1>8. Mapped'
  BY <1>0, <1>1, <1>m DEF SInv, Mapped, Opened, Storing
<1>9. NothingStranded'
  <2> SUFFICES ASSUME faults' = 0, NEW o \in Object, closing'[o] = "failed"
               PROVE  o \in byClient'
    BY DEF NothingStranded
  <2>1. CASE o \notin S
    BY <1>1, <2>1 DEF SInv, NothingStranded
  <2>2. CASE o \in S /\ hook = "none"
    <3>1. key[o][1] = "redis" /\ redisClient # "open"
      BY <1>1, <2>2
    <3>2. redisClient # "none"
      BY <1>0, <2>2, <3>1 DEF SInv, Keyed
    <3> QED BY <2>2, <3>1, <3>2 DEF SInv, Ending, TypeOK
  <2>3. CASE o \in S /\ hook # "none"
    BY <2>3
  <2> QED BY <2>1, <2>2, <2>3
<1> QED BY <1>2, <1>3, <1>4, <1>5, <1>6, <1>7, <1>8, <1>9 DEF SInv

(* A client shuts a queue down.                                            *)
LEMMA ClientShutsDownInv ==
  ASSUME SInv, NEW o \in Object, ClientShutsDown(o) PROVE SInv'
<1>1. {o} \in SUBSET Opened(Object)
  BY DEF ClientShutsDown, Opened
<1> QED BY <1>1, ClosesInv DEF ClientShutsDown, destroy

(* The hooks shut down what the factory holds, which is all that the       *)
(* service holds.                                                          *)
LEMMA HeldIs ==
  ASSUME SInv, hook = "none"
  PROVE  /\ Held(factory) \subseteq Opened(Object)
         /\ Held(service) \subseteq Held(factory)
<1>1. factory \in [Key -> Object \cup {None}] /\ service \in [Name -> Object \cup {None}]
  BY DEF SInv, TypeOK
<1>2. ASSUME NEW o \in Held(service) PROVE o \in Held(factory)
  <2>1. PICK n \in Name : service[n] = o /\ o # None /\ closing[o] = "open"
    BY <1>1 DEF Held, Opened
  <2>2. factory[RedisKey(n)] = o /\ RedisKey(n) \in Key
    BY <2>1, KeyIs DEF SInv, Mapped
  <2> QED BY <1>1, <2>1, <2>2 DEF Held, Opened
<1>3. Held(factory) \subseteq Opened(Object)
  BY <1>1 DEF Held, Opened
<1> QED BY <1>2, <1>3

(* The first step of the shutdown hooks, which begins every shutdown, keeps SInv. *)
LEMMA DestroyInv == ASSUME SInv, Destroy PROVE SInv'
<1> DEFINE S == Held(factory) \cup Held(service)
<1>1. S \in SUBSET Opened(Object) /\ S \subseteq Held(factory)
      /\ Held(factory) \subseteq Object
  BY HeldIs DEF Destroy, Opened
<1>2. ShutDown(S) /\ waits' = Held(factory)
  BY DEF Destroy
<1> HIDE DEF S
<1> QED BY <1>1, <1>2, ClosesInv DEF Destroy, past

------------------------------------------------------------------------------
(* Redis answers.                                                          *)

(* A shutdown goes on, by its next command, or is over.                    *)
LEMMA AnswerInv ==
  ASSUME SInv, wire # <<>>, NEW o \in Object, Head(wire).obj = o,
         Head(wire).op \in {"list", "restore"},
         NEW x \in {"down", "failed", "restoring"},
         closing' = [closing EXCEPT ![o] = x],
         \/ x # "restoring" /\ wire' = Tail(wire)
         \/ x = "restoring" /\ Head(wire).op = "list"
            /\ wire' = Append(Tail(wire), [op |-> "restore", obj |-> o]),
         faults' \in 0 .. MaxFaults, faults' = 0 => faults = 0,
         x = "failed" => faults' # 0 \/ o \in byClient,
         UNCHANGED <<app, maps, key, handler, tasks, call, destroy, connections,
                     byClient>>
  PROVE  SInv'
<1> USE DEF app, maps, tasks, destroy, connections
<1> DEFINE q == Tail(wire)
           r == [op |-> "restore", obj |-> o]
           t == IF x = "restoring" THEN <<r>> ELSE <<>>
<1>0. /\ wire \in Seq(Command) /\ Injective(wire) /\ closing \in [Object -> Closing]
      /\ initPhase # "creating"
  BY DEF SInv, TypeOK, Wired, Command, Early
<1>1. /\ q \in Seq(Command) /\ Injective(q) /\ Head(wire) \notin ToSet(q)
      /\ ToSet(wire) = {Head(wire)} \cup ToSet(q)
  BY <1>0, TailIs, InjectiveTail
<1>2. /\ closing[o] = IF Head(wire).op = "list" THEN "listing" ELSE "restoring"
      /\ key[o][1] = "redis" /\ o \in byClient \cup waits
  BY <1>1 DEF SInv, Wired
<1>3. /\ closing' \in [Object -> Closing] /\ closing'[o] = x
      /\ \A p \in Object \ {o} : closing'[p] = closing[p]
  BY <1>0 DEF Closing
<1>4. /\ r \in Command /\ t \in Seq(Command) /\ Injective(t) /\ ToSet(t) \subseteq {r}
      /\ x # "restoring" => ToSet(t) = {}
  <2>1. r \in Command
    BY DEF Command
  <2> HIDE DEF r
  <2> QED BY <2>1, OneElement
<1>5. wire' = q \o t
  <2>1. x # "restoring" => wire' = q /\ t = <<>>
    OBVIOUS
  <2>2. x = "restoring" => wire' = Append(q, r) /\ t = <<r>>
    OBVIOUS
  <2> HIDE DEF q, r, t
  <2>3. Append(q, r) = q \o <<r>> /\ q \o <<>> = q
    BY <1>1, <1>4, AppendIsConcat, ConcatEmptySeq
  <2> QED BY <2>1, <2>2, <2>3
<1> HIDE DEF q, t
<1>6. ASSUME NEW f \in ToSet(q)
      PROVE  /\ f.op = "list" => f.obj \in Object /\ f.obj # o /\ closing[f.obj] = "listing"
             /\ f.op = "restore" => f.obj \in Object /\ f.obj # o /\ closing[f.obj] = "restoring"
             /\ f.op = "quit" => hook \in {"quitting", "done"}
  <2>1. /\ f.op = "list" => f.obj \in Object /\ closing[f.obj] = "listing"
        /\ f.op = "restore" => f.obj \in Object /\ closing[f.obj] = "restoring"
        /\ f.op = "quit" => hook \in {"quitting", "done"}
    BY <1>1 DEF SInv, Wired
  <2>2. f \in Command /\ Head(wire) \in Command /\ f # Head(wire)
    BY <1>0, <1>1, TailIs DEF ToSet
  <2>3. f.op = Head(wire).op => f.obj # o
    BY <2>2 DEF Command
  <2> QED BY <1>2, <2>1, <2>3
<1>7. TypeOK'
  <2>1. wire' \in Seq(Command)
    BY <1>1, <1>4, <1>5, ConcatIs
  <2>2. handler[o] = 0
    BY <1>2 DEF SInv, TypeOK
  <2> QED BY <1>3, <2>1, <2>2 DEF SInv, TypeOK, Command
<1>8. Calling' /\ Keyed' /\ Early'
  <2>m. \A p \in Object : closing'[p] = "unmade" <=> closing[p] = "unmade"
    BY <1>2, <1>3
  <2>1. \A c \in Client : closing'[c] = "unmade" <=> closing[c] = "unmade"
    BY <2>m, MadeIs
  <2>2. \A c \in Caller : call[c].phase = "storing" => Makes(c) \in Object /\ Makes(c)' = Makes(c)
    BY MadeIs DEF SInv, Calling, Makes
  <2>3. Calling'
    BY <2>m, <2>1, <2>2 DEF SInv, Calling
  <2>4. Keyed'
    BY <2>m DEF SInv, Keyed
  <2>5. Early'
    BY <1>0 DEF Early
  <2> QED BY <2>3, <2>4, <2>5
<1>9. Wired'
  <2>1. r \notin ToSet(q) \/ x # "restoring"
    BY <1>6
  <2>2. Injective(wire')
    BY <1>1, <1>4, <1>5, <2>1, InjectiveConcat
  <2>3. ToSet(wire') = ToSet(q) \cup ToSet(t)
    BY <1>1, <1>4, <1>5, ConcatIs
  <2>4. ASSUME NEW f \in ToSet(wire')
        PROVE  /\ f.op = "list" => f.obj \in Object /\ closing'[f.obj] = "listing"
               /\ f.op = "restore" => f.obj \in Object /\ closing'[f.obj] = "restoring"
               /\ f.op = "quit" => hook' \in {"quitting", "done"}
    BY <1>3, <1>4, <1>6, <2>3
  <2>5. \A p \in Object : closing'[p] \in {"listing", "restoring"} =>
          key'[p][1] = "redis" /\ p \in byClient' \cup waits'
    BY <1>2, <1>3 DEF SInv, Wired
  <2> QED BY <2>2, <2>4, <2>5 DEF Wired
<1>10. Ending'
  <2>1. \A p \in waits : closing[p] = "down" => closing'[p] = "down"
    BY <1>2, <1>3 DEF SInv, TypeOK
  <2> QED BY <2>1 DEF SInv, Ending
<1>11. Mapped'
  BY <1>2, <1>3 DEF SInv, Mapped, Opened, Storing
<1>12. NothingStranded'
  BY <1>3 DEF SInv, NothingStranded
<1> QED BY <1>7, <1>8, <1>9, <1>10, <1>11, <1>12 DEF SInv

(* The answer to a shutdown's command: without the connection it is a      *)
(* client's shutdown that fails, since the hooks have awaited theirs.      *)
LEMMA RepliesInv ==
  ASSUME SInv, ListReply \/ RestoreReply \/ CommandFails PROVE SInv'
<1> USE DEF past
<1> DEFINE o == Head(wire).obj
<1>0. /\ wire # <<>> /\ Head(wire).op \in {"list", "restore"} /\ o \in Object
      /\ faults \in 0 .. MaxFaults
      /\ closing[o] = IF Head(wire).op = "list" THEN "listing" ELSE "restoring"
      /\ key[o][1] = "redis" /\ o \in byClient \cup waits
  <2>1. wire # <<>> /\ Head(wire).op \in {"list", "restore"}
    BY DEF ListReply, RestoreReply, CommandFails
  <2>2. Head(wire) \in ToSet(wire)
    BY <2>1, TailIs DEF SInv, TypeOK
  <2> QED BY <2>1, <2>2 DEF SInv, Wired, TypeOK
<1>1. redisClient # "open" => o \in byClient
  <2>1. redisClient # "none"
    BY <1>0 DEF SInv, Keyed
  <2> QED BY <1>0, <2>1 DEF SInv, Ending, TypeOK
<1> HIDE DEF o
<1>2. CASE ListReply
  <2>1. \/ /\ closing' = [closing EXCEPT ![o] = "down"] /\ wire' = Tail(wire)
        \/ /\ closing' = [closing EXCEPT ![o] = "restoring"]
           /\ wire' = Append(Tail(wire), [op |-> "restore", obj |-> o])
        \/ /\ closing' = [closing EXCEPT ![o] = "failed"] /\ wire' = Tail(wire)
           /\ redisClient # "open"
    BY <1>2 DEF ListReply, o
  <2>2. Head(wire).op = "list"
        /\ UNCHANGED <<app, maps, key, handler, tasks, call, destroy, connections, past>>
    BY <1>2 DEF ListReply
  <2> QED BY <1>0, <1>1, <2>1, <2>2, AnswerInv DEF o
<1>3. CASE RestoreReply
  <2>1. closing' = [closing EXCEPT ![o] = "down"] /\ wire' = Tail(wire)
    BY <1>3 DEF RestoreReply, o
  <2> QED BY <1>0, <1>3, <2>1, AnswerInv DEF o, RestoreReply
<1>4. CASE CommandFails
  <2>1. closing' = [closing EXCEPT ![o] = "failed"] /\ wire' = Tail(wire)
    BY <1>4 DEF CommandFails, o
  <2>2. faults' \in 0 .. MaxFaults /\ faults' # 0
    BY <1>0, <1>4, ServiceAssumption DEF CommandFails
  <2> QED BY <1>0, <1>4, <2>1, <2>2, AnswerInv DEF o, CommandFails
<1> QED BY <1>2, <1>3, <1>4

------------------------------------------------------------------------------
(* The ends of the hooks.                                                  *)

(* Connections close when the awaited shutdowns are over; maps are cleared *)
(* when the hooks run.                                                     *)
LEMMA HooksInv ==
  ASSUME SInv, initPhase # "creating", hook # "none",
         service' \in [Name -> Object \cup {None}],
         factory' \in [Key -> Object \cup {None}],
         hook' \in Hook \ {"none"},
         redisClient' \in {"none", "open", "quitting", "closed"},
         redisClient # "none" => redisClient' # "none",
         rabbitMQ' \in {"none", "open", "closed"},
         wire' \in Seq(Command), Injective(wire'),
         \A f \in ToSet(wire') :
           f \in ToSet(wire) \/ (f.op = "quit" /\ hook' \in {"quitting", "done"}),
         \/ hook' = hook /\ redisClient' = redisClient
         \/ hook \in {"quitting", "done"} /\ hook' \in {"quitting", "done"}
         \/ hook = "shutting" /\ hook' = "failed" /\ redisClient' = redisClient
         \/ /\ hook = "shutting" /\ hook' \in {"quitting", "done"}
            /\ \A o \in waits : closing[o] = "down",
         UNCHANGED <<app, objects, tasks, call, waits, past>>
  PROVE  SInv'
<1> USE DEF app, objects, tasks, past
<1>1. TypeOK'
  BY DEF SInv, TypeOK, Command
<1>2. Calling'
  BY DEF SInv, Calling, Makes
<1>3. Keyed'
  BY DEF SInv, Keyed
<1>4. Early' /\ Mapped'
  BY DEF Early, Mapped
<1>5. Wired'
  BY DEF SInv, Wired
<1>6. Ending'
  BY DEF SInv, Ending, TypeOK, Hook
<1>7. NothingStranded'
  BY DEF SInv, NothingStranded
<1> QED BY <1>1, <1>2, <1>3, <1>4, <1>5, <1>6, <1>7 DEF SInv

(* The steps of the hooks after the first.                                 *)
LEMMA EndsInv ==
  ASSUME SInv, QuitReply \/ ServiceClears \/ Destroys PROVE SInv'
<1> USE DEF app, maps, objects, tasks, destroy, connections, past
<1>0. /\ service \in [Name -> Object \cup {None}]
      /\ factory \in [Key -> Object \cup {None}] /\ hook \in Hook
      /\ redisClient \in {"none", "open", "quitting", "closed"}
      /\ rabbitMQ \in {"none", "open", "closed"}
      /\ wire \in Seq(Command) /\ Injective(wire)
      /\ (hook # "none" => initPhase # "creating")
      /\ \A f \in ToSet(wire) : f.op = "quit" => hook \in {"quitting", "done"}
  BY DEF SInv, TypeOK, Wired, Early, Command
<1>1. CASE QuitReply
  <2> DEFINE q == Tail(wire)
  <2>1. /\ q \in Seq(Command) /\ Injective(q) /\ ToSet(q) \subseteq ToSet(wire)
        /\ Head(wire) \in ToSet(wire)
    BY <1>0, <1>1, TailIs, InjectiveTail DEF QuitReply
  <2>2. hook \in {"quitting", "done"} /\ wire' = q
    BY <1>0, <1>1, <2>1 DEF QuitReply
  <2>3. redisClient' = "closed"
    BY <1>1 DEF QuitReply
  <2> HIDE DEF q
  <2> QED BY <1>0, <1>1, <2>1, <2>2, <2>3, HooksInv DEF QuitReply, Hook
<1>2. CASE ServiceClears
  <2>1. service' \in [Name -> Object \cup {None}]
    BY <1>2 DEF ServiceClears
  <2> QED BY <1>0, <1>2, <2>1, HooksInv DEF ServiceClears
<1>3. CASE FactoryQuits
  <2>1. /\ factory' \in [Key -> Object \cup {None}]
        /\ hook = "shutting" /\ \A o \in waits : closing[o] = "down"
        /\ UNCHANGED <<app, service, objects, tasks, call, waits, past>>
    BY <1>3 DEF FactoryQuits
  <2>2. CASE redisClient # "none" /\ hook' = "quitting" /\ redisClient' = "quitting"
             /\ wire' = Append(wire, [op |-> "quit", obj |-> None])
             /\ UNCHANGED rabbitMQ
    <3> DEFINE r == [op |-> "quit", obj |-> None]
               t == <<r>>
    <3>1. r \in Command /\ r.op = "quit"
      BY DEF Command
    <3>2. wire' = Append(wire, r)
      BY <2>2
    <3> HIDE DEF r
    <3>3. t \in Seq(Command) /\ Injective(t) /\ ToSet(t) = {r}
      BY <3>1, OneElement
    <3>4. wire' = wire \o t
      BY <1>0, <3>1, <3>2, AppendIsConcat
    <3> HIDE DEF t
    <3>5. ToSet(wire) \cap ToSet(t) = {}
      BY <1>0, <2>1, <3>1, <3>3
    <3>6. /\ wire' \in Seq(Command) /\ ToSet(wire') = ToSet(wire) \cup {r}
          /\ Injective(wire')
      BY <1>0, <3>3, <3>4, <3>5, ConcatIs, InjectiveConcat
    <3> QED BY <1>0, <2>1, <2>2, <3>1, <3>6, HooksInv DEF Hook
  <2>3. CASE redisClient = "none" /\ CloseRabbitMQ /\ UNCHANGED <<redisClient, wire>>
    BY <1>0, <2>1, <2>3, HooksInv DEF CloseRabbitMQ, Hook
  <2> QED BY <1>3, <2>2, <2>3 DEF FactoryQuits
<1>4. CASE FactoryGivesUp
  BY <1>0, <1>4, HooksInv DEF FactoryGivesUp, Hook
<1>5. CASE FactoryCloses
  BY <1>0, <1>5, HooksInv DEF FactoryCloses, CloseRabbitMQ, Hook
<1> QED BY <1>1, <1>2, <1>3, <1>4, <1>5 DEF Destroys

------------------------------------------------------------------------------
(* The theorems.                                                           *)

(* Every step keeps the invariant.                                         *)
LEMMA SInvNext == SInv /\ [Next]_vars => SInv'
<1> SUFFICES ASSUME SInv, [Next]_vars PROVE SInv'
  OBVIOUS
<1>1. CASE Initialises
  BY <1>1, ServiceCreatesInv, StoreInv, ServiceGetsInv, RegisterInv, MadeIs
  DEF Initialises
<1>2. ASSUME NEW c \in Client, NEW k \in Asked, ClientCreates(c, k) PROVE SInv'
  <2>1. k \in Key /\ c \in Caller /\ c # Service
    BY ServiceAssumption, MadeIs
  <2> QED BY <1>2, <2>1, CreateInv DEF ClientCreates, MayCreate
<1>3. ASSUME NEW c \in Client, Creates(c) PROVE SInv'
  BY <1>3, StoreInv, BrokerInv, MadeIs DEF Creates
<1>4. CASE Redises \/ CommandFails
  BY <1>4, RepliesInv, EndsInv DEF Redises
<1>5. CASE Destroy \/ ServiceClears \/ Destroys
  BY <1>5, DestroyInv, EndsInv
<1>6. CASE UNCHANGED vars
  <2> USE <1>6 DEF vars, app, maps, objects, tasks, destroy, connections, past
  <2>1. TypeOK' /\ Calling' /\ Keyed' /\ Early'
    BY DEF SInv, TypeOK, Calling, Makes, Keyed, Early
  <2>2. Wired' /\ Ending' /\ Mapped' /\ NothingStranded'
    BY DEF SInv, Wired, Ending, Mapped, Opened, Storing, NothingStranded
  <2> QED BY <2>1, <2>2 DEF SInv
<1> QED BY <1>1, <1>2, <1>3, <1>4, <1>5, <1>6, UseInv, ClientShutsDownInv DEF Next

(* What the services keep in every reachable state.                        *)
THEOREM ServiceInvariance == Spec => []SInv
BY SInvInit, SInvNext, PTL DEF Spec

(* The variables keep their types, and only an open queue has a handler.   *)
THEOREM TypeInvariance == Spec => []TypeOK
<1>1. SInv => TypeOK
  BY DEF SInv
<1> QED BY <1>1, ServiceInvariance, PTL

(* Without a failing command no shutdown that the hooks began is cut off   *)
(* from Redis: the connection is quit after the last of them.              *)
THEOREM NobodyIsStranded == Spec => []NothingStranded
<1>1. SInv => NothingStranded
  BY DEF SInv
<1> QED BY <1>1, ServiceInvariance, PTL

(* The hooks begin the shutdown of every open queue but one that is still  *)
(* to be stored or was made twice.                                         *)
THEOREM EverythingIsShutDown == Spec => ClosesAll
<1> DEFINE Closes ==
      hook = "none" /\ hook' # "none" =>
        \A o \in Opened(Object) :
          closing'[o] # "open" \/ Doubled(o) \/ Storing(o)
<1>1. SInv /\ [Next]_vars => [Closes]_vars
  <2> SUFFICES ASSUME SInv, Next, hook = "none", hook' # "none",
                      NEW o \in Opened(Object), ~Doubled(o), ~Storing(o)
               PROVE  closing'[o] # "open"
    OBVIOUS
  <2>1. Destroy
    <3> USE DEF destroy
    <3>1. ~Initialises
      BY DEF Initialises, ServiceCreates, CreateQueue, Store, ServiceGets,
             RegisterHandlers
    <3>2. \A c \in Client :
            ~(\E k \in Asked : ClientCreates(c, k)) /\ ~Creates(c)
      BY DEF ClientCreates, CreateQueue, Creates, Store, Connected, ChannelReady,
             CreationFails
    <3>3. ~(\E p \in Object : ClientShutsDown(p))
      BY DEF ClientShutsDown
    <3>4. ~(\E i \in Used : AddTask(i) \/ Handle(i))
      BY DEF AddTask, Handle
    <3>5. ~(\E i \in Used \cap DOMAIN handlers, paused \in BOOLEAN :
              PauseQueue(handlers[i], paused))
      BY DEF PauseQueue
    <3>6. ~Redises /\ ~CommandFails
      BY DEF Redises, ListReply, RestoreReply, QuitReply, CommandFails
    <3>7. ~ServiceClears /\ ~Destroys
      BY DEF ServiceClears, Destroys, FactoryQuits, FactoryGivesUp, FactoryCloses
    <3> QED BY <3>1, <3>2, <3>3, <3>4, <3>5, <3>6, <3>7 DEF Next
  <2>2. o \in Object /\ closing[o] = "open" /\ key[o] \in Key
    BY DEF Opened, SInv, Keyed
  <2>3. factory[key[o]] = o
    BY <2>2 DEF SInv, Mapped, Doubled
  <2>4. factory \in [Key -> Object \cup {None}] /\ o # None
    BY <2>2, MadeIs DEF SInv, TypeOK
  <2>5. o \in Held(factory)
    BY <2>2, <2>3, <2>4 DEF Held, Opened
  <2> DEFINE S == Held(factory) \cup Held(service)
  <2>6. S \in SUBSET Opened(Object) /\ ShutDown(S) /\ o \in S
    BY <2>1, <2>5, HeldIs DEF Destroy
  <2> HIDE DEF S
  <2> QED BY <2>6, ShutDownIs
<1> QED BY <1>1, ServiceInvariance, PTL DEF Spec, ClosesAll
==============================================================================
