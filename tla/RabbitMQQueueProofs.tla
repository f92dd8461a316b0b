-------------------------- MODULE RabbitMQQueueProofs --------------------------
(***************************************************************************)
(* Proofs about RabbitMQQueue, for any number of workers and tasks, any    *)
(* retry limits and prefetch count, and whichever calls, crashes and       *)
(* shutdowns occur.                                                        *)
(***************************************************************************)
EXTENDS RabbitMQQueue, FiniteSetTheorems, SequenceTheorems, TLAPS

(* A message within the limit of its task, and the frames that carry one.  *)
Sound == {m \in Message : m.retryCount < Limit(m.task)}
SettleOp == {"done", "retried", "removed", "bury", "putBack"}
SoundFrame ==
  {f \in Frame : f.op \in SettleOp \cup {"publish"} => f.msg \in Sound}

(* Wherever a message is, it is sound.                                     *)
Typed ==
  /\ ready \in Seq(Sound)
  /\ unacked \in [Worker -> SUBSET Sound]
  /\ got \in [Worker -> SUBSET Sound]
  /\ \A w \in Worker : IsFiniteSet(unacked[w]) /\ IsFiniteSet(got[w])
  /\ consuming \in [Worker -> BOOLEAN]
  /\ out \in [Worker -> Seq(SoundFrame)]
  /\ arriving \in [Worker -> Seq(Sound)]
  /\ alive \in [Worker -> BOOLEAN] /\ open \in [Worker -> BOOLEAN]
  /\ isPaused \in [Worker -> BOOLEAN] /\ isShutdown \in [Worker -> BOOLEAN]
  /\ handler \in [Worker -> BOOLEAN] /\ consumerTag \in [Worker -> BOOLEAN]
  /\ running \in [Worker -> SUBSET Sound]
  /\ search \in [Worker -> [task : Task \cup {None}, left : 0 .. MaxChecks]]
  /\ fate \in [Task -> Fate]

------------------------------------------------------------------------------
(* Messages.                                                               *)

(* A task has a limit, of one retry or more.                               *)
LEMMA LimitType == ASSUME NEW t \in Task PROVE Limit(t) \in Nat \ {0}
BY RabbitAssumption DEF Limit

(* The first message of a task, and the one that a failure with retries    *)
(* left publishes, are sound.                                              *)
LEMMA PublishedSound ==
  /\ \A t \in Task : [task |-> t, retryCount |-> 0, copy |-> 0] \in Sound
  /\ \A m \in Sound : RetriesLeft(m) => Retried(m) \in Sound /\ Retried(m).task = m.task
<1>1. ASSUME NEW t \in Task
      PROVE  [task |-> t, retryCount |-> 0, copy |-> 0] \in Sound
  <2>1. Limit(t) \in Nat \ {0}
    BY LimitType
  <2>2. [task |-> t, retryCount |-> 0, copy |-> 0] \in Message
    BY DEF Message
  <2> QED BY <2>1, <2>2 DEF Sound
<1>2. ASSUME NEW m \in Sound, RetriesLeft(m)
      PROVE  Retried(m) \in Sound /\ Retried(m).task = m.task
  <2>1. m \in Message /\ Limit(m.task) \in Nat
    BY LimitType DEF Sound, Message
  <2>2. Retried(m) \in Message /\ Retried(m).task = m.task
        /\ Retried(m).retryCount = m.retryCount + 1
    <3> DEFINE n == m.retryCount + 1
               r == [m EXCEPT !.retryCount = n]
    <3>1. m \in [task : Task, retryCount : Nat, copy : Nat] /\ n \in Nat
      BY <2>1 DEF Message
    <3>2. Retried(m) = [r EXCEPT !.copy = 0]
      BY DEF Retried
    <3> HIDE DEF n
    <3>3. /\ r \in [task : Task, retryCount : Nat, copy : Nat]
          /\ r.task = m.task /\ r.retryCount = n
      BY <3>1
    <3> HIDE DEF r
    <3> QED BY <3>2, <3>3 DEF n, Message
  <2> QED BY <1>2, <2>1, <2>2 DEF Sound, RetriesLeft
<1> QED BY <1>1, <1>2

(* The broker has finitely many messages.                                  *)
LEMMA AtBrokerFinite ==
  ASSUME Typed PROVE IsFiniteSet(AtBroker) /\ AtBroker \subseteq Sound
<1> DEFINE held(w) == unacked[w] \cup got[w]
           f == [w \in Worker |-> held(w)]
           H == {f[w] : w \in Worker}
<1>1. IsFiniteSet(H)
  <2>1. f \in Surjection(Worker, H)
    BY DEF Surjection
  <2>2. IsFiniteSet(Worker)
    BY RabbitAssumption
  <2> HIDE DEF f, H
  <2> QED BY <2>1, <2>2, FS_Surjection
<1>2. \A T \in H : IsFiniteSet(T)
  <2>1. \A w \in Worker : IsFiniteSet(held(w))
    BY FS_Union DEF Typed
  <2> QED BY <2>1
<1>3. IsFiniteSet(UNION H)
  <2> HIDE DEF H
  <2> QED BY <1>1, <1>2, FS_UNION
<1>4. UNION H = UNION {unacked[w] \cup got[w] : w \in Worker}
  OBVIOUS
<1>5. IsFiniteSet(ToSet(ready))
  <2>1. ready \in [1 .. Len(ready) -> Sound] /\ Len(ready) \in Nat
        /\ DOMAIN ready = 1 .. Len(ready)
    BY LenProperties DEF Typed
  <2>2. ready \in Surjection(1 .. Len(ready), ToSet(ready))
    BY <2>1 DEF ToSet, Surjection
  <2>3. IsFiniteSet(1 .. Len(ready))
    BY <2>1, FS_Interval
  <2> QED BY <2>2, <2>3, FS_Surjection
<1>6. IsFiniteSet(AtBroker)
  <2> HIDE DEF H
  <2> QED BY <1>3, <1>4, <1>5, FS_Union DEF AtBroker
<1>7. AtBroker \subseteq Sound
  <2>1. ToSet(ready) \subseteq Sound
    BY LenProperties DEF Typed, ToSet
  <2> QED BY <2>1 DEF Typed, AtBroker
<1> QED BY <1>6, <1>7

(* A copy number that the broker has not got is always left.               *)
LEMMA FreshIs ==
  ASSUME Typed, NEW m \in Sound
  PROVE  Fresh(m) \in Sound /\ Fresh(m).task = m.task /\ Fresh(m) \notin AtBroker
<1> DEFINE C == 0 .. Cardinality(AtBroker)
           copy(k) == [m EXCEPT !.copy = k]
           f == [k \in C |-> copy(k)]
<1>1. IsFiniteSet(AtBroker) /\ Cardinality(AtBroker) \in Nat
  BY AtBrokerFinite, FS_CardinalityType
<1>2. /\ m \in [task : Task, retryCount : Nat, copy : Nat]
      /\ m.retryCount < Limit(m.task)
  BY DEF Sound, Message
<1>3. ASSUME NEW k \in Nat
      PROVE  /\ copy(k) \in Message /\ copy(k).task = m.task
             /\ copy(k).retryCount = m.retryCount /\ copy(k).copy = k
  BY <1>2 DEF Message
<1> HIDE DEF copy
<1>4. \E k \in C : copy(k) \notin AtBroker
  <2> SUFFICES ASSUME \A k \in C : copy(k) \in AtBroker PROVE FALSE
    OBVIOUS
  <2>1. f \in [C -> AtBroker]
    OBVIOUS
  <2>2. IsFiniteSet(C) /\ Cardinality(C) = Cardinality(AtBroker) + 1
    BY <1>1, FS_Interval
  <2>3. Cardinality(AtBroker) < Cardinality(C)
    BY <1>1, <2>2
  <2>4. \A k \in C : f[k] = copy(k) /\ k \in Nat
    BY <1>1
  <2> HIDE DEF f, C
  <2>5. PICK j \in C, k \in C : j # k /\ f[j] = f[k]
    BY <1>1, <2>1, <2>2, <2>3, FS_PigeonHole
  <2> QED BY <1>3, <2>4, <2>5
<1>5. PICK k \in C : Fresh(m) = copy(k) /\ Fresh(m) \notin AtBroker
  BY <1>4 DEF Fresh, copy
<1>6. k \in Nat
  BY <1>1
<1> QED BY <1>2, <1>3, <1>5, <1>6 DEF Sound

------------------------------------------------------------------------------
(* Sequences.                                                              *)

(* What is in the tail, in a concatenation, and at the head of one.        *)
LEMMA TailIs ==
  ASSUME NEW S, NEW s \in Seq(S), s # <<>>
  PROVE  /\ Head(s) \in S /\ Tail(s) \in Seq(S)
         /\ Head(s) = s[1] /\ 1 \in 1 .. Len(s)
         /\ Len(Tail(s)) = Len(s) - 1 /\ Len(s) \in Nat \ {0}
         /\ \A i \in 1 .. Len(Tail(s)) : Tail(s)[i] = s[i + 1] /\ i + 1 \in 1 .. Len(s)
         /\ ToSet(s) = {Head(s)} \cup ToSet(Tail(s))
<1>1. /\ Head(s) \in S /\ Tail(s) \in Seq(S) /\ Len(Tail(s)) = Len(s) - 1
      /\ Len(s) \in Nat \ {0} /\ Head(s) = s[1]
      /\ \A i \in 1 .. Len(Tail(s)) : Tail(s)[i] = s[i + 1]
  BY HeadTailProperties, EmptySeq
<1>2. DOMAIN s = 1 .. Len(s) /\ DOMAIN Tail(s) = 1 .. Len(Tail(s))
  BY <1>1, LenProperties
<1> DEFINE q == Tail(s)
<1> HIDE DEF q
<1>3. ASSUME NEW x \in ToSet(s) PROVE x = Head(s) \/ x \in ToSet(q)
  <2>1. PICK i \in 1 .. Len(s) : x = s[i]
    BY <1>2 DEF ToSet
  <2>2. CASE i # 1
    <3>1. i - 1 \in 1 .. Len(q) /\ q[i - 1] = s[(i - 1) + 1] /\ (i - 1) + 1 = i
      BY <1>1, <2>2 DEF q
    <3> QED BY <1>2, <2>1, <3>1 DEF ToSet, q
  <2> QED BY <1>1, <2>1, <2>2
<1>4. ASSUME NEW x \in ToSet(q) PROVE x \in ToSet(s)
  <2>1. PICK i \in 1 .. Len(q) : x = q[i]
    BY <1>2, <1>4 DEF ToSet, q
  <2>2. q[i] = s[i + 1] /\ i + 1 \in 1 .. Len(s)
    BY <1>1 DEF q
  <2> QED BY <1>2, <2>1, <2>2 DEF ToSet
<1>5. Head(s) \in ToSet(s)
  BY <1>1, <1>2 DEF ToSet
<1> QED BY <1>1, <1>3, <1>4, <1>5 DEF q

(* Length, elements and head of a concatenation.                           *)
LEMMA ConcatIs ==
  ASSUME NEW S, NEW s \in Seq(S), NEW t \in Seq(S)
  PROVE  /\ s \o t \in Seq(S)
         /\ Len(s) \in Nat /\ Len(t) \in Nat /\ Len(s \o t) = Len(s) + Len(t)
         /\ \A i \in 1 .. Len(s) + Len(t) :
              (s \o t)[i] = IF i <= Len(s) THEN s[i] ELSE t[i - Len(s)]
         /\ ToSet(s \o t) = ToSet(s) \cup ToSet(t)
         /\ s \o t # <<>> =>
              Head(s \o t) = IF s = <<>> THEN Head(t) ELSE Head(s)
<1> DEFINE c == s \o t
<1>1. /\ c \in Seq(S) /\ Len(s) \in Nat /\ Len(t) \in Nat
      /\ Len(c) = Len(s) + Len(t)
      /\ \A i \in 1 .. Len(s) + Len(t) :
           c[i] = IF i <= Len(s) THEN s[i] ELSE t[i - Len(s)]
  BY ConcatProperties, LenProperties
<1>2. /\ DOMAIN s = 1 .. Len(s) /\ DOMAIN t = 1 .. Len(t)
      /\ DOMAIN c = 1 .. Len(c)
  BY <1>1, LenProperties
<1>3. s = <<>> => c = t
  BY ConcatEmptySeq
<1> HIDE DEF c
<1>4. ASSUME NEW i \in 1 .. Len(s)
      PROVE  i \in 1 .. Len(c) /\ c[i] = s[i]
  BY <1>1
<1>5. ASSUME NEW i \in 1 .. Len(t)
      PROVE  i + Len(s) \in 1 .. Len(c) /\ c[i + Len(s)] = t[i]
  <2>1. /\ i + Len(s) \in 1 .. Len(s) + Len(t) /\ ~(i + Len(s) <= Len(s))
        /\ (i + Len(s)) - Len(s) = i
    BY <1>1
  <2> QED BY <1>1, <2>1
<1>6. ASSUME NEW i \in 1 .. Len(c)
      PROVE  c[i] \in ToSet(s) \cup ToSet(t)
  <2>1. CASE i <= Len(s)
    BY <1>1, <1>2, <2>1, SMTT(30) DEF ToSet
  <2>2. CASE ~(i <= Len(s))
    <3>1. i - Len(s) \in 1 .. Len(t) /\ c[i] = t[i - Len(s)]
      BY <1>1, <2>2
    <3> QED BY <1>2, <3>1 DEF ToSet
  <2> QED BY <2>1, <2>2
<1>7. ToSet(c) = ToSet(s) \cup ToSet(t)
  <2>1. ToSet(c) \subseteq ToSet(s) \cup ToSet(t)
    BY <1>2, <1>6 DEF ToSet
  <2>2. ToSet(s) \subseteq ToSet(c)
    BY <1>2, <1>4 DEF ToSet
  <2>3. ToSet(t) \subseteq ToSet(c)
    BY <1>2, <1>5 DEF ToSet
  <2> QED BY <2>1, <2>2, <2>3
<1>8. s # <<>> => Head(c) = Head(s)
  <2>1. s # <<>> => Len(s) > 0 /\ Head(s) = s[1]
    BY EmptySeq
  <2>2. s # <<>> => c # <<>>
    BY <1>1, <2>1, EmptySeq
  <2>3. c # <<>> => Head(c) = c[1]
    BY <1>1
  <2> QED BY <1>1, <2>1, <2>2, <2>3
<1> QED BY <1>1, <1>3, <1>7, <1>8 DEF c

(* A message is in one place of a sequence at most.                        *)
Injective(s) == \A i, j \in 1 .. Len(s) : s[i] = s[j] => i = j

(* What is once in a sequence is once in its tail, and the head is not in  *)
(* the tail.                                                               *)
LEMMA InjectiveTail ==
  ASSUME NEW S, NEW s \in Seq(S), s # <<>>, Injective(s)
  PROVE  Injective(Tail(s)) /\ Head(s) \notin ToSet(Tail(s))
<1> DEFINE q == Tail(s)
<1>1. /\ q \in Seq(S) /\ Head(s) = s[1] /\ 1 \in 1 .. Len(s) /\ Len(q) \in Nat
      /\ \A i \in 1 .. Len(q) : q[i] = s[i + 1] /\ i + 1 \in 1 .. Len(s)
  BY TailIs, LenProperties
<1>2. DOMAIN q = 1 .. Len(q)
  BY <1>1, LenProperties
<1> HIDE DEF q
<1>3. ASSUME NEW i \in 1 .. Len(q), NEW j \in 1 .. Len(q), q[i] = q[j] PROVE i = j
  <2>1. i + 1 = j + 1
    BY <1>1, <1>3 DEF Injective
  <2> QED BY <2>1
<1>4. ASSUME NEW i \in 1 .. Len(q) PROVE q[i] # s[1]
  <2>1. i + 1 # 1
    OBVIOUS
  <2> QED BY <1>1, <2>1 DEF Injective
<1>5. s[1] \notin ToSet(q)
  BY <1>2, <1>4 DEF ToSet
<1> QED BY <1>1, <1>3, <1>5 DEF Injective, q

(* Two sequences of different elements, joined.                            *)
LEMMA InjectiveConcat ==
  ASSUME NEW S, NEW s \in Seq(S), NEW t \in Seq(S), Injective(s), Injective(t),
         ToSet(s) \cap ToSet(t) = {}
  PROVE  Injective(s \o t)
<1> DEFINE c == s \o t
<1>1. /\ Len(s) \in Nat /\ Len(t) \in Nat /\ Len(c) = Len(s) + Len(t)
      /\ \A i \in 1 .. Len(s) + Len(t) :
           c[i] = IF i <= Len(s) THEN s[i] ELSE t[i - Len(s)]
  BY ConcatIs
<1>2. DOMAIN s = 1 .. Len(s) /\ DOMAIN t = 1 .. Len(t)
  BY LenProperties
<1> HIDE DEF c
<1>3. ASSUME NEW i \in 1 .. Len(c), NEW j \in 1 .. Len(c), c[i] = c[j]
      PROVE  i = j
  <2>1. CASE i <= Len(s) /\ j <= Len(s)
    BY <1>1, <1>3, <2>1 DEF Injective
  <2>2. CASE ~(i <= Len(s)) /\ ~(j <= Len(s))
    <3>1. /\ i - Len(s) \in 1 .. Len(t) /\ j - Len(s) \in 1 .. Len(t)
          /\ c[i] = t[i - Len(s)] /\ c[j] = t[j - Len(s)]
      BY <1>1, <2>2
    <3>2. i - Len(s) = j - Len(s)
      BY <1>3, <3>1 DEF Injective
    <3> QED BY <1>1, <3>2
  <2>3. ASSUME NEW k \in 1 .. Len(c), NEW l \in 1 .. Len(c), k <= Len(s), ~(l <= Len(s))
        PROVE  c[k] # c[l]
    <3>1. /\ k \in 1 .. Len(s) /\ l - Len(s) \in 1 .. Len(t)
          /\ c[k] = s[k] /\ c[l] = t[l - Len(s)]
      BY <1>1, <2>3
    <3>2. c[k] \in ToSet(s) /\ c[l] \in ToSet(t)
      BY <1>2, <3>1 DEF ToSet
    <3> QED BY <3>2
  <2> QED BY <1>3, <2>1, <2>2, <2>3
<1> QED BY <1>3 DEF Injective, c

(* A sequence of one element, and the empty one.                           *)
LEMMA OneElement ==
  ASSUME NEW S, NEW x \in S
  PROVE  /\ <<x>> \in Seq(S) /\ ToSet(<<x>>) = {x} /\ Injective(<<x>>)
         /\ Len(<<x>>) = 1 /\ <<x>>[1] = x /\ Head(<<x>>) = x
         /\ ToSet(<<>>) = {} /\ Injective(<<>>) /\ <<>> \in Seq(S)
BY DEF ToSet, Injective

------------------------------------------------------------------------------
(* What is put back when a channel or connection closes.                   *)

(* The messages of w come before those that wait, each once.               *)
LEMMA RequeueIs ==
  ASSUME Typed, NEW w \in Worker, Requeue(w)
  PROVE  /\ ready' \in Seq(Sound)
         /\ ToSet(ready') = ToSet(ready) \cup unacked[w] \cup got[w]
         /\ Injective(ready) /\ ToSet(ready) \cap (unacked[w] \cup got[w]) = {} =>
              Injective(ready')
         /\ unacked' = [unacked EXCEPT ![w] = {}]
         /\ got' = [got EXCEPT ![w] = {}]
         /\ consuming' = [consuming EXCEPT ![w] = FALSE]
<1> DEFINE H == unacked[w] \cup got[w]
           n == Cardinality(H)
<1>1. IsFiniteSet(H) /\ H \subseteq Sound /\ ready \in Seq(Sound)
  BY FS_Union DEF Typed
<1>2. n \in Nat
  BY <1>1, FS_CardinalityType
<1>3. PICK s \in SetToSeqs(H) : ready' = s \o ready
  BY DEF Requeue
<1> HIDE DEF H
<1>4. /\ s \in [1 .. n -> H]
      /\ \A i, j \in 1 .. n : i # j => s[i] # s[j]
  BY DEF SetToSeqs
<1>5. s \in Seq(Sound) /\ Len(s) = n /\ DOMAIN s = 1 .. n
  <2>1. s \in [1 .. n -> Sound]
    BY <1>1, <1>4
  <2>2. s \in Seq(Sound)
    BY <1>2, <2>1
  <2>3. DOMAIN s = 1 .. Len(s) /\ Len(s) \in Nat
    BY <2>2, LenProperties
  <2>4. Len(s) = n
    BY <1>2, <2>1, <2>3
  <2> QED BY <2>1, <2>2, <2>4
<1>6. ToSet(s) = H
  <2>1. s \in Injection(1 .. n, H)
    BY <1>4 DEF Injection, IsInjective
  <2>2. Cardinality(1 .. n) = n
    BY <1>2, FS_Interval
  <2>3. s \in Surjection(1 .. n, H)
    BY <1>1, <2>1, <2>2, FS_Injection DEF n
  <2> QED BY <1>5, <2>3 DEF Surjection, ToSet
<1>7. Injective(s)
  BY <1>4, <1>5 DEF Injective
<1>8. ready' \in Seq(Sound) /\ ToSet(ready') = ToSet(s) \cup ToSet(ready)
  BY <1>1, <1>3, <1>5, ConcatIs
<1>9. Injective(ready) /\ ToSet(ready) \cap H = {} => Injective(ready')
  BY <1>1, <1>3, <1>5, <1>6, <1>7, InjectiveConcat
<1> QED BY <1>6, <1>8, <1>9 DEF H, Requeue

------------------------------------------------------------------------------
(* Frames.                                                                 *)

(* What a worker sends goes to the end of what it has sent.                *)
LEMMA SendTyped ==
  ASSUME out \in [Worker -> Seq(SoundFrame)], NEW w \in Worker,
         NEW frames \in Seq(SoundFrame), Send(w, frames)
  PROVE  out' \in [Worker -> Seq(SoundFrame)]
<1>1. out[w] \o frames \in Seq(SoundFrame)
  BY ConcatIs
<1> QED BY <1>1 DEF Send

(* An answer removes the first command and adds what the caller sends      *)
(* next.                                                                   *)
LEMMA ReplyTyped ==
  ASSUME out \in [Worker -> Seq(SoundFrame)], NEW w \in Worker,
         out[w] # <<>>, NEW frames \in Seq(SoundFrame), Reply(w, frames)
  PROVE  out' \in [Worker -> Seq(SoundFrame)]
<1> DEFINE e == IF Listening(w) THEN frames ELSE <<>>
           q == Tail(out[w])
<1>1. e \in Seq(SoundFrame) /\ q \in Seq(SoundFrame)
  BY TailIs
<1>2. out' = [out EXCEPT ![w] = q \o e]
  BY DEF Reply
<1> HIDE DEF e, q
<1>3. q \o e \in Seq(SoundFrame)
  BY <1>1, ConcatIs
<1> QED BY <1>2, <1>3

(* A frame carries the message it is made for, which is sound.             *)
LEMMA FramesSound ==
  /\ \A op \in Op : op \notin SettleOp \cup {"publish"} => F(op, Nothing) \in SoundFrame
  /\ \A op \in Op, m \in Sound :
       F(op, m) \in SoundFrame /\ F(op, m).op = op /\ F(op, m).msg = m
  /\ \A f \in SoundFrame : f.op \in SettleOp \cup {"publish"} => f.msg \in Sound
BY DEF F, SoundFrame, Frame, Sound

(* What a worker sends at once is a sequence of frames.                    *)
LEMMA FramesAre ==
  ASSUME NEW f \in SoundFrame, NEW g \in SoundFrame
  PROVE  /\ <<f>> \in Seq(SoundFrame) /\ <<f, g>> \in Seq(SoundFrame)
         /\ <<>> \in Seq(SoundFrame)
OBVIOUS

(* A call of a client sends sound frames and keeps the types.              *)
LEMMA CallTyped ==
  ASSUME Typed, NEW w \in Worker, ClientCall(w) PROVE Typed'
<1>0. /\ out \in [Worker -> Seq(SoundFrame)] /\ fate \in [Task -> Fate]
      /\ \A op \in Op : op \notin SettleOp \cup {"publish"} =>
           <<F(op, Nothing)>> \in Seq(SoundFrame)
      /\ \A op \in Op, m \in Sound : <<F(op, m)>> \in Seq(SoundFrame)
      /\ <<>> \in Seq(SoundFrame)
  BY FramesSound, FramesAre DEF Typed
<1>1. ASSUME NEW t \in Task, Add(w, t) PROVE Typed'
  <2> DEFINE m == [task |-> t, retryCount |-> 0, copy |-> 0]
             s == <<F("publish", m)>>
  <2>1. m \in Sound /\ "publish" \in Op
    BY PublishedSound DEF Op
  <2>2. s \in Seq(SoundFrame) /\ Send(w, s)
    BY <1>0, <1>1, <2>1 DEF Add
  <2> HIDE DEF s
  <2>3. out' \in [Worker -> Seq(SoundFrame)]
    BY <1>0, <2>2, SendTyped
  <2>4. fate' \in [Task -> Fate]
    BY <1>0, <1>1 DEF Add, Fate
  <2> QED BY <1>1, <2>3, <2>4 DEF Add, Typed, broker, flags
<1>2. ASSUME NEW op \in Op, op \notin SettleOp \cup {"publish"},
             Send(w, <<F(op, Nothing)>>)
      PROVE  out' \in [Worker -> Seq(SoundFrame)]
  <2> DEFINE s == <<F(op, Nothing)>>
  <2>1. s \in Seq(SoundFrame) /\ Send(w, s)
    BY <1>0, <1>2
  <2> HIDE DEF s
  <2> QED BY <1>0, <2>1, SendTyped
<1>3. \A op \in {"consume", "cancel", "cancelThenClose", "get", "purge"} :
        op \in Op /\ op \notin SettleOp \cup {"publish"}
  BY DEF Op, SettleOp
<1>4. CASE Process(w)
  <2>1. out' \in [Worker -> Seq(SoundFrame)]
    BY <1>2, <1>3, <1>4 DEF Process
  <2> QED BY <1>4, <2>1 DEF Process, Typed, broker
<1>5. CASE Pause(w)
  <2>1. out' \in [Worker -> Seq(SoundFrame)]
    BY <1>2, <1>3, <1>5 DEF Pause
  <2> QED BY <1>5, <2>1 DEF Pause, Typed, broker
<1>6. CASE Resume(w)
  BY <1>6 DEF Resume, Typed, broker
<1>7. CASE Shutdown(w)
  <2>1. out' \in [Worker -> Seq(SoundFrame)]
    <3>1. CASE consumerTag[w]
      BY <1>2, <1>3, <1>7, <3>1 DEF Shutdown
    <3>2. CASE ~consumerTag[w]
      BY <1>0, <1>7, <3>2, SendTyped DEF Shutdown
    <3> QED BY <3>1, <3>2
  <2> QED BY <1>7, <2>1 DEF Shutdown, Typed, broker
<1>8. ASSUME NEW t \in Task \cup {None}, Search(w, t) PROVE Typed'
  <2>1. out' \in [Worker -> Seq(SoundFrame)]
    BY <1>2, <1>3, <1>8 DEF Search
  <2>2. search' \in [Worker -> [task : Task \cup {None}, left : 0 .. MaxChecks]]
    <3>1. [task |-> t, left |-> MaxChecks] \in
             [task : Task \cup {None}, left : 0 .. MaxChecks]
      BY RabbitAssumption
    <3> QED BY <1>8, <3>1 DEF Search, Typed
  <2> QED BY <1>8, <2>1, <2>2 DEF Search, Typed, broker, flags
<1>9. CASE Clear(w)
  <2>1. out' \in [Worker -> Seq(SoundFrame)]
    BY <1>2, <1>3, <1>9 DEF Clear
  <2> QED BY <1>9, <2>1 DEF Clear, Typed, broker, flags
<1> QED BY <1>1, <1>4, <1>5, <1>6, <1>7, <1>8, <1>9 DEF ClientCall

(* A settled task has a fate.                                              *)
LEMMA SettledType ==
  ASSUME fate \in [Task -> Fate], NEW S, NEW f \in Fate
  PROVE  Settled(S, f) \in [Task -> Fate]
BY DEF Settled

(* The broker takes a frame: messages stay sound, sets stay finite.        *)
LEMMA TakeTyped ==
  ASSUME Typed, NEW w \in Worker, BrokerTakes(w) PROVE Typed'
<1> DEFINE f == Head(out[w])
<1>0. /\ out \in [Worker -> Seq(SoundFrame)] /\ fate \in [Task -> Fate]
      /\ ready \in Seq(Sound) /\ got \in [Worker -> SUBSET Sound]
      /\ unacked \in [Worker -> SUBSET Sound]
      /\ <<>> \in Seq(SoundFrame)
      /\ search \in [Worker -> [task : Task \cup {None}, left : 0 .. MaxChecks]]
  BY FramesAre DEF Typed
<1>t. out[w] # <<>> /\ f \in SoundFrame
  <2>1. out[w] # <<>>
    BY DEF BrokerTakes, TakePublish, TakeSettlement, TakePutBack, TakeConsume,
           TakeCancel, TakeCancelThenClose, TakeClose, TakeGetEmpty, TakeGet,
           TakeGetUnheard, TakePurge, Takes
  <2> QED BY <1>0, <2>1, TailIs
<1>i. Idle \in [task : Task \cup {None}, left : 0 .. MaxChecks]
  BY RabbitAssumption DEF Idle
<1>1. Reply(w, <<>>) => out' \in [Worker -> Seq(SoundFrame)]
  BY <1>0, <1>t, ReplyTyped
<1>2. ready # <<>> => Head(ready) \in Sound /\ Tail(ready) \in Seq(Sound)
  BY <1>0, TailIs
<1>3. CASE TakePublish(w)
  <2>1. f.msg \in Sound
    BY <1>3, <1>t, FramesSound DEF TakePublish, Takes
  <2> DEFINE m == Fresh(f.msg)
  <2>2. m \in Sound /\ m.task \in Task
    BY <2>1, FreshIs DEF Sound, Message
  <2>3. /\ ready' = Append(ready, m)
        /\ fate' = [fate EXCEPT ![m.task] = IF @ = "sent" THEN "open" ELSE @]
    BY <1>3 DEF TakePublish
  <2> HIDE DEF m
  <2>4. ready' \in Seq(Sound) /\ fate' \in [Task -> Fate]
    BY <1>0, <2>2, <2>3, AppendProperties DEF Fate
  <2> QED BY <1>1, <1>3, <2>4 DEF TakePublish, Typed, flags
<1>4. CASE TakeSettlement(w)
  <2>1. f.op \in DOMAIN Outcome
    BY <1>4 DEF TakeSettlement, Takes
  <2>2. Outcome[f.op] \in Fate
    BY <2>1 DEF Outcome, Fate
  <2>3. fate' \in [Task -> Fate]
    BY <1>0, <1>4, <2>2, SettledType DEF TakeSettlement
  <2>4. /\ unacked' \in [Worker -> SUBSET Sound] /\ got' \in [Worker -> SUBSET Sound]
        /\ \A v \in Worker : unacked'[v] \subseteq unacked[v] /\ got'[v] \subseteq got[v]
    BY <1>0, <1>4 DEF TakeSettlement
  <2>5. \A v \in Worker : IsFiniteSet(unacked'[v]) /\ IsFiniteSet(got'[v])
    BY <2>4, FS_Subset DEF Typed
  <2> QED BY <1>1, <1>4, <2>3, <2>4, <2>5 DEF TakeSettlement, Typed, flags
<1>5. CASE TakePutBack(w)
  <2> DEFINE m == f.msg
  <2>1. m \in Sound
    BY <1>5, <1>t, FramesSound DEF TakePutBack, Takes, SettleOp
  <2>2. ready' = <<m>> \o ready /\ got' = [got EXCEPT ![w] = @ \ {m}]
    BY <1>5 DEF TakePutBack
  <2> HIDE DEF m
  <2>3. ready' \in Seq(Sound)
    <3>1. <<m>> \in Seq(Sound)
      BY <2>1
    <3> QED BY <1>0, <2>2, <3>1, ConcatIs
  <2>4. /\ got' \in [Worker -> SUBSET Sound]
        /\ \A v \in Worker : got'[v] \subseteq got[v]
    BY <1>0, <2>2
  <2>5. \A v \in Worker : IsFiniteSet(got'[v])
    BY <2>4, FS_Subset DEF Typed
  <2> QED BY <1>1, <1>5, <2>3, <2>4, <2>5 DEF TakePutBack, Typed, flags
<1>6. CASE TakeConsume(w)
  <2>1. Listening(w) \in BOOLEAN
    BY DEF Listening, Typed
  <2>2. consumerTag' \in [Worker -> BOOLEAN] /\ consuming' \in [Worker -> BOOLEAN]
    BY <1>6, <2>1 DEF TakeConsume, Typed
  <2> QED BY <1>1, <1>6, <2>2 DEF TakeConsume, Typed
<1>7. CASE TakeCancel(w)
  BY <1>1, <1>7 DEF TakeCancel, Typed, flags
<1>8. CASE TakeCancelThenClose(w)
  <2> DEFINE s == <<F("close", Nothing)>>
  <2>1. "close" \in Op /\ "close" \notin SettleOp \cup {"publish"}
    BY DEF Op, SettleOp
  <2>2. s \in Seq(SoundFrame) /\ Reply(w, s)
    BY <1>8, <2>1, FramesSound, FramesAre DEF TakeCancelThenClose
  <2> HIDE DEF s
  <2>3. out' \in [Worker -> Seq(SoundFrame)]
    BY <1>0, <1>t, <2>2, ReplyTyped
  <2> QED BY <1>8, <2>3 DEF TakeCancelThenClose, Typed, flags
<1>9. CASE TakeClose(w)
  <2>1. /\ ready' \in Seq(Sound)
        /\ unacked' = [unacked EXCEPT ![w] = {}]
        /\ got' = [got EXCEPT ![w] = {}]
        /\ consuming' = [consuming EXCEPT ![w] = FALSE]
    BY <1>9, RequeueIs DEF TakeClose
  <2>2. \A v \in Worker : unacked'[v] \subseteq unacked[v] /\ got'[v] \subseteq got[v]
    BY <1>0, <2>1
  <2>3. \A v \in Worker : IsFiniteSet(unacked'[v]) /\ IsFiniteSet(got'[v])
    BY <2>2, FS_Subset DEF Typed
  <2>4. out' \in [Worker -> Seq(SoundFrame)]
    BY <1>1, <1>9 DEF TakeClose
  <2>5. arriving' \in [Worker -> Seq(Sound)]
    BY <1>9 DEF TakeClose, Typed
  <2> QED BY <1>9, <1>i, <2>1, <2>3, <2>4, <2>5 DEF TakeClose, Typed, flags
<1>10. CASE TakeGetEmpty(w)
  BY <1>1, <1>10, <1>i DEF TakeGetEmpty, Typed, broker, flags
<1>11. ASSUME ready # <<>>, got' = [got EXCEPT ![w] = @ \cup {Head(ready)}]
       PROVE  /\ got' \in [Worker -> SUBSET Sound]
              /\ \A v \in Worker : IsFiniteSet(got'[v])
  <2> DEFINE m == Head(ready)
  <2>1. m \in Sound
    BY <1>2, <1>11
  <2> HIDE DEF m
  <2>2. got' = [got EXCEPT ![w] = @ \cup {m}]
    BY <1>11 DEF m
  <2>3. IsFiniteSet(got[w] \cup {m})
    BY FS_AddElement DEF Typed
  <2>4. ASSUME NEW v \in Worker PROVE IsFiniteSet(got'[v])
    <3>1. got'[v] = IF v = w THEN got[w] \cup {m} ELSE got[v]
      BY <1>0, <2>2
    <3> QED BY <2>3, <3>1 DEF Typed
  <2> QED BY <1>0, <2>1, <2>2, <2>4
<1>12. CASE TakeGet(w)
  <2> DEFINE m == Head(ready)
             left == search[w].left - 1
             more == IF MoreChecks(left) THEN <<F("get", Nothing)>> ELSE <<>>
  <2>1. m \in Sound /\ ready # <<>>
    BY <1>2, <1>12 DEF TakeGet
  <2>2. /\ F("removed", m) \in SoundFrame /\ F("putBack", m) \in SoundFrame
        /\ F("get", Nothing) \in SoundFrame
    BY <2>1, FramesSound DEF Op, SettleOp
  <2>3. \E frames \in Seq(SoundFrame) : Reply(w, frames)
    <3> DEFINE r == <<F("removed", m)>>
               p == <<F("putBack", m)>>
    <3>1. r \in Seq(SoundFrame) /\ p \in Seq(SoundFrame) /\ more \in Seq(SoundFrame)
      BY <2>2, FramesAre
    <3>2. Reply(w, r) \/ Reply(w, p \o more)
      BY <1>12 DEF TakeGet
    <3> HIDE DEF r, p, more
    <3>3. p \o more \in Seq(SoundFrame)
      BY <3>1, ConcatIs
    <3> QED BY <3>1, <3>2, <3>3
  <2>4. out' \in [Worker -> Seq(SoundFrame)]
    BY <1>0, <1>t, <2>3, ReplyTyped
  <2>5. search' \in [Worker -> [task : Task \cup {None}, left : 0 .. MaxChecks]]
    <3>1. \/ search' = [search EXCEPT ![w] = Idle]
          \/ left > 0 /\ search' = [search EXCEPT ![w] = [@ EXCEPT !.left = left]]
      BY <1>12 DEF TakeGet, MoreChecks
    <3>2. left > 0 => left \in 0 .. MaxChecks
      BY <1>0, RabbitAssumption
    <3> HIDE DEF left
    <3> QED BY <1>0, <1>i, <3>1, <3>2, ZenonT(60)
  <2>6. /\ got' = [got EXCEPT ![w] = @ \cup {m}] /\ ready' = Tail(ready)
        /\ UNCHANGED <<unacked, consuming, arriving, alive, open, flags, running,
                       fate>>
    BY <1>12 DEF TakeGet
  <2> QED BY <1>2, <1>11, <2>1, <2>4, <2>5, <2>6 DEF Typed, flags
<1>13. CASE TakeGetUnheard(w)
  BY <1>1, <1>2, <1>11, <1>13 DEF TakeGetUnheard, Typed, flags
<1>14. CASE TakePurge(w)
  <2>1. ready' \in Seq(Sound) /\ fate' \in [Task -> Fate]
    BY <1>0, <1>14, SettledType DEF TakePurge, Fate
  <2> QED BY <1>1, <1>14, <2>1 DEF TakePurge, Typed, flags
<1> QED BY <1>3, <1>4, <1>5, <1>6, <1>7, <1>8, <1>9, <1>10, <1>12, <1>13, <1>14
        DEF BrokerTakes

(* Deliveries, handlers and failures keep the types.                       *)
LEMMA RestTyped ==
  ASSUME Typed, NEW w \in Worker,
         \/ Deliver(w) \/ Arrive(w)
         \/ \E m \in running[w] : HandlerSettles(w, m)
         \/ Crash(w) \/ SettlesTooLate(w) \/ ConnectionLost(w)
  PROVE  Typed'
<1>0. /\ out \in [Worker -> Seq(SoundFrame)] /\ ready \in Seq(Sound)
      /\ arriving \in [Worker -> Seq(Sound)]
      /\ unacked \in [Worker -> SUBSET Sound] /\ got \in [Worker -> SUBSET Sound]
      /\ running \in [Worker -> SUBSET Sound] /\ <<>> \in Seq(Sound)
  BY DEF Typed
<1>i. Idle \in [task : Task \cup {None}, left : 0 .. MaxChecks]
  BY RabbitAssumption DEF Idle
<1>1. CASE Deliver(w)
  <2> DEFINE m == Head(ready)
  <2>1. m \in Sound /\ Tail(ready) \in Seq(Sound)
    BY <1>0, <1>1, TailIs DEF Deliver
  <2>2. /\ unacked' = [unacked EXCEPT ![w] = @ \cup {m}]
        /\ arriving' = [arriving EXCEPT ![w] = Append(@, m)]
    BY <1>1 DEF Deliver
  <2> HIDE DEF m
  <2>3. Append(arriving[w], m) \in Seq(Sound)
    BY <1>0, <2>1, AppendProperties
  <2>4. arriving' \in [Worker -> Seq(Sound)] /\ unacked' \in [Worker -> SUBSET Sound]
    BY <1>0, <2>1, <2>2, <2>3
  <2>5. IsFiniteSet(unacked[w] \cup {m})
    BY FS_AddElement DEF Typed
  <2>6. ASSUME NEW v \in Worker PROVE IsFiniteSet(unacked'[v])
    <3>1. unacked'[v] = IF v = w THEN unacked[w] \cup {m} ELSE unacked[v]
      BY <1>0, <2>2
    <3> QED BY <2>5, <3>1 DEF Typed
  <2> QED BY <1>1, <2>1, <2>4, <2>6 DEF Deliver, Typed, flags
<1>2. CASE Arrive(w)
  <2> DEFINE m == Head(arriving[w])
             q == Tail(arriving[w])
  <2>1. m \in Sound /\ q \in Seq(Sound)
    BY <1>0, <1>2, TailIs DEF Arrive
  <2>2. /\ arriving' = [arriving EXCEPT ![w] = q]
        /\ running' = running \/ running' = [running EXCEPT ![w] = @ \cup {m}]
    BY <1>2 DEF Arrive
  <2> HIDE DEF m, q
  <2>3. arriving' \in [Worker -> Seq(Sound)] /\ running' \in [Worker -> SUBSET Sound]
    BY <1>0, <2>1, <2>2
  <2> QED BY <1>2, <2>3 DEF Arrive, Typed, broker, flags
<1>3. ASSUME NEW m \in running[w], HandlerSettles(w, m) PROVE Typed'
  <2>1. m \in Sound
    BY <1>0
  <2>2. /\ running' = [running EXCEPT ![w] = @ \ {m}]
        /\ UNCHANGED <<broker, arriving, alive, open, flags, search, fate>>
        /\ Send(w, <<F("done", m)>>) \/ Send(w, FailureFrames(m))
    BY <1>3 DEF HandlerSettles, HandlerResolves, HandlerRejects, Settles
  <2>3. /\ <<F("done", m)>> \in Seq(SoundFrame)
        /\ FailureFrames(m) \in Seq(SoundFrame)
    <3>1. /\ F("done", m) \in SoundFrame /\ F("bury", m) \in SoundFrame
          /\ F("retried", m) \in SoundFrame
          /\ RetriesLeft(m) => F("publish", Retried(m)) \in SoundFrame
      BY <2>1, PublishedSound, FramesSound DEF Op
    <3>2. RetriesLeft(m) => <<F("publish", Retried(m)), F("retried", m)>> \in Seq(SoundFrame)
      BY <3>1, FramesAre
    <3>3. <<F("done", m)>> \in Seq(SoundFrame) /\ <<F("bury", m)>> \in Seq(SoundFrame)
      BY <3>1, FramesAre
    <3> QED BY <3>2, <3>3 DEF FailureFrames
  <2>4. out' \in [Worker -> Seq(SoundFrame)]
    <3> DEFINE d == <<F("done", m)>>
               b == FailureFrames(m)
    <3>1. d \in Seq(SoundFrame) /\ b \in Seq(SoundFrame) /\ (Send(w, d) \/ Send(w, b))
      BY <2>2, <2>3
    <3> HIDE DEF d, b
    <3> QED BY <1>0, <3>1, SendTyped
  <2>5. running' \in [Worker -> SUBSET Sound]
    BY <1>0, <2>2
  <2> QED BY <2>2, <2>4, <2>5 DEF Typed, broker, flags
<1>4. CASE Crash(w) \/ SettlesTooLate(w)
  <2>1. ProcessEnds(w)
    BY <1>4 DEF Crash, SettlesTooLate
  <2> QED BY <1>0, <1>i, <2>1 DEF ProcessEnds, Typed, broker, flags
<1>5. CASE ConnectionLost(w)
  <2>1. /\ ready' \in Seq(Sound)
        /\ unacked' = [unacked EXCEPT ![w] = {}]
        /\ got' = [got EXCEPT ![w] = {}]
        /\ consuming' = [consuming EXCEPT ![w] = FALSE]
    BY <1>5, RequeueIs DEF ConnectionLost
  <2>2. \A v \in Worker : unacked'[v] \subseteq unacked[v] /\ got'[v] \subseteq got[v]
    BY <1>0, <2>1
  <2>3. \A v \in Worker : IsFiniteSet(unacked'[v]) /\ IsFiniteSet(got'[v])
    BY <2>2, FS_Subset DEF Typed
  <2>4. out' \in [Worker -> Seq(SoundFrame)] /\ arriving' \in [Worker -> Seq(Sound)]
    BY <1>0, <1>5 DEF ConnectionLost
  <2> QED BY <1>5, <2>1, <2>3, <2>4 DEF ConnectionLost, Typed, flags
<1> QED BY <1>1, <1>2, <1>3, <1>4, <1>5

(* Every message stays sound.                                              *)
LEMMA TypedNext == Typed /\ [Next]_vars => Typed'
<1> SUFFICES ASSUME Typed, [Next]_vars PROVE Typed'
  OBVIOUS
<1>1. CASE Next
  BY <1>1, CallTyped, TakeTyped, RestTyped DEF Next
<1>2. CASE UNCHANGED vars
  BY <1>2 DEF vars, broker, flags, Typed
<1> QED BY <1>1, <1>2

(* At first there is no message.                                           *)
LEMMA TypedInit == Init => Typed
<1> SUFFICES ASSUME Init PROVE Typed
  OBVIOUS
<1>1. Idle \in [task : Task \cup {None}, left : 0 .. MaxChecks]
  BY RabbitAssumption DEF Idle
<1>2. IsFiniteSet({})
  BY FS_EmptySet
<1> QED BY <1>1, <1>2 DEF Init, Typed, Fate

(* In every reachable state every message is sound, wherever it is.        *)
THEOREM TypedInvariance == Spec => []Typed
BY TypedInit, TypedNext, PTL DEF Spec

(* The variables keep their types.                                         *)
THEOREM TypeInvariance == Spec => []TypeOK
<1>1. Typed => TypeOK
  <2> SUFFICES ASSUME Typed PROVE TypeOK
    OBVIOUS
  <2>1. Sound \subseteq Message /\ SoundFrame \subseteq Frame
    BY DEF Sound, SoundFrame
  <2>2. \A s \in Seq(Sound) : s \in Seq(Message)
    BY <2>1, SeqMonotonic
  <2>3. \A s \in Seq(SoundFrame) : s \in Seq(Frame)
    BY <2>1, SeqMonotonic
  <2> QED BY <2>1, <2>2, <2>3 DEF Typed, TypeOK
<1> QED BY <1>1, TypedInvariance, PTL

(* No message ever reaches the limit its task was submitted with, unless   *)
(* that is 0, however often it is redelivered, put back by a search or     *)
(* returned when a worker crashes or closes.                               *)
THEOREM RetriesStayBounded == Spec => []RetriesBounded
<1>1. ASSUME Typed, NEW m \in AtBroker, MaxRetries[m.task] > 0
      PROVE  m.retryCount < MaxRetries[m.task]
  <2>1. m \in Message /\ m.retryCount < Limit(m.task)
    BY <1>1, AtBrokerFinite DEF Sound
  <2>2. Limit(m.task) = MaxRetries[m.task]
    BY <1>1, <2>1, RabbitAssumption DEF Limit, Message
  <2> QED BY <2>1, <2>2
<1>2. Typed => RetriesBounded
  BY <1>1 DEF RetriesBounded
<1> QED BY <1>2, TypedInvariance, PTL

------------------------------------------------------------------------------
(* The order of the frames.                                                *)

(* No message is settled twice, a retried one is acknowledged right after  *)
(* its copy is published, and nothing follows the frame that closes the    *)
(* channel.                                                                *)
Single(s) ==
  \A i, j \in 1 .. Len(s) :
    s[i].op \in SettleOp /\ s[j].op \in SettleOp /\ s[i].msg = s[j].msg => i = j
CopyFirst(p, f) ==
  f.op = "retried" => p.op = "publish" /\ p.msg.task = f.msg.task
Paired(s) == \A i, j \in 1 .. Len(s) : j = i + 1 => CopyFirst(s[i], s[j])
CloseLast(s) == \A i \in 1 .. Len(s) : s[i].op = "close" => i = Len(s)
Orderly(s) == Single(s) /\ Paired(s) /\ CloseLast(s)

(* What may follow the frames in s.                                        *)
Follows(s, c) ==
  /\ Orderly(c)
  /\ c # <<>> => /\ Head(c).op # "retried"
                 /\ \A f \in ToSet(s) : f.op # "close"
  /\ \A f \in ToSet(s), g \in ToSet(c) :
       f.op \in SettleOp /\ g.op \in SettleOp => f.msg # g.msg

(* Frames stay in order when the first is taken; after a close there is    *)
(* none.                                                                   *)
LEMMA OrderlyTail ==
  ASSUME NEW s \in Seq(SoundFrame), s # <<>>, Orderly(s)
  PROVE  /\ Orderly(Tail(s))
         /\ \A f \in ToSet(Tail(s)) :
              f.op \in SettleOp /\ Head(s).op \in SettleOp => f.msg # Head(s).msg
         /\ Tail(s) # <<>> => CopyFirst(Head(s), Head(Tail(s)))
         /\ Head(s).op = "close" => Tail(s) = <<>>
<1> DEFINE q == Tail(s)
<1>1. /\ q \in Seq(SoundFrame) /\ Len(q) = Len(s) - 1 /\ Len(q) \in Nat
      /\ Head(s) = s[1] /\ 1 \in 1 .. Len(s) /\ Len(s) \in Nat \ {0}
      /\ \A i \in 1 .. Len(q) : q[i] = s[i + 1] /\ i + 1 \in 1 .. Len(s)
  BY TailIs, LenProperties
<1>2. DOMAIN q = 1 .. Len(q)
  BY <1>1, LenProperties
<1>3. q # <<>> => Head(q) = q[1] /\ Len(q) \in Nat \ {0}
  BY <1>1, EmptySeq
<1>e. Len(q) = 0 => q = <<>>
  BY <1>1, EmptySeq
<1> HIDE DEF q
<1>4. Single(q)
  <2> SUFFICES ASSUME NEW i \in 1 .. Len(q), NEW j \in 1 .. Len(q),
                      q[i].op \in SettleOp, q[j].op \in SettleOp, q[i].msg = q[j].msg
               PROVE  i = j
    BY DEF Single
  <2>1. i + 1 = j + 1
    BY <1>1, SMTT(30) DEF Orderly, Single
  <2> QED BY <2>1
<1>5. Paired(q)
  <2> SUFFICES ASSUME NEW i \in 1 .. Len(q), NEW j \in 1 .. Len(q), j = i + 1
               PROVE  CopyFirst(q[i], q[j])
    BY DEF Paired
  <2>1. CopyFirst(s[i + 1], s[j + 1])
    BY <1>1 DEF Orderly, Paired
  <2> QED BY <1>1, <2>1
<1>6. CloseLast(q)
  <2> SUFFICES ASSUME NEW i \in 1 .. Len(q), q[i].op = "close" PROVE i = Len(q)
    BY DEF CloseLast
  <2>1. i + 1 = Len(s)
    BY <1>1 DEF Orderly, CloseLast
  <2> QED BY <1>1, <2>1
<1>7. ASSUME NEW f \in ToSet(q), f.op \in SettleOp, s[1].op \in SettleOp
      PROVE  f.msg # s[1].msg
  <2>1. PICK i \in 1 .. Len(q) : f = q[i]
    BY <1>2 DEF ToSet
  <2>2. i + 1 # 1 /\ q[i] = s[i + 1] /\ i + 1 \in 1 .. Len(s)
    BY <1>1
  <2> QED BY <1>1, <1>7, <2>1, <2>2 DEF Orderly, Single
<1>8. ASSUME q # <<>> PROVE CopyFirst(s[1], Head(q))
  <2>1. /\ 1 \in 1 .. Len(q) /\ Head(q) = s[1 + 1] /\ 1 + 1 \in 1 .. Len(s)
    BY <1>1, <1>3, <1>8
  <2> QED BY <1>1, <2>1 DEF Orderly, Paired
<1>9. s[1].op = "close" => q = <<>>
  BY <1>1, <1>e DEF Orderly, CloseLast
<1> QED BY <1>1, <1>4, <1>5, <1>6, <1>7, <1>8, <1>9 DEF Orderly, q

(* Frames stay in order when frames that may follow them are sent.         *)
LEMMA OrderlyConcat ==
  ASSUME NEW s \in Seq(SoundFrame), NEW c \in Seq(SoundFrame), Orderly(s),
         Follows(s, c)
  PROVE  Orderly(s \o c)
<1> DEFINE q == s \o c
           n == Len(s)
<1>1. /\ n \in Nat /\ Len(c) \in Nat /\ Len(q) = n + Len(c)
      /\ \A i \in 1 .. n + Len(c) : q[i] = IF i <= n THEN s[i] ELSE c[i - n]
  BY ConcatIs
<1>2. DOMAIN s = 1 .. n /\ DOMAIN c = 1 .. Len(c)
  BY LenProperties
<1>3. c # <<>> => Head(c) = c[1]
  OBVIOUS
<1>e. Len(c) = 0 <=> c = <<>>
  BY EmptySeq
<1> HIDE DEF q, n
<1>4. ASSUME NEW i \in 1 .. Len(q), i <= n
      PROVE  i \in 1 .. n /\ q[i] = s[i] /\ q[i] \in ToSet(s)
  BY <1>1, <1>2, <1>4 DEF ToSet
<1>5. ASSUME NEW i \in 1 .. Len(q), ~(i <= n)
      PROVE  i - n \in 1 .. Len(c) /\ q[i] = c[i - n] /\ q[i] \in ToSet(c) /\ c # <<>>
  <2>1. i - n \in 1 .. Len(c) /\ q[i] = c[i - n]
    BY <1>1, <1>5
  <2> QED BY <1>1, <1>2, <1>e, <2>1 DEF ToSet
<1>6. Single(q)
  <2> SUFFICES ASSUME NEW i \in 1 .. Len(q), NEW j \in 1 .. Len(q),
                      q[i].op \in SettleOp, q[j].op \in SettleOp, q[i].msg = q[j].msg
               PROVE  i = j
    BY DEF Single
  <2>1. CASE i <= n /\ j <= n
    BY <1>4, <2>1 DEF Orderly, Single, n
  <2>2. CASE ~(i <= n) /\ ~(j <= n)
    <3>1. i - n = j - n
      BY <1>5, <2>2 DEF Follows, Orderly, Single
    <3> QED BY <1>1, <3>1
  <2>3. CASE i <= n /\ ~(j <= n)
    BY <1>4, <1>5, <2>3 DEF Follows
  <2>4. CASE ~(i <= n) /\ j <= n
    BY <1>4, <1>5, <2>4 DEF Follows
  <2> QED BY <2>1, <2>2, <2>3, <2>4
<1>7. Paired(q)
  <2> SUFFICES ASSUME NEW i \in 1 .. Len(q), NEW j \in 1 .. Len(q), j = i + 1
               PROVE  CopyFirst(q[i], q[j])
    BY DEF Paired
  <2>1. CASE j <= n
    <3>1. i <= n
      BY <1>1, <2>1
    <3>2. i \in 1 .. n /\ j \in 1 .. n /\ q[i] = s[i] /\ q[j] = s[j]
      BY <1>4, <2>1, <3>1
    <3> QED BY <3>2 DEF Orderly, Paired, n
  <2>2. CASE ~(i <= n)
    <3>1. ~(j <= n)
      BY <1>1, <2>2
    <3>2. /\ i - n \in 1 .. Len(c) /\ j - n \in 1 .. Len(c)
          /\ q[i] = c[i - n] /\ q[j] = c[j - n]
      BY <1>5, <2>2, <3>1
    <3>3. j - n = (i - n) + 1
      BY <1>1
    <3> QED BY <3>2, <3>3 DEF Follows, Orderly, Paired
  <2>3. CASE i <= n /\ ~(j <= n)
    <3>1. j - n = 1
      BY <1>1, <2>3
    <3>2. q[j] = Head(c) /\ c # <<>>
      BY <1>3, <1>5, <2>3, <3>1
    <3> QED BY <3>2 DEF Follows, CopyFirst
  <2> QED BY <2>1, <2>2, <2>3
<1>8. CloseLast(q)
  <2> SUFFICES ASSUME NEW i \in 1 .. Len(q), q[i].op = "close" PROVE i = Len(q)
    BY DEF CloseLast
  <2>1. CASE i <= n
    <3>1. c = <<>>
      BY <1>4, <2>1 DEF Follows
    <3>2. Len(q) = n
      BY <1>1, <1>e, <3>1
    <3> QED BY <1>4, <2>1, <3>2 DEF Orderly, CloseLast, n
  <2>2. CASE ~(i <= n)
    <3>1. i - n = Len(c)
      BY <1>5, <2>2 DEF Follows, Orderly, CloseLast
    <3> QED BY <1>1, <3>1
  <2> QED BY <2>1, <2>2
<1> QED BY <1>6, <1>7, <1>8 DEF Orderly, q

(* Frames a worker sends at once are in order.                             *)
LEMMA OrderlyFew ==
  ASSUME NEW f \in SoundFrame, NEW g \in SoundFrame
  PROVE  /\ Orderly(<<>>) /\ ToSet(<<>>) = {}
         /\ Orderly(<<f>>) /\ ToSet(<<f>>) = {f} /\ Head(<<f>>) = f
         /\ CopyFirst(f, g) /\ f.op # "close"
              /\ (f.op \notin SettleOp \/ g.op \notin SettleOp) =>
              Orderly(<<f, g>>)
         /\ ToSet(<<f, g>>) = {f, g} /\ Head(<<f, g>>) = f
<1>1. Orderly(<<>>) /\ ToSet(<<>>) = {}
  BY DEF Orderly, Single, Paired, CloseLast, ToSet
<1>2. Orderly(<<f>>) /\ ToSet(<<f>>) = {f} /\ Head(<<f>>) = f
  <2> DEFINE s == <<f>>
  <2>1. Len(s) = 1 /\ DOMAIN s = {1} /\ s[1] = f /\ 1 .. Len(s) = {1} /\ Head(s) = f
    OBVIOUS
  <2> HIDE DEF s
  <2>2. Orderly(s) /\ ToSet(s) = {f} /\ Head(s) = f
    BY <2>1 DEF Orderly, Single, Paired, CloseLast, ToSet
  <2> QED BY <2>2 DEF s
<1>3. /\ CopyFirst(f, g) /\ f.op # "close"
           /\ (f.op \notin SettleOp \/ g.op \notin SettleOp) =>
           Orderly(<<f, g>>)
      /\ ToSet(<<f, g>>) = {f, g} /\ Head(<<f, g>>) = f
  <2> DEFINE s == <<f, g>>
  <2>1. /\ Len(s) = 2 /\ DOMAIN s = {1, 2} /\ s[1] = f /\ s[2] = g
        /\ 1 .. Len(s) = {1, 2} /\ Head(s) = f
    OBVIOUS
  <2> HIDE DEF s
  <2>2. ToSet(s) = {f, g} /\ Head(s) = f
    BY <2>1 DEF ToSet
  <2>3. ASSUME CopyFirst(f, g), f.op # "close",
               f.op \notin SettleOp \/ g.op \notin SettleOp
        PROVE  Orderly(s)
    BY <2>1, <2>3 DEF Orderly, Single, Paired, CloseLast
  <2> QED BY <2>2, <2>3 DEF s
<1> QED BY <1>1, <1>2, <1>3

------------------------------------------------------------------------------
(* Where the messages are.                                                 *)

Holds(w) == unacked[w] \cup got[w]

(* A message is in one place of the broker.                                *)
Placed ==
  /\ Injective(ready)
  /\ \A w \in Worker :
       ToSet(ready) \cap Holds(w) = {} /\ unacked[w] \cap got[w] = {}
  /\ \A v, w \in Worker : v # w => Holds(v) \cap Holds(w) = {}

(* The frames of a worker settle what it holds.                            *)
Owned(w) ==
  \A f \in ToSet(out[w]) :
    /\ f.op \in {"done", "retried", "bury"} => f.msg \in unacked[w]
    /\ f.op \in {"removed", "putBack"} => f.msg \in got[w]

(* Nothing is sent on a channel that shutdown has closed.                  *)
Closing(w) ==
  /\ ~open[w] => isShutdown[w]
  /\ \A f \in ToSet(out[w]) :
       (f.op = "close" => ~open[w]) /\ (f.op = "cancelThenClose" => isShutdown[w])

(* Deliveries on their way, and those whose handler runs, are the worker's *)
(* and not settled.                                                        *)
Attended(w) ==
  Listening(w) =>
    /\ Injective(arriving[w])
    /\ ToSet(arriving[w]) \cup running[w] \subseteq unacked[w]
    /\ ToSet(arriving[w]) \cap running[w] = {}
    /\ \A f \in ToSet(out[w]) : f.op \in SettleOp =>
         f.msg \notin ToSet(arriving[w]) \cup running[w]

Mine(w) == Orderly(out[w]) /\ Owned(w) /\ Closing(w) /\ Attended(w)
HInv == Typed /\ Placed /\ \A w \in Worker : Mine(w)

(* What a step of w leaves as it is.                                       *)
Elsewhere(w) ==
  \A v \in Worker \ {w} :
    /\ out'[v] = out[v] /\ unacked'[v] = unacked[v] /\ got'[v] = got[v]
    /\ arriving'[v] = arriving[v] /\ running'[v] = running[v]
    /\ alive'[v] = alive[v] /\ open'[v] = open[v]
    /\ isShutdown'[v] = isShutdown[v]

(* A step of one worker leaves the others alone.                           *)
LEMMA StepElsewhere ==
  ASSUME Typed, NEW w \in Worker,
         \/ ClientCall(w) \/ BrokerTakes(w) \/ Deliver(w) \/ Arrive(w)
         \/ \E m \in running[w] : HandlerSettles(w, m)
         \/ Crash(w) \/ SettlesTooLate(w) \/ ConnectionLost(w)
  PROVE  Elsewhere(w)
<1>1. CASE ClientCall(w)
  <2>1. /\ UNCHANGED <<unacked, got, arriving, running, alive, open>>
        /\ \E frames : Send(w, frames) \/ out' = out
        /\ isShutdown' = isShutdown \/ isShutdown' = [isShutdown EXCEPT ![w] = TRUE]
    BY <1>1, Zenon DEF ClientCall, Add, Process, Pause, Resume, Shutdown, Search, Clear,
                broker, flags
  <2> QED BY <2>1 DEF Send, Elsewhere, Typed
<1>2. CASE BrokerTakes(w)
  <2>1. \E frames : Reply(w, frames)
    BY <1>2, Zenon DEF BrokerTakes, TakePublish, TakeSettlement, TakePutBack, TakeConsume,
           TakeCancel, TakeCancelThenClose, TakeClose, TakeGetEmpty, TakeGet,
           TakeGetUnheard, TakePurge
  <2>2. \A v \in Worker \ {w} : out'[v] = out[v]
    <3>1. PICK frames : Reply(w, frames)
      BY <2>1
    <3> QED BY <3>1 DEF Reply, Typed
  <2>3. UNCHANGED <<running, alive, isShutdown>>
    BY <1>2, ZenonT(30) DEF BrokerTakes, TakePublish, TakeSettlement, TakePutBack, TakeConsume,
           TakeCancel, TakeCancelThenClose, TakeClose, TakeGetEmpty, TakeGet,
           TakeGetUnheard, TakePurge, flags
  <2>4. \A v \in Worker \ {w} : open'[v] = open[v]
    BY <1>2, SMTT(60) DEF BrokerTakes, TakePublish, TakeSettlement, TakePutBack, TakeConsume,
           TakeCancel, TakeCancelThenClose, TakeClose, TakeGetEmpty, TakeGet,
           TakeGetUnheard, TakePurge, Typed
  <2>5. \A v \in Worker \ {w} : arriving'[v] = arriving[v]
    BY <1>2, SMTT(60) DEF BrokerTakes, TakePublish, TakeSettlement, TakePutBack, TakeConsume,
           TakeCancel, TakeCancelThenClose, TakeClose, TakeGetEmpty, TakeGet,
           TakeGetUnheard, TakePurge, Typed
  <2>6. \A v \in Worker \ {w} : unacked'[v] = unacked[v] /\ got'[v] = got[v]
    BY <1>2, Zenon DEF BrokerTakes, TakePublish, TakeSettlement, TakePutBack, TakeConsume,
           TakeCancel, TakeCancelThenClose, TakeClose, TakeGetEmpty, TakeGet,
           TakeGetUnheard, TakePurge, Typed, broker, Requeue
  <2> QED BY <2>2, <2>3, <2>4, <2>5, <2>6 DEF Elsewhere
<1>3. CASE Deliver(w) \/ Arrive(w)
  BY <1>3 DEF Deliver, Arrive, Elsewhere, Typed, broker, flags
<1>4. ASSUME NEW m \in running[w], HandlerSettles(w, m) PROVE Elsewhere(w)
  <2>1. /\ running' = [running EXCEPT ![w] = @ \ {m}]
        /\ UNCHANGED <<unacked, got, arriving, alive, open, isShutdown>>
        /\ \E frames : Send(w, frames)
    BY <1>4 DEF HandlerSettles, HandlerResolves, HandlerRejects, Settles, broker, flags
  <2> QED BY <2>1 DEF Send, Elsewhere, Typed
<1>5. CASE Crash(w) \/ SettlesTooLate(w)
  BY <1>5 DEF Crash, SettlesTooLate, ProcessEnds, Elsewhere, Typed, broker, flags
<1>6. CASE ConnectionLost(w)
  BY <1>6 DEF ConnectionLost, Requeue, Elsewhere, Typed, flags
<1> QED BY <1>1, <1>2, <1>3, <1>4, <1>5, <1>6

(* And what holds of the others still does.                                *)
LEMMA OthersMine ==
  ASSUME NEW w \in Worker, Elsewhere(w), NEW v \in Worker \ {w}, Mine(v)
  PROVE  Mine(v)'
BY DEF Elsewhere, Mine, Owned, Closing, Attended, Listening

(* What a worker sends is in order.                                        *)
LEMMA SendOrderly ==
  ASSUME Typed, NEW w \in Worker, Orderly(out[w]),
         NEW c \in Seq(SoundFrame), Follows(out[w], c), Send(w, c)
  PROVE  /\ Orderly(out[w])' /\ ToSet(out'[w]) = ToSet(out[w]) \cup ToSet(c)
         /\ out'[w] # <<>> /\ Head(out'[w]).op = "retried" =>
              out[w] # <<>> /\ Head(out'[w]) = Head(out[w])
<1> DEFINE s == out[w]
           q == s \o c
<1>1. s \in Seq(SoundFrame) /\ out'[w] = q
  BY DEF Send, Typed
<1>2. Orderly(q)
  BY <1>1, OrderlyConcat
<1>3. /\ ToSet(q) = ToSet(s) \cup ToSet(c)
      /\ q # <<>> => Head(q) = IF s = <<>> THEN Head(c) ELSE Head(s)
  BY <1>1, ConcatIs
<1>4. s = <<>> => q = c
  BY <1>1, ConcatEmptySeq
<1> HIDE DEF q
<1>5. Orderly(out[w])'
  BY <1>1, <1>2
<1> QED BY <1>1, <1>3, <1>4, <1>5 DEF Follows

(* And so is what it sends on a reply, which is nothing if it is not there *)
(* to read it.                                                             *)
LEMMA ReplyOrderly ==
  ASSUME Typed, NEW w \in Worker, Orderly(out[w]), out[w] # <<>>,
         NEW c \in Seq(SoundFrame), Listening(w) => Follows(out[w], c), Reply(w, c)
  PROVE  /\ Orderly(out[w])' /\ Head(out[w]) \in ToSet(out[w])
         /\ ToSet(out'[w]) = ToSet(Tail(out[w])) \cup
                               IF Listening(w) THEN ToSet(c) ELSE {}
         /\ \A f \in ToSet(Tail(out[w])) :
              /\ f \in ToSet(out[w])
              /\ f.op \in SettleOp /\ Head(out[w]).op \in SettleOp =>
                   f.msg # Head(out[w]).msg
         /\ out'[w] # <<>> => \/ CopyFirst(Head(out[w]), Head(out'[w]))
                              \/ Head(out'[w]).op # "retried"
         /\ Head(out[w]).op = "close" => Tail(out[w]) = <<>>
<1> DEFINE s == out[w]
           r == Tail(s)
           e == IF Listening(w) THEN c ELSE <<>>
           q == r \o e
<1>1. /\ s \in Seq(SoundFrame) /\ out'[w] = q
      /\ r \in Seq(SoundFrame) /\ ToSet(s) = {Head(s)} \cup ToSet(r)
  BY TailIs DEF Reply, Typed
<1>2. /\ Orderly(r)
      /\ \A f \in ToSet(r) :
           f.op \in SettleOp /\ Head(s).op \in SettleOp => f.msg # Head(s).msg
      /\ r # <<>> => CopyFirst(Head(s), Head(r))
      /\ Head(s).op = "close" => r = <<>>
  BY <1>1, OrderlyTail
<1>3. Orderly(<<>>) /\ ToSet(<<>>) = {} /\ <<>> \in Seq(SoundFrame)
  BY DEF Orderly, Single, Paired, CloseLast, ToSet
<1>4. e \in Seq(SoundFrame) /\ ToSet(e) = IF Listening(w) THEN ToSet(c) ELSE {}
  BY <1>3
<1> HIDE DEF r, s
<1>5. Follows(r, e)
  <2>1. CASE Listening(w)
    <3>1. Follows(s, c)
      BY <2>1 DEF s
    <3> QED BY <1>1, <2>1, <3>1 DEF Follows
  <2>2. CASE ~Listening(w)
    BY <1>3, <2>2 DEF Follows
  <2> QED BY <2>1, <2>2
<1> HIDE DEF e
<1>6. Orderly(q)
  BY <1>1, <1>2, <1>4, <1>5, OrderlyConcat
<1>7. /\ ToSet(q) = ToSet(r) \cup ToSet(e)
      /\ q # <<>> => Head(q) = IF r = <<>> THEN Head(e) ELSE Head(r)
  BY <1>1, <1>4, ConcatIs
<1>8. r = <<>> => q = e
  BY <1>1, <1>4, ConcatEmptySeq
<1> HIDE DEF q
<1>9. Orderly(out[w])'
  BY <1>1, <1>6
<1>10. q # <<>> => CopyFirst(Head(s), Head(q)) \/ Head(q).op # "retried"
  BY <1>2, <1>5, <1>7, <1>8 DEF Follows
<1> QED BY <1>1, <1>2, <1>4, <1>7, <1>9, <1>10 DEF s, r

------------------------------------------------------------------------------
(* One step of one worker.                                                 *)

(* Messages stay in one place when those of w and of the queue do, and     *)
(* what comes to w or to the queue is from there or new to the broker.     *)
LEMMA PlacedStep ==
  ASSUME Placed, NEW w \in Worker, Elsewhere(w),
         Injective(ready'), ToSet(ready') \cap Holds(w)' = {},
         unacked'[w] \cap got'[w] = {},
         \A n \in ToSet(ready') \cup Holds(w)' :
           n \in ToSet(ready) \cup Holds(w) \/ n \notin AtBroker
  PROVE  Placed'
<1>1. \A v \in Worker \ {w} : Holds(v)' = Holds(v) /\ unacked'[v] = unacked[v]
                              /\ got'[v] = got[v]
  BY DEF Elsewhere, Holds
<1>2. \A v \in Worker : Holds(v) \subseteq AtBroker
  BY DEF Holds, AtBroker
<1>3. \A v \in Worker \ {w} : \A n \in ToSet(ready') \cup Holds(w)' : n \notin Holds(v)
  BY <1>2 DEF Placed
<1>4. \A v \in Worker : ToSet(ready') \cap Holds(v)' = {} /\ unacked'[v] \cap got'[v] = {}
  <2> TAKE v \in Worker
  <2>1. CASE v = w
    BY <2>1
  <2>2. CASE v # w
    <3>1. v \in Worker \ {w}
      BY <2>2
    <3>2. ToSet(ready') \cap Holds(v)' = {}
      BY <1>1, <1>3, <3>1
    <3> QED BY <1>1, <3>1, <3>2 DEF Placed
  <2> QED BY <2>1, <2>2
<1>5. \A v, u \in Worker : v # u => Holds(v)' \cap Holds(u)' = {}
  <2> TAKE v, u \in Worker
  <2> HAVE v # u
  <2>1. CASE v = w
    BY <1>1, <1>3, <2>1
  <2>2. CASE u = w
    BY <1>1, <1>3, <2>2
  <2>3. CASE v # w /\ u # w
    BY <1>1, <2>3 DEF Placed
  <2> QED BY <2>1, <2>2, <2>3
<1> QED BY <1>4, <1>5 DEF Placed

(* Nothing moves at the broker.                                            *)
LEMMA PlacedStill ==
  ASSUME Placed, UNCHANGED <<ready, unacked, got>> PROVE Placed'
BY DEF Placed, Holds

(* A retried message that a step brings to the head of what w has sent     *)
(* comes right after its copy, which the broker takes in that step.        *)
NextHead(w) ==
  out'[w] # <<>> /\ Head(out'[w]).op = "retried" =>
    /\ out[w] # <<>>
    /\ \/ Head(out'[w]) = Head(out[w])
       \/ BrokerTakes(w) /\ CopyFirst(Head(out[w]), Head(out'[w]))

(* A client call only sends.                                               *)
LEMMA CallMine ==
  ASSUME Typed, NEW w \in Worker, Mine(w), ClientCall(w)
  PROVE  Mine(w)' /\ NextHead(w)
<1>1. /\ UNCHANGED <<unacked, got, arriving, running, alive, open>>
      /\ isShutdown[w] => isShutdown'[w]
  BY DEF ClientCall, Add, Process, Pause, Resume, Shutdown, Search, Clear, broker,
         flags, Typed
<1>2. \/ out' = out
      \/ open[w] /\ Send(w, <<>>)
      \/ open[w] /\ \E f \in SoundFrame :
           /\ Send(w, <<f>>) /\ f.op \notin SettleOp \cup {"close"}
           /\ f.op = "cancelThenClose" => isShutdown'[w]
  <2>1. \A op \in Op : op \notin SettleOp \cup {"publish"} =>
          F(op, Nothing) \in SoundFrame /\ F(op, Nothing).op = op
    BY FramesSound DEF F
  <2>2. ASSUME NEW t \in Task, Add(w, t)
        PROVE  \E f \in SoundFrame : Send(w, <<f>>) /\ f.op = "publish"
    <3> DEFINE m == [task |-> t, retryCount |-> 0, copy |-> 0]
               f == F("publish", m)
    <3>1. m \in Sound /\ "publish" \in Op
      BY PublishedSound DEF Op
    <3>2. f \in SoundFrame /\ f.op = "publish"
      BY <3>1, FramesSound
    <3>3. Send(w, <<f>>)
      BY <2>2 DEF Add
    <3> QED BY <3>2, <3>3
  <2>3. ASSUME NEW op \in {"consume", "cancel", "cancelThenClose", "get", "purge"},
               Send(w, <<F(op, Nothing)>>)
        PROVE  \E f \in SoundFrame : Send(w, <<f>>) /\ f.op = op
    BY <2>1, <2>3 DEF Op, SettleOp
  <2>4. CASE Shutdown(w)
    <3>1. open[w] /\ isShutdown'[w]
      BY <2>4 DEF Shutdown, Mine, Closing, Typed
    <3>2. CASE consumerTag[w]
      BY <2>3, <2>4, <3>1, <3>2 DEF Shutdown, SettleOp
    <3>3. CASE ~consumerTag[w]
      BY <2>4, <3>1, <3>3 DEF Shutdown
    <3> QED BY <3>2, <3>3
  <2>5. ASSUME NEW t \in Task, Add(w, t) PROVE open[w]
    BY <2>5 DEF Add, Listening
  <2>6. CASE \E t \in Task : Add(w, t)
    BY <2>2, <2>5, <2>6 DEF SettleOp
  <2>7. CASE Process(w) \/ Pause(w) \/ (\E t \in Task \cup {None} : Search(w, t)) \/ Clear(w)
    <3>1. /\ open[w]
          /\ \E op \in {"consume", "cancel", "get", "purge"} : Send(w, <<F(op, Nothing)>>)
      BY <2>7 DEF Process, Pause, Search, Clear, Listening
    <3> QED BY <2>3, <3>1 DEF SettleOp
  <2>8. CASE Resume(w)
    BY <2>8 DEF Resume
  <2> QED BY <2>4, <2>6, <2>7, <2>8 DEF ClientCall
<1>3. CASE out' = out
  BY <1>1, <1>3 DEF Mine, Owned, Closing, Attended, Listening, NextHead
<1>4. open[w] => \A f \in ToSet(out[w]) : f.op # "close"
  BY DEF Mine, Closing
<1>5. ASSUME NEW c \in Seq(SoundFrame), Send(w, c), open[w], Orderly(c),
             \A f \in ToSet(c) : /\ f.op \notin SettleOp \cup {"close"}
                                 /\ f.op = "cancelThenClose" => isShutdown'[w],
             c # <<>> => Head(c).op # "retried"
      PROVE  Mine(w)' /\ NextHead(w)
  <2>1. Follows(out[w], c)
    BY <1>4, <1>5 DEF Follows
  <2>2. /\ Orderly(out[w])'
        /\ ToSet(out'[w]) = ToSet(out[w]) \cup ToSet(c)
        /\ out'[w] # <<>> /\ Head(out'[w]).op = "retried" =>
             out[w] # <<>> /\ Head(out'[w]) = Head(out[w])
    BY <1>5, <2>1, SendOrderly DEF Mine
  <2>3. Owned(w)'
    BY <1>1, <1>5, <2>2 DEF Mine, Owned, SettleOp
  <2>4. Closing(w)'
    BY <1>1, <1>5, <2>2 DEF Mine, Closing
  <2>5. Attended(w)'
    BY <1>1, <1>5, <2>2 DEF Mine, Attended, Listening
  <2> QED BY <2>2, <2>3, <2>4, <2>5 DEF Mine, NextHead
<1>6. ASSUME open[w], Send(w, <<>>) PROVE Mine(w)' /\ NextHead(w)
  <2>1. /\ <<>> \in Seq(SoundFrame) /\ Orderly(<<>>) /\ ToSet(<<>>) = {}
    BY DEF Orderly, Single, Paired, CloseLast, ToSet
  <2> QED BY <1>5, <1>6, <2>1
<1>7. ASSUME open[w], NEW f \in SoundFrame, Send(w, <<f>>),
             f.op \notin SettleOp \cup {"close"},
             f.op = "cancelThenClose" => isShutdown'[w]
      PROVE  Mine(w)' /\ NextHead(w)
  <2> DEFINE c == <<f>>
  <2>1. Orderly(<<f>>) /\ ToSet(<<f>>) = {f} /\ Head(<<f>>) = f
    BY OrderlyFew
  <2>2. Send(w, c) /\ c \in Seq(SoundFrame)
        /\ Orderly(c) /\ ToSet(c) = {f} /\ Head(c) = f
    BY <1>7, <2>1
  <2> HIDE DEF c
  <2> QED BY <1>5, <1>7, <2>1, <2>2 DEF SettleOp
<1> QED BY <1>2, <1>3, <1>6, <1>7

(* A worker is in order when the broker takes a frame it does not answer,  *)
(* and only what that frame settles is taken from the worker.              *)
LEMMA TakeQuietly ==
  ASSUME Typed, NEW w \in Worker, Mine(w), out[w] # <<>>, Reply(w, <<>>),
         UNCHANGED <<arriving, running, alive, open, isShutdown>>,
         \A n \in unacked[w] :
           n \in unacked'[w] \/ (Head(out[w]).op \in SettleOp /\ n = Head(out[w]).msg),
         \A n \in got[w] :
           n \in got'[w] \/ (Head(out[w]).op \in SettleOp /\ n = Head(out[w]).msg)
  PROVE  /\ Mine(w)'
         /\ out'[w] # <<>> /\ Head(out'[w]).op = "retried" =>
              CopyFirst(Head(out[w]), Head(out'[w]))
<1> DEFINE h == Head(out[w])
           c == <<>>
<1>1. c \in Seq(SoundFrame) /\ Orderly(c) /\ ToSet(c) = {}
  BY DEF Orderly, Single, Paired, CloseLast, ToSet
<1>2. Follows(out[w], c) /\ Reply(w, c)
  BY <1>1 DEF Follows
<1> HIDE DEF c
<1>3. /\ Orderly(out[w])' /\ h \in ToSet(out[w])
      /\ ToSet(out'[w]) = ToSet(Tail(out[w])) \cup IF Listening(w) THEN ToSet(c) ELSE {}
      /\ \A f \in ToSet(Tail(out[w])) :
           /\ f \in ToSet(out[w])
           /\ f.op \in SettleOp /\ h.op \in SettleOp => f.msg # h.msg
      /\ out'[w] # <<>> => CopyFirst(h, Head(out'[w])) \/ Head(out'[w]).op # "retried"
  BY <1>1, <1>2, ReplyOrderly DEF Mine
<1>4. /\ \A f \in ToSet(out'[w]) :
           /\ f \in ToSet(out[w])
           /\ f.op \in SettleOp /\ h.op \in SettleOp => f.msg # h.msg
  BY <1>1, <1>3
<1>5. /\ \A n \in unacked[w] : n \in unacked'[w] \/ (h.op \in SettleOp /\ n = h.msg)
      /\ \A n \in got[w] : n \in got'[w] \/ (h.op \in SettleOp /\ n = h.msg)
  OBVIOUS
<1> HIDE DEF h
<1>6. Owned(w)'
  BY <1>4, <1>5 DEF Mine, Owned, SettleOp
<1>7. Closing(w)'
  BY <1>4 DEF Mine, Closing
<1>8. Attended(w)'
  <2>1. ASSUME Listening(w), NEW n \in ToSet(arriving[w]) \cup running[w]
        PROVE  n \in unacked'[w]
    <3>1. n \in unacked[w] /\ ~(h.op \in SettleOp /\ n = h.msg)
      BY <1>3, <2>1 DEF Mine, Attended
    <3> QED BY <1>5, <3>1
  <2>2. Listening(w)' <=> Listening(w)
    BY DEF Listening
  <2> QED BY <1>4, <2>1, <2>2 DEF Mine, Attended
<1> QED BY <1>3, <1>6, <1>7, <1>8 DEF Mine, h

(* A settled task has a fate.                                              *)
LEMMA TakeMine ==
  ASSUME Typed, Placed, NEW w \in Worker, Mine(w), BrokerTakes(w)
  PROVE  Mine(w)' /\ NextHead(w)
<1> DEFINE h == Head(out[w])
<1>1. CASE \/ TakePublish(w) \/ TakePutBack(w) \/ TakeConsume(w) \/ TakeCancel(w)
           \/ TakeGetEmpty(w) \/ TakeGetUnheard(w) \/ TakePurge(w) \/ TakeSettlement(w)
  <2>1. /\ out[w] # <<>> /\ Reply(w, <<>>)
        /\ UNCHANGED <<arriving, running, alive, open, isShutdown>>
    BY <1>1 DEF TakePublish, TakeSettlement, TakePutBack, TakeConsume,
           TakeCancel, TakeGetEmpty, TakeGetUnheard, TakePurge, Takes, broker, flags
  <2>2. \/ \A n \in Holds(w) : (n \in unacked[w] => n \in unacked'[w])
                            /\ (n \in got[w] => n \in got'[w])
        \/ /\ h.op \in SettleOp
           /\ \A n \in Holds(w) : n # h.msg => (n \in unacked[w] => n \in unacked'[w])
                            /\ (n \in got[w] => n \in got'[w])
    BY <1>1 DEF TakePublish, TakeSettlement, TakePutBack, TakeConsume,
           TakeCancel, TakeGetEmpty, TakeGetUnheard, TakePurge, Takes, broker, flags,
           Outcome, SettleOp, Typed
  <2>3. /\ \A n \in unacked[w] :
             n \in unacked'[w] \/ (h.op \in SettleOp /\ n = h.msg)
        /\ \A n \in got[w] :
             n \in got'[w] \/ (h.op \in SettleOp /\ n = h.msg)
    BY <2>2 DEF Holds
  <2> QED BY <2>1, <2>3, TakeQuietly DEF NextHead
<1>2. CASE TakeCancelThenClose(w)
  <2> DEFINE g == F("close", Nothing)
             c == <<g>>
  <2>1. g \in SoundFrame /\ g.op = "close"
    BY FramesSound DEF F, Op, SettleOp
  <2>2. c \in Seq(SoundFrame) /\ Reply(w, c)
    BY <1>2, <2>1 DEF TakeCancelThenClose
  <2>3. Orderly(c) /\ ToSet(c) = {g} /\ (c # <<>> => Head(c) = g)
    BY <2>1, OrderlyFew
  <2>4. /\ out[w] # <<>> /\ h.op = "cancelThenClose" /\ open'[w] = FALSE
        /\ UNCHANGED <<unacked, got, arriving, running, alive, isShutdown>>
    BY <1>2 DEF TakeCancelThenClose, Takes, flags, Typed
  <2> HIDE DEF c, g
  <2>5. Listening(w) => Follows(out[w], c)
    BY <2>1, <2>3 DEF Follows, Listening, Mine, Closing, SettleOp
  <2>6. /\ Orderly(out[w])' /\ h \in ToSet(out[w])
        /\ ToSet(out'[w]) = ToSet(Tail(out[w])) \cup
                              IF Listening(w) THEN ToSet(c) ELSE {}
        /\ \A f \in ToSet(Tail(out[w])) : f \in ToSet(out[w])
        /\ out'[w] # <<>> => CopyFirst(h, Head(out'[w])) \/ Head(out'[w]).op # "retried"
    BY <2>2, <2>4, <2>5, ReplyOrderly DEF Mine
  <2>7. \A f \in ToSet(out'[w]) : f \in ToSet(out[w]) \/ f.op = "close"
    BY <2>1, <2>3, <2>6
  <2>8. Owned(w)'
    BY <2>4, <2>7 DEF Mine, Owned
  <2>9. Closing(w)'
    BY <2>4, <2>6, <2>7 DEF Mine, Closing
  <2>10. Attended(w)'
    BY <2>4 DEF Attended, Listening
  <2> QED BY <2>4, <2>6, <2>8, <2>9, <2>10 DEF Mine, NextHead
<1>3. CASE TakeClose(w)
  <2> DEFINE c == <<>>
  <2>1. /\ c \in Seq(SoundFrame) /\ Orderly(c) /\ ToSet(c) = {} /\ Reply(w, c)
    BY <1>3 DEF TakeClose, Orderly, Single, Paired, CloseLast, ToSet
  <2>2. /\ out[w] # <<>> /\ h.op = "close" /\ arriving'[w] = <<>>
        /\ UNCHANGED <<running, alive, open, isShutdown>>
    BY <1>3 DEF TakeClose, Takes, flags, Typed
  <2>3. Follows(out[w], c)
    BY <2>1 DEF Follows
  <2> HIDE DEF c
  <2>4. /\ Orderly(out[w])' /\ h \in ToSet(out[w]) /\ Tail(out[w]) = <<>>
        /\ out'[w] # <<>> => CopyFirst(h, Head(out'[w])) \/ Head(out'[w]).op # "retried"
        /\ ToSet(out'[w]) = ToSet(Tail(out[w])) \cup
                              IF Listening(w) THEN ToSet(c) ELSE {}
    BY <2>1, <2>2, <2>3, ReplyOrderly DEF Mine
  <2>5. ToSet(out'[w]) = {} /\ ~open[w] /\ isShutdown[w]
    <3>1. ToSet(<<>>) = {}
      BY DEF ToSet
    <3>2. ToSet(out'[w]) = {}
      BY <2>1, <2>4, <3>1
    <3> QED BY <2>2, <2>4, <3>2 DEF Mine, Closing
  <2>6. Owned(w)' /\ Closing(w)' /\ Attended(w)'
    BY <2>2, <2>5 DEF Owned, Closing, Attended, Listening
  <2> QED BY <2>2, <2>4, <2>6 DEF Mine, NextHead
<1>4. CASE TakeGet(w)
  <2> DEFINE m == Head(ready)
             left == search[w].left - 1
             r == F("removed", m)
             p == F("putBack", m)
             g == F("get", Nothing)
             more == IF MoreChecks(left) THEN <<g>> ELSE <<>>
  <2>1. /\ ready # <<>> /\ Listening(w) /\ out[w] # <<>> /\ h.op = "get"
        /\ Reply(w, <<r>>) \/ Reply(w, <<p>> \o more)
        /\ got' = [got EXCEPT ![w] = @ \cup {m}]
        /\ UNCHANGED <<unacked, arriving, running, alive, open, isShutdown>>
    BY <1>4 DEF TakeGet, Takes, flags
  <2>2. m \in Sound /\ m \in ToSet(ready)
    BY <2>1, TailIs DEF Typed
  <2>3. /\ r \in SoundFrame /\ r.op = "removed" /\ r.msg = m
        /\ p \in SoundFrame /\ p.op = "putBack" /\ p.msg = m
        /\ g \in SoundFrame /\ g.op = "get"
    BY <2>2, FramesSound DEF Op, SettleOp, F
  <2>4. m \notin Holds(w)
    BY <2>2 DEF Placed
  <2>5. \A f \in ToSet(out[w]) : f.op \in SettleOp => f.msg # m
    BY <2>4 DEF Mine, Owned, Holds, SettleOp
  <2>6. \E c \in Seq(SoundFrame) :
          /\ Reply(w, c) /\ Orderly(c)
          /\ c # <<>> => Head(c).op # "retried"
          /\ \A f \in ToSet(c) : f \in {r, p, g}
    <3> DEFINE s1 == <<r>>
               s2 == <<p>>
    <3>1. /\ s1 \in Seq(SoundFrame) /\ Orderly(s1) /\ ToSet(s1) = {r} /\ Head(s1) = r
          /\ s2 \in Seq(SoundFrame) /\ Orderly(s2) /\ ToSet(s2) = {p} /\ Head(s2) = p
          /\ s2 # <<>>
      <4>1. /\ Orderly(<<r>>) /\ ToSet(<<r>>) = {r} /\ Head(<<r>>) = r
            /\ Orderly(<<p>>) /\ ToSet(<<p>>) = {p} /\ Head(<<p>>) = p
        BY <2>3, OrderlyFew
      <4>2. <<r>> \in Seq(SoundFrame) /\ <<p>> \in Seq(SoundFrame) /\ <<p>> # <<>>
        BY <2>3
      <4> QED BY <4>1, <4>2
    <3>2. /\ more \in Seq(SoundFrame) /\ Orderly(more) /\ ToSet(more) \subseteq {g}
          /\ more # <<>> => Head(more) = g
      <4>1. <<g>> \in Seq(SoundFrame) /\ <<>> \in Seq(SoundFrame)
        BY <2>3
      <4>2. Orderly(<<g>>) /\ ToSet(<<g>>) = {g} /\ Head(<<g>>) = g
            /\ Orderly(<<>>) /\ ToSet(<<>>) = {}
        BY <2>3, OrderlyFew
      <4> HIDE DEF g, left
      <4> QED BY <4>1, <4>2
    <3> HIDE DEF s1, s2, more
    <3>3. Follows(s2, more)
      BY <2>3, <3>1, <3>2 DEF Follows, SettleOp
    <3>4. /\ s2 \o more \in Seq(SoundFrame) /\ Orderly(s2 \o more)
          /\ ToSet(s2 \o more) \subseteq {p, g}
          /\ s2 \o more # <<>> => Head(s2 \o more) = p
      BY <3>1, <3>2, <3>3, OrderlyConcat, ConcatIs
    <3>5. Reply(w, s1) \/ Reply(w, s2 \o more)
      BY <2>1 DEF s1, s2
    <3> QED BY <2>3, <3>1, <3>4, <3>5
  <2>7. PICK c \in Seq(SoundFrame) :
          /\ Reply(w, c) /\ Orderly(c)
          /\ c # <<>> => Head(c).op # "retried"
          /\ \A f \in ToSet(c) : f \in {r, p, g}
    BY <2>6
  <2>8. \A f \in ToSet(c) : f.op \in {"removed", "putBack", "get"}
                            /\ (f.op \in SettleOp => f.msg = m)
    BY <2>3, <2>7 DEF SettleOp
  <2> HIDE DEF r, p, g, more, left
  <2>9. Follows(out[w], c)
    BY <2>1, <2>5, <2>7, <2>8 DEF Follows, Listening, Mine, Closing
  <2>10. /\ Orderly(out[w])'
         /\ ToSet(out'[w]) = ToSet(Tail(out[w])) \cup
                               IF Listening(w) THEN ToSet(c) ELSE {}
         /\ \A f \in ToSet(Tail(out[w])) : f \in ToSet(out[w])
         /\ out'[w] # <<>> => CopyFirst(h, Head(out'[w])) \/ Head(out'[w]).op # "retried"
    BY <2>1, <2>7, <2>9, ReplyOrderly DEF Mine
  <2>11. \A f \in ToSet(out'[w]) : f \in ToSet(out[w]) \/ f \in ToSet(c)
    BY <2>1, <2>10
  <2> HIDE DEF m
  <2>12. got'[w] = got[w] \cup {m}
    BY <2>1 DEF Typed
  <2>13. Owned(w)'
    BY <2>1, <2>8, <2>11, <2>12 DEF Mine, Owned, SettleOp
  <2>14. Closing(w)'
    BY <2>1, <2>8, <2>11 DEF Mine, Closing
  <2>15. Attended(w)'
    BY <2>1, <2>4, <2>8, <2>11 DEF Mine, Attended, Listening, Holds
  <2> QED BY <2>1, <2>10, <2>13, <2>14, <2>15 DEF Mine, NextHead
<1> QED BY <1>1, <1>2, <1>3, <1>4 DEF BrokerTakes

(* A delivery is sent, comes, or is settled, or the worker stops.          *)
LEMMA RestMine ==
  ASSUME Typed, Placed, NEW w \in Worker, Mine(w),
         \/ Deliver(w) \/ Arrive(w)
         \/ \E m \in running[w] : HandlerSettles(w, m)
         \/ Crash(w) \/ SettlesTooLate(w) \/ ConnectionLost(w)
  PROVE  Mine(w)' /\ NextHead(w)
<1>1. CASE Deliver(w)
  <2> DEFINE m == Head(ready)
             a == arriving[w]
             b == <<m>>
  <2>1. m \in Sound /\ m \in ToSet(ready)
    BY <1>1, TailIs DEF Deliver, Typed
  <2>2. /\ unacked'[w] = unacked[w] \cup {m} /\ arriving'[w] = Append(a, m)
        /\ UNCHANGED <<got, out, alive, open, isShutdown, running>>
    BY <1>1 DEF Deliver, Typed, flags
  <2>3. m \notin Holds(w)
    BY <2>1 DEF Placed
  <2> HIDE DEF m
  <2>4. a \in Seq(Sound)
    BY DEF Typed
  <2>5. b \in Seq(Sound) /\ ToSet(b) = {m} /\ Injective(b)
    BY <2>1, OneElement
  <2> HIDE DEF a
  <2>6. arriving'[w] = a \o b
    BY <2>1, <2>2, <2>4
  <2> HIDE DEF b
  <2>7. ToSet(arriving'[w]) = ToSet(a) \cup {m}
    BY <2>4, <2>5, <2>6, ConcatIs
  <2>8. ASSUME Listening(w)
        PROVE  Injective(arriving'[w])
    <3>1. Injective(a) /\ ToSet(a) \subseteq unacked[w]
      BY <2>8 DEF Mine, Attended, a
    <3>2. ToSet(a) \cap ToSet(b) = {}
      BY <2>3, <2>5, <3>1 DEF Holds
    <3> QED BY <2>4, <2>5, <2>6, <3>1, <3>2, InjectiveConcat
  <2>9. \A f \in ToSet(out[w]) : f.op \in SettleOp => f.msg # m
    BY <2>3 DEF Mine, Owned, SettleOp, Holds
  <2>10. Listening(w)' <=> Listening(w)
    BY <2>2 DEF Listening
  <2>11. Attended(w)'
    <3> SUFFICES ASSUME Listening(w) PROVE Attended(w)'
      BY <2>10 DEF Attended
    <3>1. /\ ToSet(a) \cup running[w] \subseteq unacked[w]
          /\ ToSet(a) \cap running[w] = {}
          /\ \A f \in ToSet(out[w]) : f.op \in SettleOp =>
               f.msg \notin ToSet(a) \cup running[w]
      BY DEF Mine, Attended, a
    <3>2. m \notin running[w]
      BY <2>3, <3>1 DEF Holds
    <3>3. ToSet(arriving'[w]) \cup running'[w] \subseteq unacked'[w]
      BY <2>2, <2>7, <3>1
    <3>4. ToSet(arriving'[w]) \cap running'[w] = {}
      BY <2>2, <2>7, <3>1, <3>2
    <3>5. \A f \in ToSet(out'[w]) : f.op \in SettleOp =>
               f.msg \notin ToSet(arriving'[w]) \cup running'[w]
      BY <2>2, <2>7, <2>9, <3>1
    <3>6. Injective(arriving[w])'
      BY <2>8
    <3> QED BY <3>3, <3>4, <3>5, <3>6 DEF Attended
  <2>12. Owned(w)' /\ Closing(w)' /\ Orderly(out[w])'
    BY <2>2 DEF Mine, Owned, Closing
  <2> QED BY <2>2, <2>11, <2>12 DEF Mine, NextHead
<1>2. CASE Arrive(w)
  <2> DEFINE a == arriving[w]
             m == Head(a)
             q == Tail(a)
  <2>1. /\ Listening(w) /\ a # <<>> /\ arriving'[w] = q
        /\ UNCHANGED <<unacked, got, out, alive, open, isShutdown>>
        /\ running'[w] \subseteq running[w] \cup {m}
    BY <1>2 DEF Arrive, Typed, broker, flags
  <2>2. a \in Seq(Sound) /\ Injective(a)
    BY <2>1 DEF Typed, Mine, Attended
  <2>3. ToSet(a) = {m} \cup ToSet(q) /\ Injective(q) /\ m \notin ToSet(q)
    <3> HIDE DEF a
    <3> QED BY <2>1, <2>2, TailIs, InjectiveTail
  <2>4. /\ ToSet(a) \cup running[w] \subseteq unacked[w]
        /\ ToSet(a) \cap running[w] = {}
        /\ \A f \in ToSet(out[w]) : f.op \in SettleOp =>
             f.msg \notin ToSet(a) \cup running[w]
    BY <2>1 DEF Mine, Attended
  <2> HIDE DEF m, q, a
  <2>5. ToSet(q) \cup running'[w] \subseteq ToSet(a) \cup running[w]
    BY <2>1, <2>3
  <2>6. ToSet(q) \cap running'[w] = {}
    BY <2>1, <2>3, <2>4
  <2>7. Attended(w)'
    BY <2>1, <2>3, <2>4, <2>5, <2>6 DEF Attended, Listening
  <2>8. Owned(w)' /\ Closing(w)' /\ Orderly(out[w])'
    BY <2>1 DEF Mine, Owned, Closing
  <2> QED BY <2>1, <2>7, <2>8 DEF Mine, NextHead
<1>3. ASSUME NEW m \in running[w], HandlerSettles(w, m) PROVE Mine(w)' /\ NextHead(w)
  <2>1. /\ Listening(w) /\ running'[w] = running[w] \ {m}
        /\ UNCHANGED <<unacked, got, arriving, alive, open, isShutdown>>
        /\ Send(w, <<F("done", m)>>) \/ Send(w, FailureFrames(m))
    BY <1>3 DEF HandlerSettles, HandlerResolves, HandlerRejects, Settles, broker, flags,
                Typed
  <2>2. m \in Sound
    BY DEF Typed
  <2>3. /\ m \in unacked[w] /\ m \notin ToSet(arriving[w])
        /\ \A f \in ToSet(out[w]) : f.op \in SettleOp => f.msg # m
    BY <2>1 DEF Mine, Attended
  <2>4. \E c \in Seq(SoundFrame) :
          /\ Send(w, c) /\ Orderly(c)
          /\ c # <<>> => Head(c).op # "retried"
          /\ \A f \in ToSet(c) : \/ f.op \in {"done", "retried", "bury"} /\ f.msg = m
                                 \/ f.op = "publish"
    <3> DEFINE d == F("done", m)
               b == F("bury", m)
               r == F("retried", m)
               p == F("publish", Retried(m))
    <3>1. /\ d \in SoundFrame /\ d.op = "done" /\ d.msg = m
          /\ b \in SoundFrame /\ b.op = "bury" /\ b.msg = m
          /\ r \in SoundFrame /\ r.op = "retried" /\ r.msg = m
      BY <2>2, FramesSound DEF Op
    <3>2. RetriesLeft(m) => p \in SoundFrame /\ p.op = "publish" /\ p.msg.task = m.task
      BY <2>2, PublishedSound, FramesSound DEF Op
    <3>3. /\ Send(w, <<d>>) \/ Send(w, <<b>>) \/ (RetriesLeft(m) /\ Send(w, <<p, r>>))
      BY <2>1 DEF FailureFrames
    <3> HIDE DEF d, b, r, p
    <3>4. ASSUME NEW f \in SoundFrame, f.op \in {"done", "bury"}, f.msg = m, Send(w, <<f>>)
          PROVE  \E c \in Seq(SoundFrame) :
                   /\ Send(w, c) /\ Orderly(c)
                   /\ c # <<>> => Head(c).op # "retried"
                   /\ \A g \in ToSet(c) : \/ g.op \in {"done", "retried", "bury"} /\ g.msg = m
                                          \/ g.op = "publish"
      <4>1. <<f>> \in Seq(SoundFrame)
        BY <3>4
      <4>2. Orderly(<<f>>) /\ ToSet(<<f>>) = {f} /\ Head(<<f>>) = f
        BY <3>4, OrderlyFew
      <4> QED BY <3>4, <4>1, <4>2
    <3>5. ASSUME RetriesLeft(m), Send(w, <<p, r>>)
          PROVE  \E c \in Seq(SoundFrame) :
                   /\ Send(w, c) /\ Orderly(c)
                   /\ c # <<>> => Head(c).op # "retried"
                   /\ \A g \in ToSet(c) : \/ g.op \in {"done", "retried", "bury"} /\ g.msg = m
                                          \/ g.op = "publish"
      <4>1. <<p, r>> \in Seq(SoundFrame) /\ p \in SoundFrame
        BY <3>1, <3>2, <3>5
      <4>2. CopyFirst(p, r) /\ p.op # "close" /\ p.op \notin SettleOp
        BY <3>1, <3>2, <3>5 DEF CopyFirst, SettleOp
      <4>3. Orderly(<<p, r>>) /\ ToSet(<<p, r>>) = {p, r} /\ Head(<<p, r>>) = p
        BY <3>1, <4>1, <4>2, OrderlyFew
      <4> QED BY <3>1, <3>2, <3>5, <4>1, <4>3
    <3> QED BY <3>1, <3>3, <3>4, <3>5
  <2>5. PICK c \in Seq(SoundFrame) :
          /\ Send(w, c) /\ Orderly(c)
          /\ c # <<>> => Head(c).op # "retried"
          /\ \A f \in ToSet(c) : \/ f.op \in {"done", "retried", "bury"} /\ f.msg = m
                                 \/ f.op = "publish"
    BY <2>4
  <2>6. Follows(out[w], c)
    BY <2>1, <2>3, <2>5 DEF Follows, Listening, Mine, Closing, SettleOp
  <2>7. /\ Orderly(out[w])'
        /\ ToSet(out'[w]) = ToSet(out[w]) \cup ToSet(c)
        /\ out'[w] # <<>> /\ Head(out'[w]).op = "retried" =>
             out[w] # <<>> /\ Head(out'[w]) = Head(out[w])
    BY <2>5, <2>6, SendOrderly DEF Mine
  <2>8. Owned(w)'
    BY <2>1, <2>3, <2>5, <2>7 DEF Mine, Owned
  <2>9. Closing(w)'
    BY <2>1, <2>5, <2>7 DEF Mine, Closing
  <2>10. Attended(w)'
    <3>1. ASSUME NEW f \in ToSet(out'[w]), f.op \in SettleOp
          PROVE  f.msg \notin ToSet(arriving[w]) \cup (running[w] \ {m})
      <4>1. CASE f \in ToSet(out[w])
        BY <2>1, <3>1, <4>1 DEF Mine, Attended
      <4>2. CASE f \in ToSet(c)
        BY <2>3, <2>5, <3>1, <4>2 DEF SettleOp
      <4> QED BY <2>7, <3>1, <4>1, <4>2
    <3> QED BY <2>1, <3>1 DEF Mine, Attended, Listening
  <2> QED BY <2>7, <2>8, <2>9, <2>10 DEF Mine, NextHead
<1>4. CASE Crash(w) \/ SettlesTooLate(w)
  <2>1. /\ alive'[w] = FALSE
        /\ UNCHANGED <<unacked, got, out, open, isShutdown>>
    BY <1>4 DEF Crash, SettlesTooLate, ProcessEnds, Typed, broker, flags
  <2>2. Owned(w)' /\ Closing(w)' /\ Orderly(out[w])' /\ Attended(w)'
    BY <2>1 DEF Mine, Owned, Closing, Attended, Listening
  <2> QED BY <2>1, <2>2 DEF Mine, NextHead
<1>5. CASE ConnectionLost(w)
  <2>1. /\ out'[w] = <<>> /\ ~alive[w]
        /\ UNCHANGED <<alive, open, isShutdown>>
    BY <1>5 DEF ConnectionLost, Typed, flags
  <2>2. ToSet(out'[w]) = {} /\ Orderly(out[w])'
    BY <2>1 DEF ToSet, Orderly, Single, Paired, CloseLast
  <2>3. Owned(w)' /\ Closing(w)' /\ Attended(w)'
    BY <2>1, <2>2 DEF Mine, Owned, Closing, Attended, Listening
  <2> QED BY <2>1, <2>2, <2>3 DEF Mine, NextHead
<1> QED BY <1>1, <1>2, <1>3, <1>4, <1>5

(* Where the messages are after a step.                                    *)
LEMMA StepPlaced ==
  ASSUME Typed, Placed, NEW w \in Worker, Mine(w), Elsewhere(w),
         \/ ClientCall(w) \/ BrokerTakes(w) \/ Deliver(w) \/ Arrive(w)
         \/ \E m \in running[w] : HandlerSettles(w, m)
         \/ Crash(w) \/ SettlesTooLate(w) \/ ConnectionLost(w)
  PROVE  Placed'
<1> DEFINE h == Head(out[w])
<1>0. /\ ready \in Seq(Sound) /\ Injective(ready)
      /\ ToSet(ready) \cap Holds(w) = {} /\ unacked[w] \cap got[w] = {}
  BY DEF Typed, Placed
<1>1. CASE \/ ClientCall(w) \/ Arrive(w)
           \/ \E m \in running[w] : HandlerSettles(w, m)
           \/ Crash(w) \/ SettlesTooLate(w)
           \/ TakeConsume(w) \/ TakeCancel(w) \/ TakeCancelThenClose(w)
           \/ TakeGetEmpty(w)
  <2>1. UNCHANGED <<ready, unacked, got>>
    BY <1>1 DEF ClientCall, Add, Process, Pause, Resume, Shutdown, Search, Clear,
           broker, Arrive, HandlerSettles, HandlerResolves, HandlerRejects, Settles,
           Crash, SettlesTooLate, ProcessEnds, TakeConsume, TakeCancel,
           TakeCancelThenClose, TakeGetEmpty
  <2> QED BY <2>1, PlacedStill
<1>2. CASE TakePublish(w)
  <2> DEFINE m == Fresh(h.msg)
             b == <<m>>
  <2>1. h \in SoundFrame /\ h.op = "publish"
    BY <1>2, TailIs DEF TakePublish, Takes, Typed
  <2>2. m \in Sound /\ m \notin AtBroker
    BY <2>1, FramesSound, FreshIs
  <2>3. ready' = Append(ready, m) /\ UNCHANGED <<unacked, got>>
    BY <1>2 DEF TakePublish
  <2> HIDE DEF m
  <2>4. b \in Seq(Sound) /\ ToSet(b) = {m} /\ Injective(b)
    BY <2>2, OneElement
  <2>5. ready' = ready \o b
    BY <1>0, <2>2, <2>3
  <2> HIDE DEF b
  <2>6. ToSet(ready') = ToSet(ready) \cup {m}
    BY <1>0, <2>4, <2>5, ConcatIs
  <2>7. m \notin ToSet(ready) /\ m \notin Holds(w)
    BY <2>2 DEF AtBroker, Holds
  <2>8. Injective(ready')
    BY <1>0, <2>4, <2>5, <2>7, InjectiveConcat
  <2>9. Holds(w)' = Holds(w)
    BY <2>3 DEF Holds
  <2>10. ToSet(ready') \cap Holds(w)' = {} /\ unacked'[w] \cap got'[w] = {}
    BY <1>0, <2>3, <2>6, <2>7, <2>9
  <2> QED BY <2>2, <2>6, <2>8, <2>9, <2>10, PlacedStep
<1>3. CASE TakeSettlement(w)
  <2>1. /\ ready' = ready /\ unacked'[w] \subseteq unacked[w] /\ got'[w] \subseteq got[w]
    BY <1>3 DEF TakeSettlement, Typed
  <2>2. Holds(w)' \subseteq Holds(w) /\ Injective(ready')
    BY <1>0, <2>1 DEF Holds
  <2>3. ToSet(ready') \cap Holds(w)' = {} /\ unacked'[w] \cap got'[w] = {}
    BY <1>0, <2>1, <2>2
  <2> QED BY <2>1, <2>2, <2>3, PlacedStep
<1>4. CASE TakePutBack(w)
  <2> DEFINE m == h.msg
             b == <<m>>
  <2>1. h \in SoundFrame /\ h.op = "putBack" /\ h \in ToSet(out[w])
    BY <1>4, TailIs DEF TakePutBack, Takes, Typed
  <2>2. m \in Sound /\ m \in got[w]
    BY <2>1, FramesSound DEF SettleOp, Mine, Owned
  <2>3. /\ ready' = b \o ready /\ unacked' = unacked
        /\ got'[w] = got[w] \ {m}
    BY <1>4 DEF TakePutBack, Typed
  <2> HIDE DEF m
  <2>4. b \in Seq(Sound) /\ ToSet(b) = {m} /\ Injective(b)
    BY <2>2, OneElement
  <2> HIDE DEF b
  <2>5. ToSet(ready') = ToSet(ready) \cup {m}
    BY <1>0, <2>3, <2>4, ConcatIs
  <2>6. m \notin ToSet(ready) /\ m \notin unacked[w]
    BY <1>0, <2>2 DEF Holds
  <2>7. Injective(ready')
    BY <1>0, <2>3, <2>4, <2>6, InjectiveConcat
  <2>8. Holds(w)' = Holds(w) \ {m} /\ m \in Holds(w)
    BY <2>2, <2>3, <2>6 DEF Holds
  <2>9. ToSet(ready') \cap Holds(w)' = {} /\ unacked'[w] \cap got'[w] = {}
    BY <1>0, <2>3, <2>5, <2>8
  <2> QED BY <2>5, <2>7, <2>8, <2>9, PlacedStep
<1>5. CASE TakeClose(w) \/ ConnectionLost(w)
  <2>1. Requeue(w)
    BY <1>5 DEF TakeClose, ConnectionLost
  <2>2. /\ ToSet(ready') = ToSet(ready) \cup unacked[w] \cup got[w]
        /\ Injective(ready')
        /\ unacked'[w] = {} /\ got'[w] = {}
    BY <1>0, <2>1, RequeueIs DEF Typed, Holds
  <2>3. Holds(w)' = {} /\ ToSet(ready') = ToSet(ready) \cup Holds(w)
    BY <2>2 DEF Holds
  <2>4. ToSet(ready') \cap Holds(w)' = {} /\ unacked'[w] \cap got'[w] = {}
    BY <2>2, <2>3
  <2> QED BY <2>2, <2>3, <2>4, PlacedStep
<1>6. CASE TakeGet(w) \/ TakeGetUnheard(w) \/ Deliver(w)
  <2> DEFINE m == Head(ready)
             q == Tail(ready)
  <2>1. /\ ready # <<>> /\ ready' = q
        /\ \/ unacked'[w] = unacked[w] /\ got'[w] = got[w] \cup {m}
           \/ got'[w] = got[w] /\ unacked'[w] = unacked[w] \cup {m}
    BY <1>6 DEF TakeGet, TakeGetUnheard, Deliver, Typed
  <2>2. ToSet(ready) = {m} \cup ToSet(q) /\ Injective(q) /\ m \notin ToSet(q)
    BY <1>0, <2>1, TailIs, InjectiveTail
  <2> HIDE DEF m, q
  <2>3. Holds(w)' = Holds(w) \cup {m} /\ m \notin Holds(w)
    BY <1>0, <2>1, <2>2 DEF Holds
  <2>4. ToSet(ready') \cap Holds(w)' = {}
    BY <1>0, <2>1, <2>2, <2>3
  <2>5. unacked'[w] \cap got'[w] = {}
    BY <1>0, <2>1, <2>3 DEF Holds
  <2> QED BY <2>1, <2>2, <2>3, <2>4, <2>5, PlacedStep
<1>7. CASE TakePurge(w)
  <2>1. ready' = <<>> /\ UNCHANGED <<unacked, got>>
    BY <1>7 DEF TakePurge
  <2>2. ToSet(ready') = {} /\ Injective(ready')
    BY <2>1, OneElement
  <2>3. Holds(w)' = Holds(w)
    BY <2>1 DEF Holds
  <2> QED BY <1>0, <2>1, <2>2, <2>3, PlacedStep
<1> QED BY <1>1, <1>2, <1>3, <1>4, <1>5, <1>6, <1>7 DEF BrokerTakes

(* The invariant of the messages, the frames and the deliveries.           *)
LEMMA HInvNext == HInv /\ [Next]_vars => HInv'
<1> SUFFICES ASSUME HInv, [Next]_vars PROVE HInv'
  OBVIOUS
<1>1. Typed'
  BY TypedNext DEF HInv
<1>2. CASE Next
  <2>1. PICK w \in Worker :
          \/ ClientCall(w) \/ BrokerTakes(w) \/ Deliver(w) \/ Arrive(w)
          \/ \E m \in running[w] : HandlerSettles(w, m)
          \/ Crash(w) \/ SettlesTooLate(w) \/ ConnectionLost(w)
    BY <1>2 DEF Next
  <2>2. Typed /\ Placed /\ Mine(w) /\ Elsewhere(w)
    BY <2>1, StepElsewhere DEF HInv
  <2>3. Mine(w)'
    BY <2>1, <2>2, CallMine, TakeMine, RestMine
  <2>4. ASSUME NEW v \in Worker PROVE Mine(v)'
    <3>1. CASE v = w
      BY <2>3, <3>1
    <3>2. CASE v # w
      <4>1. v \in Worker \ {w} /\ Mine(v)
        BY <3>2 DEF HInv
      <4> QED BY <2>2, <4>1, OthersMine
    <3> QED BY <3>1, <3>2
  <2>5. Placed'
    BY <2>1, <2>2, StepPlaced
  <2> QED BY <1>1, <2>4, <2>5 DEF HInv
<1>3. CASE UNCHANGED vars
  BY <1>1, <1>3 DEF vars, broker, flags, HInv, Placed, Mine, Orderly, Owned, Closing,
                    Attended, Listening, Holds
<1> QED BY <1>2, <1>3

(* It holds at the start: there is no message yet.                         *)
LEMMA HInvInit == Init => HInv
<1> SUFFICES ASSUME Init PROVE HInv
  OBVIOUS
<1>1. Typed
  BY TypedInit
<1>2. ToSet(<<>>) = {} /\ Injective(<<>>) /\ Orderly(<<>>)
  BY OneElement DEF ToSet, Injective, Orderly, Single, Paired, CloseLast
<1>3. Placed
  BY <1>2 DEF Init, Placed, Holds
<1>4. ASSUME NEW w \in Worker PROVE Mine(w)
  BY <1>2 DEF Init, Mine, Owned, Closing, Attended
<1> QED BY <1>1, <1>3, <1>4 DEF HInv

(* Messages are in one place, and every worker settles what it holds, in   *)
(* an order that is safe.                                                  *)
THEOREM HoldingInvariance == Spec => []HInv
BY HInvInit, HInvNext, PTL DEF Spec

(* A worker settles each delivery once and only while it holds it, however *)
(* its handlers, searches, a pause and a shutdown are interleaved: the     *)
(* broker never has a reason to close its channel.                         *)
THEOREM SettlingIsSafe == Spec => []SettledOnce
<1>1. HInv => SettledOnce
  <2> SUFFICES ASSUME HInv, NEW w \in Worker, Listening(w)
               PROVE  /\ \A i, j \in DOMAIN out[w] :
                           /\ out[w][i].op \in DOMAIN Outcome \cup {"putBack"}
                           /\ out[w][j].op \in DOMAIN Outcome \cup {"putBack"}
                           /\ out[w][i].msg = out[w][j].msg
                           => i = j
                      /\ Settling(w) \subseteq unacked[w] \cup got[w]
                      /\ running[w] \subseteq unacked[w] \ Settling(w)
    BY DEF SettledOnce
  <2>1. Mine(w) /\ out[w] \in Seq(SoundFrame)
    BY DEF HInv, Typed
  <2>2. DOMAIN out[w] = 1 .. Len(out[w])
    BY <2>1, LenProperties
  <2>3. DOMAIN Outcome \cup {"putBack"} = SettleOp
    BY DEF Outcome, SettleOp
  <2>4. \A m \in Settling(w) : \E f \in ToSet(out[w]) : f.op \in SettleOp /\ f.msg = m
    BY <2>3 DEF Settling, ToSet
  <2>5. \A i, j \in DOMAIN out[w] :
           /\ out[w][i].op \in SettleOp /\ out[w][j].op \in SettleOp
           /\ out[w][i].msg = out[w][j].msg
           => i = j
    BY <2>1, <2>2 DEF Mine, Orderly, Single
  <2>6. Settling(w) \subseteq unacked[w] \cup got[w]
    BY <2>1, <2>4 DEF Mine, Owned, SettleOp
  <2>7. running[w] \subseteq unacked[w] \ Settling(w)
    BY <2>1, <2>4 DEF Mine, Attended
  <2> QED BY <2>3, <2>5, <2>6, <2>7
<1> QED BY <1>1, HoldingInvariance, PTL

------------------------------------------------------------------------------
(* No task is lost.                                                        *)

(* The retried message whose acknowledgement the broker takes next: its    *)
(* copy has come.                                                          *)
Spent(w, m) == out[w] # <<>> /\ Head(out[w]).op = "retried" /\ Head(out[w]).msg = m

(* Every unfinished task has a message that is not about to be given up    *)
(* for a copy.                                                             *)
Unspent ==
  \A t \in Task : fate[t] = "open" =>
    \E m \in AtBroker : m.task = t /\ \A w \in Worker : ~Spent(w, m)

KInv == HInv /\ Unspent

(* A message leaves the broker when it is settled or purged.               *)
LEMMA Leaves ==
  ASSUME Typed, NEW w \in Worker, Elsewhere(w), NEW m \in AtBroker,
         \/ ClientCall(w) \/ BrokerTakes(w) \/ Deliver(w) \/ Arrive(w)
         \/ \E n \in running[w] : HandlerSettles(w, n)
         \/ Crash(w) \/ SettlesTooLate(w) \/ ConnectionLost(w)
  PROVE  \/ m \in AtBroker'
         \/ TakeSettlement(w) /\ m = Head(out[w]).msg
         \/ TakePurge(w) /\ m \in ToSet(ready)
<1> DEFINE h == Head(out[w])
           Out == \/ TakeSettlement(w) /\ m = h.msg
                  \/ TakePurge(w) /\ m \in ToSet(ready)
<1>0. ready \in Seq(Sound)
  BY DEF Typed
<1>1. SUFFICES ASSUME m \in ToSet(ready) \cup Holds(w)
               PROVE  m \in ToSet(ready') \cup Holds(w)' \/ Out
  <2>1. CASE m \in ToSet(ready) \cup Holds(w)
    BY <1>1, <2>1 DEF AtBroker, Holds
  <2>2. CASE m \notin ToSet(ready) \cup Holds(w)
    <3>1. PICK v \in Worker \ {w} : m \in Holds(v)
      BY <2>2 DEF AtBroker, Holds
    <3>2. m \in Holds(v)'
      BY <3>1 DEF Elsewhere, Holds
    <3> QED BY <3>2 DEF AtBroker, Holds
  <2> QED BY <2>1, <2>2
<1>2. CASE \/ ClientCall(w) \/ Arrive(w)
           \/ \E n \in running[w] : HandlerSettles(w, n)
           \/ Crash(w) \/ SettlesTooLate(w)
           \/ TakeConsume(w) \/ TakeCancel(w) \/ TakeCancelThenClose(w)
           \/ TakeGetEmpty(w)
  <2>1. UNCHANGED <<ready, unacked, got>>
    BY <1>2 DEF ClientCall, Add, Process, Pause, Resume, Shutdown, Search, Clear,
           broker, Arrive, HandlerSettles, HandlerResolves, HandlerRejects, Settles,
           Crash, SettlesTooLate, ProcessEnds, TakeConsume, TakeCancel,
           TakeCancelThenClose, TakeGetEmpty
  <2> QED BY <1>1, <2>1 DEF Holds
<1>3. CASE TakePublish(w)
  <2> DEFINE n == Fresh(h.msg)
             b == <<n>>
  <2>1. h \in SoundFrame /\ h.op = "publish"
    BY <1>3, TailIs DEF TakePublish, Takes, Typed
  <2>2. n \in Sound
    BY <2>1, FramesSound, FreshIs
  <2>3. ready' = Append(ready, n) /\ UNCHANGED <<unacked, got>>
    BY <1>3 DEF TakePublish
  <2> HIDE DEF n
  <2>4. ready' = ready \o b /\ b \in Seq(Sound)
    BY <1>0, <2>2, <2>3
  <2> HIDE DEF b
  <2>5. ToSet(ready) \subseteq ToSet(ready')
    BY <1>0, <2>4, ConcatIs
  <2> QED BY <1>1, <2>3, <2>5 DEF Holds
<1>4. CASE TakeSettlement(w)
  BY <1>1, <1>4 DEF TakeSettlement, Holds, Typed
<1>5. CASE TakePutBack(w)
  <2> DEFINE n == h.msg
             b == <<n>>
  <2>1. h \in SoundFrame /\ h.op = "putBack"
    BY <1>5, TailIs DEF TakePutBack, Takes, Typed
  <2>2. n \in Sound
    BY <2>1, FramesSound DEF SettleOp
  <2>3. /\ ready' = b \o ready /\ unacked' = unacked
        /\ got'[w] = got[w] \ {n}
    BY <1>5 DEF TakePutBack, Typed
  <2> HIDE DEF n
  <2>4. b \in Seq(Sound) /\ ToSet(b) = {n}
    BY <2>2, OneElement
  <2> HIDE DEF b
  <2>5. ToSet(ready') = ToSet(ready) \cup {n}
    BY <1>0, <2>3, <2>4, ConcatIs
  <2> QED BY <1>1, <2>3, <2>5 DEF Holds
<1>6. CASE TakeClose(w) \/ ConnectionLost(w)
  <2>1. Requeue(w)
    BY <1>6 DEF TakeClose, ConnectionLost
  <2>2. ToSet(ready') = ToSet(ready) \cup unacked[w] \cup got[w]
    BY <2>1, RequeueIs
  <2> QED BY <1>1, <2>2 DEF Holds
<1>7. CASE TakeGet(w) \/ TakeGetUnheard(w) \/ Deliver(w)
  <2> DEFINE n == Head(ready)
             q == Tail(ready)
  <2>1. /\ ready # <<>> /\ ready' = q
        /\ \/ unacked'[w] = unacked[w] /\ got'[w] = got[w] \cup {n}
           \/ got'[w] = got[w] /\ unacked'[w] = unacked[w] \cup {n}
    BY <1>7 DEF TakeGet, TakeGetUnheard, Deliver, Typed
  <2>2. ToSet(ready) = {n} \cup ToSet(q)
    BY <1>0, <2>1, TailIs
  <2> HIDE DEF n, q
  <2> QED BY <1>1, <2>1, <2>2 DEF Holds
<1>8. CASE TakePurge(w)
  <2>1. UNCHANGED <<unacked, got>>
    BY <1>8 DEF TakePurge
  <2> QED BY <1>1, <1>8, <2>1 DEF Holds
<1> QED BY <1>2, <1>3, <1>4, <1>5, <1>6, <1>7, <1>8 DEF BrokerTakes

(* A task becomes unfinished only when its first message arrives; one that *)
(* stays so was neither purged nor settled for good.                       *)
LEMMA StaysOpen ==
  ASSUME Typed, NEW w \in Worker, NEW t \in Task, fate'[t] = "open",
         \/ ClientCall(w) \/ BrokerTakes(w) \/ Deliver(w) \/ Arrive(w)
         \/ \E n \in running[w] : HandlerSettles(w, n)
         \/ Crash(w) \/ SettlesTooLate(w) \/ ConnectionLost(w)
  PROVE  /\ fate[t] = "open" \/ (TakePublish(w) /\ t = Head(out[w]).msg.task)
         /\ TakeSettlement(w) /\ Head(out[w]).msg.task = t /\ fate[t] = "open" =>
              Head(out[w]).op = "retried"
         /\ TakePurge(w) /\ fate[t] = "open" => \A m \in ToSet(ready) : m.task # t
<1> DEFINE h == Head(out[w])
<1>1. ASSUME TakeSettlement(w)
      PROVE  fate[t] = "open" /\ (h.msg.task = t => h.op = "retried")
  <2>1. h.op \in DOMAIN Outcome /\ fate' = Settled({h.msg.task}, Outcome[h.op])
    BY <1>1 DEF TakeSettlement, Takes
  <2>2. fate[t] = "open" \/ (h.msg.task # t /\ fate[t] = "open")
    BY <2>1 DEF Settled
  <2>3. h.msg.task = t => Outcome[h.op] = "open"
    BY <2>1, <2>2 DEF Settled
  <2>4. Outcome[h.op] = "open" => h.op = "retried"
    BY <2>1 DEF Outcome
  <2> QED BY <2>2, <2>3, <2>4
<1>2. ASSUME TakePurge(w)
      PROVE  fate[t] = "open" /\ \A m \in ToSet(ready) : m.task # t
  <2>1. fate' = Settled({m.task : m \in ToSet(ready)}, "dropped")
    BY <1>2 DEF TakePurge
  <2>2. fate[t] = "open" /\ t \notin {m.task : m \in ToSet(ready)}
    BY <2>1 DEF Settled
  <2> QED BY <2>2
<1>3. fate[t] = "open" \/ (TakePublish(w) /\ t = h.msg.task)
  <2>1. CASE ClientCall(w)
    <3>1. fate' = fate \/ \E u \in Task : fate' = [fate EXCEPT ![u] = "sent"]
      BY <2>1 DEF ClientCall, Add, Process, Pause, Resume, Shutdown, Search, Clear
    <3> QED BY <3>1 DEF Typed
  <2>2. CASE TakePublish(w)
    <3>1. h \in SoundFrame /\ h.op = "publish"
      BY <2>2, TailIs DEF TakePublish, Takes, Typed
    <3>2. h.msg \in Sound
      BY <3>1, FramesSound
    <3>3. Fresh(h.msg).task = h.msg.task
      BY <3>2, FreshIs
    <3> DEFINE k == h.msg.task
    <3>4. fate' = [fate EXCEPT ![k] = IF @ = "sent" THEN "open" ELSE @]
      BY <2>2, <3>3 DEF TakePublish
    <3> HIDE DEF k
    <3>5. fate[t] = "open" \/ t = k
      BY <3>4 DEF Typed
    <3> QED BY <2>2, <3>5 DEF k
  <2>3. CASE Deliver(w) \/ Arrive(w) \/ Crash(w) \/ SettlesTooLate(w) \/ ConnectionLost(w)
    BY <2>3 DEF Deliver, Arrive, Crash, SettlesTooLate, ProcessEnds, ConnectionLost
  <2>4. CASE \E n \in running[w] : HandlerSettles(w, n)
    BY <2>4 DEF HandlerSettles, HandlerResolves, HandlerRejects, Settles
  <2>5. CASE \/ TakePutBack(w) \/ TakeConsume(w) \/ TakeCancel(w)
             \/ TakeCancelThenClose(w) \/ TakeClose(w) \/ TakeGetEmpty(w)
             \/ TakeGet(w) \/ TakeGetUnheard(w)
    <3>1. fate' = fate
      BY <2>5 DEF TakePutBack, TakeConsume, TakeCancel, TakeCancelThenClose, TakeClose,
           TakeGetEmpty, TakeGet, TakeGetUnheard
    <3> QED BY <3>1
  <2> QED BY <1>1, <1>2, <2>1, <2>2, <2>3, <2>4, <2>5 DEF BrokerTakes
<1> QED BY <1>1, <1>2, <1>3

(* The message that is left is still one that is not given up.             *)
LEMMA UnspentStep ==
  ASSUME HInv, HInv', Unspent, NEW w \in Worker,
         \/ ClientCall(w) \/ BrokerTakes(w) \/ Deliver(w) \/ Arrive(w)
         \/ \E n \in running[w] : HandlerSettles(w, n)
         \/ Crash(w) \/ SettlesTooLate(w) \/ ConnectionLost(w)
  PROVE  Unspent'
<1> DEFINE h == Head(out[w])
<1>0. Typed /\ Placed /\ Mine(w) /\ Elsewhere(w)
  BY StepElsewhere DEF HInv
<1>1. NextHead(w)
  BY <1>0, CallMine, TakeMine, RestMine
<1>2. ASSUME NEW m, NEW v \in Worker \ {w}, Spent(v, m)' PROVE Spent(v, m)
  BY <1>0, <1>2, SMTT(30) DEF Spent, Elsewhere
<1>3. ASSUME NEW m, Spent(w, m)', ~Spent(w, m)
      PROVE  TakePublish(w) /\ h.msg.task = m.task
  <2>1. out'[w] # <<>> /\ Head(out'[w]).op = "retried" /\ Head(out'[w]).msg = m
    BY <1>3 DEF Spent
  <2>2. BrokerTakes(w) /\ CopyFirst(h, Head(out'[w])) /\ out[w] # <<>>
    BY <1>1, <1>3, <2>1 DEF NextHead, Spent
  <2>3. h.op = "publish" /\ h.msg.task = m.task
    BY <2>1, <2>2 DEF CopyFirst
  <2> QED BY <2>2, <2>3, Zenon DEF BrokerTakes, TakePublish, TakeSettlement, TakePutBack,
           TakeConsume, TakeCancel, TakeCancelThenClose, TakeClose, TakeGetEmpty,
           TakeGet, TakeGetUnheard, TakePurge, Takes, Outcome
<1>4. ASSUME TakePublish(w)
      PROVE  \E n \in AtBroker' : n.task = h.msg.task /\ \A v \in Worker : ~Spent(v, n)'
  <2>0. PICK n : n = Fresh(h.msg)
    OBVIOUS
  <2> DEFINE b == <<n>>
  <2>1. h \in SoundFrame /\ h.op = "publish"
    BY <1>0, <1>4, TailIs DEF TakePublish, Takes, Typed
  <2>2. n \in Sound /\ n \notin AtBroker /\ n.task = h.msg.task
    BY <1>0, <2>0, <2>1, FramesSound, FreshIs
  <2>3. ready' = Append(ready, n) /\ UNCHANGED <<unacked, got>>
    BY <1>4, <2>0 DEF TakePublish
  <2>4. ready \in Seq(Sound) /\ ready' = ready \o b /\ b \in Seq(Sound) /\ ToSet(b) = {n}
    <3>1. ready \in Seq(Sound)
      BY <1>0 DEF Typed
    <3>2. b \in Seq(Sound) /\ ToSet(b) = {n}
      BY <2>2, OneElement
    <3>3. ready' = ready \o b
      BY <2>2, <2>3, <3>1
    <3> QED BY <3>1, <3>2, <3>3
  <2> HIDE DEF b
  <2>5. n \in AtBroker'
    BY <2>4, ConcatIs DEF AtBroker
  <2>6. ASSUME NEW v \in Worker, Spent(v, n)' PROVE FALSE
    <3>1. Head(out'[v]) \in ToSet(out'[v])
      BY <2>6, TailIs DEF HInv, Typed, Spent
    <3>2. Owned(v)'
      BY DEF HInv, Mine
    <3>3. \A f \in ToSet(out'[v]) : f.op = "retried" => f.msg \in unacked'[v]
      BY <3>2 DEF Owned
    <3>4. n \in unacked'[v]
      BY <2>6, <3>1, <3>3 DEF Spent
    <3> QED BY <2>2, <2>3, <3>4 DEF AtBroker
  <2> QED BY <2>2, <2>5, <2>6
<1>5. SUFFICES ASSUME NEW t \in Task, fate'[t] = "open"
               PROVE  \E n \in AtBroker' : n.task = t /\ \A v \in Worker : ~Spent(v, n)'
  BY DEF Unspent
<1>6. CASE TakePublish(w) /\ t = h.msg.task
  BY <1>4, <1>6
<1>7. CASE ~(TakePublish(w) /\ t = h.msg.task)
  <2>1. /\ fate[t] = "open"
        /\ TakeSettlement(w) /\ h.msg.task = t => h.op = "retried"
        /\ TakePurge(w) => \A m \in ToSet(ready) : m.task # t
    BY <1>0, <1>5, <1>7, StaysOpen
  <2>2. PICK m \in AtBroker : m.task = t /\ \A v \in Worker : ~Spent(v, m)
    BY <2>1 DEF Unspent
  <2>3. ~(TakeSettlement(w) /\ m = h.msg)
    BY <2>1, <2>2 DEF Spent, TakeSettlement, Takes
  <2>4. m \in AtBroker'
    BY <1>0, <2>1, <2>2, <2>3, Leaves
  <2>5. \A v \in Worker : ~Spent(v, m)'
    BY <1>2, <1>3, <1>7, <2>2
  <2> QED BY <2>2, <2>4, <2>5
<1> QED BY <1>6, <1>7

(* No step takes the last message of an open task from the broker, and     *)
(* none spends one that is on its way to be acknowledged.                  *)
LEMMA KInvNext == KInv /\ [Next]_vars => KInv'
<1> SUFFICES ASSUME KInv, [Next]_vars PROVE KInv'
  OBVIOUS
<1>1. HInv'
  BY HInvNext DEF KInv
<1>2. CASE Next
  <2>1. PICK w \in Worker :
          \/ ClientCall(w) \/ BrokerTakes(w) \/ Deliver(w) \/ Arrive(w)
          \/ \E m \in running[w] : HandlerSettles(w, m)
          \/ Crash(w) \/ SettlesTooLate(w) \/ ConnectionLost(w)
    BY <1>2 DEF Next
  <2> QED BY <1>1, <2>1, UnspentStep DEF KInv
<1>3. CASE UNCHANGED vars
  BY <1>1, <1>3 DEF vars, broker, flags, KInv, Unspent, Spent, AtBroker
<1> QED BY <1>2, <1>3

(* The broker alone keeps every unfinished task: neither a crash nor a     *)
(* shutdown in the middle of a retry, a search or a delivery loses one.    *)
THEOREM TasksAreKept == Spec => []NothingLost
<1>1. Init => KInv
  BY HInvInit DEF KInv, Init, Unspent
<1>2. KInv => NothingLost
  BY DEF KInv, Unspent, NothingLost
<1> QED BY <1>1, <1>2, KInvNext, PTL DEF Spec

------------------------------------------------------------------------------
(* A task exists once.                                                     *)

(* No frame of s carries the task, or one at most does.                    *)
Free(s, t) == \A i \in 1 .. Len(s) : ~Carries(s[i], t)
Once(s, t) ==
  \A i, j \in 1 .. Len(s) : Carries(s[i], t) /\ Carries(s[j], t) => i = j

(* What the tail of a sequence of frames still carries.                    *)
LEMMA FreeTail ==
  ASSUME NEW S, NEW s \in Seq(S), s # <<>>, NEW t
  PROVE  /\ Free(s, t) => Free(Tail(s), t) /\ ~Carries(Head(s), t)
         /\ Once(s, t) => Once(Tail(s), t)
         /\ Once(s, t) /\ Carries(Head(s), t) => Free(Tail(s), t)
<1> DEFINE q == Tail(s)
<1>1. /\ Head(s) = s[1] /\ 1 \in 1 .. Len(s) /\ Len(q) \in Nat
      /\ \A i \in 1 .. Len(q) : q[i] = s[i + 1] /\ i + 1 \in 1 .. Len(s)
  BY TailIs, LenProperties
<1> HIDE DEF q
<1>2. ASSUME Once(s, t), NEW i \in 1 .. Len(q), NEW j \in 1 .. Len(q),
             Carries(q[i], t), Carries(q[j], t)
      PROVE  i = j
  <2>1. i + 1 = j + 1
    BY <1>1, <1>2 DEF Once
  <2> QED BY <2>1
<1>3. ASSUME Once(s, t), Carries(s[1], t), NEW i \in 1 .. Len(q)
      PROVE  ~Carries(q[i], t)
  <2>1. i + 1 # 1
    OBVIOUS
  <2> QED BY <1>1, <1>3, <2>1 DEF Once
<1> QED BY <1>1, <1>2, <1>3 DEF Free, Once, q

(* What a concatenation carries.                                           *)
LEMMA FreeConcat ==
  ASSUME NEW S, NEW s \in Seq(S), NEW c \in Seq(S), NEW t
  PROVE  /\ Free(s, t) /\ Free(c, t) => Free(s \o c, t)
         /\ Once(s, t) /\ Free(c, t) => Once(s \o c, t)
         /\ Free(s, t) /\ Once(c, t) => Once(s \o c, t)
<1> DEFINE q == s \o c
           Low(i) == i \in 1 .. Len(s) /\ q[i] = s[i]
           High(i) == i - Len(s) \in 1 .. Len(c) /\ q[i] = c[i - Len(s)]
<1>1. /\ Len(s) \in Nat /\ Len(c) \in Nat /\ Len(q) = Len(s) + Len(c)
      /\ \A i \in 1 .. Len(s) + Len(c) :
           q[i] = IF i <= Len(s) THEN s[i] ELSE c[i - Len(s)]
  BY ConcatIs
<1> HIDE DEF q
<1>2. ASSUME NEW i \in 1 .. Len(q) PROVE Low(i) \/ High(i)
  <2>1. CASE i <= Len(s)
    BY <1>1, <2>1
  <2>2. CASE ~(i <= Len(s))
    BY <1>1, <2>2
  <2> QED BY <2>1, <2>2
<1>3. Free(s, t) /\ Free(c, t) => Free(q, t)
  BY <1>2 DEF Free
<1>4. ASSUME Once(s, t), Free(c, t) PROVE Once(q, t)
  BY <1>2, <1>4 DEF Free, Once
<1>5. ASSUME Free(s, t), Once(c, t), NEW i \in 1 .. Len(q), NEW j \in 1 .. Len(q),
             Carries(q[i], t), Carries(q[j], t)
      PROVE  i = j
  <2>1. High(i) /\ High(j)
    BY <1>2, <1>5 DEF Free
  <2>2. i - Len(s) = j - Len(s)
    BY <1>5, <2>1 DEF Once
  <2> QED BY <1>1, <2>2
<1> QED BY <1>3, <1>4, <1>5 DEF Once, q

(* A sequence of one frame, and the empty one.                             *)
LEMMA FreeFew ==
  ASSUME NEW t
  PROVE  /\ Free(<<>>, t) /\ Once(<<>>, t)
         /\ \A f : Once(<<f>>, t) /\ (~Carries(f, t) => Free(<<f>>, t))
         /\ \A f, g : /\ ~Carries(g, t) => Once(<<f, g>>, t)
                      /\ ~Carries(f, t) /\ ~Carries(g, t) => Free(<<f, g>>, t)
BY DEF Free, Once

(* Messages that w holds and no frame of it settles.                       *)
Loose(w) ==
  {m \in Holds(w) : \A f \in ToSet(out[w]) : f.op \in SettleOp => f.msg # m}

(* The copies of a task are in the queue or are held so.                   *)
LEMMA CopiesAre ==
  /\ \A t : Copies(t) = {m \in ToSet(ready) \cup UNION {Loose(w) : w \in Worker} :
                           m.task = t}
  /\ (\A t : Copies(t) = {m \in ToSet(ready) \cup UNION {Loose(w) : w \in Worker} :
                           m.task = t})'
<1>1. DOMAIN Outcome \cup {"putBack"} = SettleOp
  BY DEF Outcome, SettleOp
<1>2. \A w \in Worker : Unsettled(w) = Loose(w)
  BY <1>1 DEF Unsettled, Settling, Loose, Holds, ToSet
<1>3. \A w \in Worker : Unsettled(w)' = Loose(w)'
  BY <1>1 DEF Unsettled, Settling, Loose, Holds, ToSet
<1> QED BY <1>2, <1>3 DEF Copies

(* What a task may be, as long as no process has ended.                    *)
Alive == \A w \in Worker : alive[w]
Gone(t) == Copies(t) = {} /\ \A w \in Worker : Free(out[w], t)
Alone(t) ==
  /\ \A m, n \in Copies(t) : m = n
  /\ \A w \in Worker :
       Once(out[w], t) /\ (Free(out[w], t) \/ Copies(t) = {})
  /\ \A v, w \in Worker : v # w => Free(out[v], t) \/ Free(out[w], t)
  /\ fate[t] \notin {"sent", "open"} => Gone(t)

(* What a step of w does to a task: it is added; it stays where it is; it  *)
(* is put in a frame; it comes out of one; it leaves the queue for good,   *)
(* or by a frame.                                                          *)
Added(w, t) ==
  /\ Copies(t)' \subseteq Copies(t) /\ (Free(out[w], t) => Once(out'[w], t))
  /\ fate[t] = "new" /\ fate'[t] = "sent"
Stays(w, t) ==
  /\ Copies(t)' \subseteq Copies(t) /\ fate'[t] = fate[t]
  /\ Free(out[w], t) => Free(out'[w], t)
  /\ Once(out[w], t) => Once(out'[w], t)
Packed(w, t) ==
  /\ \E m \in Copies(t) : Copies(t)' \subseteq Copies(t) \ {m}
  /\ Free(out[w], t) => Once(out'[w], t)
  /\ fate'[t] = fate[t]
Unpacked(w, t) ==
  /\ ~Free(out[w], t) /\ (Once(out[w], t) => Free(out'[w], t))
  /\ \E m : Copies(t)' \subseteq Copies(t) \cup {m}
  /\ fate[t] \in {"sent", "open"} => fate'[t] \in {"sent", "open"}
Dropped(w, t) ==
  /\ \E m \in Copies(t) : Copies(t)' \subseteq Copies(t) \ {m}
  /\ Free(out[w], t) => Free(out'[w], t)
Finished(w, t) ==
  /\ ~Free(out[w], t) /\ (Once(out[w], t) => Free(out'[w], t))
  /\ Copies(t)' \subseteq Copies(t)
Does(w, t) ==
  \/ Added(w, t) \/ Stays(w, t) \/ Packed(w, t) \/ Unpacked(w, t)
  \/ Dropped(w, t) \/ Finished(w, t)

(* Whichever it does, the task is still alone.                             *)
LEMMA StaysAlone ==
  ASSUME NEW w \in Worker, Elsewhere(w), NEW t, Alone(t), Does(w, t)
  PROVE  Alone(t)'
<1>0. /\ \A v \in Worker \ {w} : out'[v] = out[v]
      /\ \A s : Free(s, t) => Once(s, t)
  BY DEF Elsewhere, Free, Once
<1>1. CASE Free(out[w], t) /\ Copies(t) = {} /\ Copies(t)' = {}
  <2>1. CASE Added(w, t)
    <3>1. Gone(t)
      BY <2>1 DEF Added, Alone
    <3> QED BY <1>0, <1>1, <2>1, <3>1 DEF Added, Alone, Gone
  <2>2. CASE Stays(w, t)
    BY <1>0, <1>1, <2>2 DEF Stays, Alone, Gone
  <2>3. CASE Packed(w, t) \/ Unpacked(w, t) \/ Dropped(w, t) \/ Finished(w, t)
    BY <1>1, <2>3 DEF Packed, Unpacked, Dropped, Finished
  <2> QED BY <2>1, <2>2, <2>3 DEF Does
<1>2. CASE Unpacked(w, t) \/ Finished(w, t)
  <2>1. /\ \A v \in Worker : Free(out'[v], t) /\ Once(out'[v], t)
        /\ Copies(t) = {} /\ fate[t] \in {"sent", "open"}
    BY <1>0, <1>2 DEF Unpacked, Finished, Alone, Gone
  <2>2. \A m, n \in Copies(t)' : m = n
    BY <1>2, <2>1 DEF Unpacked, Finished
  <2> QED BY <1>2, <2>1, <2>2 DEF Unpacked, Finished, Alone, Gone
<1>3. CASE Packed(w, t) \/ Dropped(w, t)
  <2>1. /\ Copies(t)' = {} /\ fate[t] \in {"sent", "open"}
        /\ \A v \in Worker : Free(out[v], t)
    BY <1>3 DEF Packed, Dropped, Alone, Gone
  <2>2. \A v \in Worker \ {w} : Free(out'[v], t) /\ Once(out'[v], t)
    BY <1>0, <2>1
  <2>3. CASE Packed(w, t)
    BY <2>1, <2>2, <2>3 DEF Packed, Alone, Gone
  <2>4. CASE Dropped(w, t)
    <3>1. Free(out'[w], t) /\ Once(out'[w], t)
      BY <1>0, <2>1, <2>4 DEF Dropped
    <3> QED BY <2>1, <2>2, <3>1 DEF Alone, Gone
  <2> QED BY <1>3, <2>3, <2>4
<1>4. CASE Stays(w, t)
  <2>1. \A v \in Worker : /\ Free(out[v], t) => Free(out'[v], t)
                          /\ Once(out[v], t) => Once(out'[v], t)
    BY <1>0, <1>4 DEF Stays
  <2> QED BY <1>4, <2>1 DEF Stays, Alone, Gone
<1>5. CASE Added(w, t)
  BY <1>1, <1>5 DEF Added, Alone, Gone
<1> QED BY <1>2, <1>3, <1>4, <1>5 DEF Does

(* What w sends, after all it has sent or all but the first frame.         *)
LEMMA WireMoves ==
  ASSUME Typed, NEW w \in Worker, NEW c \in Seq(SoundFrame), NEW t,
         \/ out'[w] = out[w] \o c
         \/ out[w] # <<>> /\ out'[w] = Tail(out[w]) \o c
  PROVE  /\ Free(c, t) => /\ Free(out[w], t) => Free(out'[w], t)
                          /\ Once(out[w], t) => Once(out'[w], t)
         /\ Once(c, t) /\ Free(out[w], t) => Once(out'[w], t)
<1>1. out[w] \in Seq(SoundFrame)
  BY DEF Typed
<1> DEFINE r == Tail(out[w])
<1>2. out[w] # <<>> => /\ r \in Seq(SoundFrame)
                       /\ Free(out[w], t) => Free(r, t)
                       /\ Once(out[w], t) => Once(r, t)
  BY <1>1, TailIs, FreeTail
<1> HIDE DEF r
<1>3. CASE out'[w] = out[w] \o c
  BY <1>1, <1>3, FreeConcat
<1>4. CASE out[w] # <<>> /\ out'[w] = r \o c
  BY <1>2, <1>4, FreeConcat
<1> QED BY <1>3, <1>4 DEF r

(* The broker takes the frame that carries the task.                       *)
LEMMA WireTakes ==
  ASSUME Typed, NEW w \in Worker, out[w] # <<>>, Reply(w, <<>>), NEW t
  PROVE  /\ out'[w] = Tail(out[w])
         /\ Carries(Head(out[w]), t) =>
              ~Free(out[w], t) /\ (Once(out[w], t) => Free(out'[w], t))
<1>1. out[w] \in Seq(SoundFrame)
  BY DEF Typed
<1> DEFINE r == Tail(out[w])
<1>2. r \in Seq(SoundFrame) /\ (Free(out[w], t) => ~Carries(Head(out[w]), t))
      /\ (Once(out[w], t) /\ Carries(Head(out[w]), t) => Free(r, t))
  BY <1>1, TailIs, FreeTail
<1>3. out'[w] = r \o <<>>
  BY DEF Reply, Typed
<1> HIDE DEF r
<1>4. out'[w] = r
  BY <1>2, <1>3, ConcatEmptySeq
<1> QED BY <1>2, <1>4 DEF r

(* The queue and what w holds and does not settle.                         *)
Local(w) == ToSet(ready) \cup Loose(w)

(* Copies come and go there only.                                          *)
LEMMA CopiesMove ==
  ASSUME NEW w \in Worker, Elsewhere(w), NEW t
  PROVE  /\ \A m \in Copies(t)' :
              m.task = t /\ (m \in Copies(t) \/ m \in Local(w)' \ Local(w))
         /\ \A m \in Copies(t)' :
              m \in Local(w)' \/ \E v \in Worker \ {w} : m \in Holds(v)
         /\ \A m \in Local(w) : m.task = t => m \in Copies(t)
<1>1. \A v \in Worker \ {w} : Loose(v)' = Loose(v) /\ Loose(v) \subseteq Holds(v)
  BY DEF Elsewhere, Loose, Holds
<1>2. Copies(t)' = {m \in ToSet(ready') \cup UNION {Loose(v)' : v \in Worker} : m.task = t}
  BY CopiesAre
<1>3. ASSUME NEW m \in Copies(t)'
      PROVE  m.task = t /\ (m \in Local(w)' \/ \E v \in Worker \ {w} : m \in Loose(v))
  BY <1>1, <1>2 DEF Local
<1>4. \A m : m.task = t /\ (m \in Local(w) \/ \E v \in Worker \ {w} : m \in Loose(v))
               => m \in Copies(t)
  BY CopiesAre DEF Local
<1> QED BY <1>1, <1>3, <1>4

(* A frame that settles a message keeps it from being loose until the      *)
(* message is gone.                                                        *)
LEMMA LooseMoves ==
  ASSUME NEW w \in Worker,
         \A f \in ToSet(out[w]) : f.op \in SettleOp =>
           f \in ToSet(out'[w]) \/ f.msg \notin Holds(w)'
  PROVE  Loose(w)' \subseteq Loose(w) \cup (Holds(w)' \ Holds(w))
BY DEF Loose

(* Copies do not come from nowhere when the queue and what w holds do not  *)
(* grow.                                                                   *)
LEMMA NoNewCopies ==
  ASSUME NEW w \in Worker, Elsewhere(w), NEW t,
         Local(w)' \subseteq Local(w)
  PROVE  Copies(t)' \subseteq Copies(t)
BY CopiesMove

(* A call of a client adds a task or does nothing to any.                  *)
LEMMA CallDoes ==
  ASSUME Typed, NEW w \in Worker, Elsewhere(w), ClientCall(w), NEW t \in Task
  PROVE  Does(w, t)
<1>1. Nothing.task # t
  BY RabbitAssumption DEF Nothing
<1>2. /\ UNCHANGED <<ready, unacked, got>>
      /\ \/ \E u \in Task : Add(w, u)
         \/ fate' = fate /\ out' = out
         \/ fate' = fate /\ Send(w, <<>>)
         \/ \E op \in Op \ (SettleOp \cup {"publish"}) :
              fate' = fate /\ Send(w, <<F(op, Nothing)>>)
  BY DEF ClientCall, Add, Process, Pause, Resume, Shutdown, Search, Clear, broker,
         Op, SettleOp
<1>3. ASSUME NEW c \in Seq(SoundFrame), Send(w, c)
      PROVE  /\ Copies(t)' \subseteq Copies(t) /\ out'[w] = out[w] \o c
  <2>1. out[w] \in Seq(SoundFrame) /\ out'[w] = out[w] \o c
    BY <1>3 DEF Send, Typed
  <2>2. ToSet(out[w]) \subseteq ToSet(out'[w])
    BY <2>1, ConcatIs
  <2>3. Loose(w)' \subseteq Loose(w)
    BY <1>2, <2>2, LooseMoves DEF Holds
  <2>4. Local(w)' \subseteq Local(w)
    BY <1>2, <2>3 DEF Local
  <2> QED BY <2>1, <2>4, NoNewCopies
<1>4. ASSUME NEW c \in Seq(SoundFrame), Send(w, c), Free(c, t), fate' = fate
      PROVE  Does(w, t)
  BY <1>3, <1>4, WireMoves DEF Does, Stays
<1>5. ASSUME NEW u \in Task, Add(w, u) PROVE Does(w, t)
  <2> DEFINE m == [task |-> u, retryCount |-> 0, copy |-> 0]
             f == F("publish", m)
             c == <<f>>
  <2>1. m \in Sound /\ "publish" \in Op
    BY PublishedSound DEF Op
  <2>2. f \in SoundFrame /\ f.msg = m /\ Send(w, c)
    BY <1>5, <2>1, FramesSound DEF Add
  <2>3. Carries(f, t) => t = u
    BY <2>2 DEF Carries
  <2> HIDE DEF f
  <2>4. c \in Seq(SoundFrame) /\ Once(c, t) /\ (~Carries(f, t) => Free(c, t))
    BY <2>2, FramesAre, FreeFew
  <2> HIDE DEF c
  <2>5. fate[u] = "new" /\ fate' = [fate EXCEPT ![u] = "sent"] /\ fate \in [Task -> Fate]
    BY <1>5 DEF Add, Typed
  <2>6. CASE t = u
    BY <1>3, <2>2, <2>4, <2>5, <2>6, WireMoves DEF Does, Added
  <2>7. CASE t # u
    BY <1>3, <2>2, <2>3, <2>4, <2>5, <2>7, WireMoves DEF Does, Stays
  <2> QED BY <2>6, <2>7
<1>6. CASE fate' = fate /\ out' = out
  <2>1. Loose(w)' = Loose(w)
    BY <1>2, <1>6 DEF Loose, Holds
  <2>2. Local(w)' = Local(w)
    BY <1>2, <2>1 DEF Local
  <2> QED BY <1>6, <2>2, NoNewCopies DEF Does, Stays
<1>7. CASE fate' = fate /\ Send(w, <<>>)
  <2>1. <<>> \in Seq(SoundFrame)
    OBVIOUS
  <2>2. Free(<<>>, t)
    BY FreeFew
  <2> QED BY <1>4, <1>7, <2>1, <2>2
<1>8. ASSUME NEW op \in Op \ (SettleOp \cup {"publish"}), fate' = fate,
             Send(w, <<F(op, Nothing)>>)
      PROVE  Does(w, t)
  <2> DEFINE f == F(op, Nothing)
  <2>1. f \in SoundFrame /\ ~Carries(f, t)
    BY <1>1, FramesSound DEF F, Carries
  <2> HIDE DEF f
  <2>2. <<f>> \in Seq(SoundFrame) /\ Free(<<f>>, t)
    BY <2>1, FramesAre, FreeFew
  <2> QED BY <1>4, <1>8, <2>2 DEF f
<1> QED BY <1>2, <1>5, <1>6, <1>7, <1>8

(* Messages leave w only by a frame that settles them, or for the queue:   *)
(* the copies that are left were copies, or came to the queue or to w.     *)
LEMMA ReplyMoves ==
  ASSUME Typed, NEW w \in Worker, Mine(w), out[w] # <<>>,
         NEW c \in Seq(SoundFrame), Reply(w, c),
         Head(out[w]).op \in SettleOp => Head(out[w]).msg \notin Holds(w)'
  PROVE  Loose(w)' \subseteq Loose(w) \cup (Holds(w)' \ Holds(w))
<1> DEFINE r == Tail(out[w])
           e == IF Listening(w) THEN c ELSE <<>>
<1>1. /\ out[w] \in Seq(SoundFrame) /\ r \in Seq(SoundFrame) /\ e \in Seq(SoundFrame)
      /\ ToSet(out[w]) = {Head(out[w])} \cup ToSet(r)
  BY TailIs DEF Typed
<1>2. out'[w] = r \o e
  BY DEF Reply, Typed
<1> HIDE DEF r, e
<1>3. ToSet(r) \subseteq ToSet(out'[w])
  BY <1>1, <1>2, ConcatIs
<1> QED BY <1>1, <1>3, LooseMoves

(* The broker takes a frame that carries no task, and nothing comes to the *)
(* queue or to w but what was in either.                                   *)
LEMMA QuietTake ==
  ASSUME Typed, NEW w \in Worker, Elsewhere(w), Mine(w), out[w] # <<>>,
         NEW t \in Task, NEW c \in Seq(SoundFrame), Reply(w, c), Free(c, t),
         Head(out[w]).op \in SettleOp => Head(out[w]).msg \notin Holds(w)',
         ToSet(ready') \cup (Holds(w)' \ Holds(w)) \subseteq Local(w),
         fate'[t] = fate[t]
  PROVE  Stays(w, t)
<1> DEFINE r == Tail(out[w])
           e == IF Listening(w) THEN c ELSE <<>>
<1>1. e \in Seq(SoundFrame) /\ Free(e, t)
  <2>1. <<>> \in Seq(SoundFrame) /\ Free(<<>>, t)
    BY FreeFew
  <2> QED BY <2>1
<1>2. out'[w] = r \o e
  BY DEF Reply, Typed
<1> HIDE DEF e
<1>3. /\ Free(out[w], t) => Free(out'[w], t)
      /\ Once(out[w], t) => Once(out'[w], t)
  BY <1>1, <1>2, WireMoves
<1>4. Loose(w)' \subseteq Loose(w) \cup (Holds(w)' \ Holds(w))
  BY ReplyMoves
<1>5. Local(w)' \subseteq Local(w)
  BY <1>4 DEF Local
<1> QED BY <1>3, <1>5, NoNewCopies DEF Stays

(* What the broker does with a frame does one thing to each task.          *)
LEMMA TakeDoes ==
  ASSUME Typed, Placed, NEW w \in Worker, Elsewhere(w), Mine(w), BrokerTakes(w),
         NEW t \in Task, Alone(t)
  PROVE  Does(w, t)
<1> DEFINE h == Head(out[w])
<1>0. /\ <<>> \in Seq(SoundFrame) /\ Free(<<>>, t) /\ Nothing.task # t
      /\ ready \in Seq(Sound) /\ out[w] \in Seq(SoundFrame)
  BY FreeFew, RabbitAssumption DEF Nothing, Typed
<1>1. CASE TakeConsume(w) \/ TakeCancel(w) \/ TakeGetEmpty(w)
  <2>1. /\ out[w] # <<>> /\ h.op \notin SettleOp /\ Reply(w, <<>>)
        /\ UNCHANGED <<ready, unacked, got, fate>>
    BY <1>1 DEF TakeConsume, TakeCancel, TakeGetEmpty, Takes, SettleOp, broker
  <2> QED BY <1>0, <2>1, QuietTake DEF Local, Holds, Does
<1>2. CASE TakeCancelThenClose(w)
  <2> DEFINE f == F("close", Nothing)
  <2>1. /\ out[w] # <<>> /\ h.op \notin SettleOp /\ Reply(w, <<f>>)
        /\ UNCHANGED <<ready, unacked, got, fate>>
    BY <1>2 DEF TakeCancelThenClose, Takes, SettleOp
  <2>2. f \in SoundFrame /\ ~Carries(f, t)
    BY <1>0, FramesSound DEF F, Carries, Op, SettleOp
  <2> HIDE DEF f
  <2>3. <<f>> \in Seq(SoundFrame) /\ Free(<<f>>, t)
    BY <2>2, FramesAre, FreeFew
  <2> QED BY <2>1, <2>3, QuietTake DEF Local, Holds, Does
<1>3. CASE TakeClose(w)
  <2>1. /\ out[w] # <<>> /\ h.op = "close" /\ Reply(w, <<>>) /\ Requeue(w)
        /\ fate' = fate
    BY <1>3 DEF TakeClose, Takes
  <2>2. Tail(out[w]) = <<>>
    BY <1>0, <2>1, OrderlyTail DEF Mine
  <2>3. ToSet(out[w]) = {h}
    <3>1. ToSet(<<>>) = {}
      BY DEF ToSet
    <3>2. ToSet(out[w]) = {h} \cup ToSet(Tail(out[w]))
      BY <1>0, <2>1, TailIs
    <3> QED BY <2>2, <3>1, <3>2
  <2>4. Loose(w) = Holds(w)
    BY <2>1, <2>3 DEF Loose, SettleOp
  <2>5. ToSet(ready') = ToSet(ready) \cup Holds(w) /\ Holds(w)' = {}
    BY <2>1, RequeueIs DEF Holds, Typed
  <2>6. h.op \notin SettleOp
    BY <2>1 DEF SettleOp
  <2> QED BY <1>0, <2>1, <2>4, <2>5, <2>6, QuietTake DEF Local, Does
<1>4. CASE TakeGetUnheard(w)
  <2>1. /\ out[w] # <<>> /\ h.op \notin SettleOp /\ Reply(w, <<>>)
        /\ ready # <<>> /\ ready' = Tail(ready) /\ fate' = fate
        /\ Holds(w)' = Holds(w) \cup {Head(ready)}
    BY <1>4 DEF TakeGetUnheard, Takes, SettleOp, Holds, Typed
  <2>2. ToSet(ready) = {Head(ready)} \cup ToSet(Tail(ready))
    BY <1>0, <2>1, TailIs
  <2> QED BY <1>0, <2>1, <2>2, QuietTake DEF Local, Does
<1>5. CASE TakePurge(w)
  <2>1. /\ out[w] # <<>> /\ h.op \notin SettleOp /\ Reply(w, <<>>) /\ ready' = <<>>
        /\ UNCHANGED <<unacked, got>>
        /\ fate' = Settled({m.task : m \in ToSet(ready)}, "dropped")
    BY <1>5 DEF TakePurge, Takes, SettleOp
  <2>2. Loose(w)' \subseteq Loose(w) /\ Holds(w)' = Holds(w)
    BY <1>0, <2>1, ReplyMoves DEF Holds
  <2>3. Local(w)' \subseteq Local(w) /\ Local(w)' \subseteq Holds(w)
    BY <2>1, <2>2 DEF Local, ToSet, Loose
  <2>4. Copies(t)' \subseteq Copies(t)
    BY <2>3, NoNewCopies
  <2>5. /\ Free(out[w], t) => Free(out'[w], t)
        /\ Once(out[w], t) => Once(out'[w], t)
    BY <1>0, <2>1, WireTakes, FreeTail
  <2>6. CASE \E m \in ToSet(ready) : m.task = t
    <3>1. PICK m \in ToSet(ready) : m.task = t
      BY <2>6
    <3>2. m \in Copies(t)
      BY <3>1, CopiesMove DEF Local
    <3>3. m \notin Local(w)' /\ \A v \in Worker : m \notin Holds(v)
      BY <2>3, <3>1 DEF Placed
    <3>4. m \notin Copies(t)'
      BY <3>3, CopiesMove
    <3> QED BY <2>4, <2>5, <3>2, <3>4 DEF Does, Dropped
  <2>7. CASE ~\E m \in ToSet(ready) : m.task = t
    <3>1. fate'[t] = fate[t]
      BY <2>1, <2>7 DEF Settled
    <3> QED BY <2>4, <2>5, <3>1 DEF Does, Stays
  <2> QED BY <2>6, <2>7
<1>6. CASE TakeSettlement(w)
  <2>1. /\ out[w] # <<>> /\ h.op \in DOMAIN Outcome /\ Reply(w, <<>>) /\ ready' = ready
        /\ Holds(w)' = Holds(w) \ {h.msg}
        /\ fate' = Settled({h.msg.task}, Outcome[h.op])
    BY <1>6 DEF TakeSettlement, Takes, Holds, Typed
  <2>2. Loose(w)' \subseteq Loose(w)
    BY <1>0, <2>1, ReplyMoves
  <2>3. Copies(t)' \subseteq Copies(t)
    BY <2>1, <2>2, NoNewCopies DEF Local
  <2>4. CASE h.op # "retried" /\ h.msg.task = t
    <3>1. Carries(h, t)
      BY <2>4 DEF Carries
    <3> QED BY <2>1, <2>3, <3>1, WireTakes DEF Does, Finished
  <2>5. CASE h.op = "retried" \/ h.msg.task # t
    <3>1. fate'[t] = fate[t]
      BY <2>1, <2>5 DEF Settled, Outcome
    <3>2. h.msg \notin Holds(w)' /\ ToSet(ready') \cup (Holds(w)' \ Holds(w)) \subseteq Local(w)
      BY <2>1 DEF Local
    <3> QED BY <1>0, <2>1, <3>1, <3>2, QuietTake DEF Does
  <2> QED BY <2>4, <2>5
<1>7. ASSUME NEW n \in Sound, n.task = h.msg.task, out[w] # <<>>, h.op # "retried",
             Reply(w, <<>>), ToSet(ready') = ToSet(ready) \cup {n},
             Holds(w)' \subseteq Holds(w), h.op \in SettleOp => h.msg \notin Holds(w)',
             fate'[t] = fate[t] \/ (t = n.task /\ fate'[t] = "open")
      PROVE  Does(w, t)
  <2>1. Loose(w)' \subseteq Loose(w)
    BY <1>0, <1>7, ReplyMoves
  <2>2. \A m \in Copies(t)' : m \in Copies(t) \cup {n} /\ m.task = t
    BY <1>7, <2>1, CopiesMove DEF Local
  <2>3. CASE n.task = t
    <3>1. Carries(h, t)
      BY <1>7, <2>3 DEF Carries
    <3>2. fate[t] \in {"sent", "open"} => fate'[t] \in {"sent", "open"}
      BY <1>7
    <3> QED BY <1>7, <2>2, <3>1, <3>2, WireTakes DEF Does, Unpacked
  <2>4. CASE n.task # t
    <3>1. Copies(t)' \subseteq Copies(t)
      BY <2>2, <2>4
    <3>2. /\ Free(out[w], t) => Free(out'[w], t)
          /\ Once(out[w], t) => Once(out'[w], t)
      BY <1>0, <1>7, WireTakes, FreeTail
    <3> QED BY <1>7, <2>4, <3>1, <3>2 DEF Does, Stays
  <2> QED BY <2>3, <2>4
<1>8. CASE TakePublish(w)
  <2>1. h \in SoundFrame /\ h.op = "publish" /\ out[w] # <<>> /\ Reply(w, <<>>)
    BY <1>8, TailIs DEF TakePublish, Takes, Typed
  <2>2. PICK n : n = Fresh(h.msg)
    OBVIOUS
  <2>3. n \in Sound /\ n.task = h.msg.task
    BY <2>1, <2>2, FramesSound, FreshIs
  <2>4. ready' = Append(ready, n) /\ UNCHANGED <<unacked, got>>
        /\ fate' = [fate EXCEPT ![n.task] = IF @ = "sent" THEN "open" ELSE @]
    BY <1>8, <2>2 DEF TakePublish
  <2> DEFINE b == <<n>>
  <2>5. b \in Seq(Sound) /\ ToSet(b) = {n} /\ ready' = ready \o b
    BY <1>0, <2>3, <2>4, OneElement
  <2> HIDE DEF b
  <2>6. ToSet(ready') = ToSet(ready) \cup {n}
    BY <1>0, <2>5, ConcatIs
  <2>7. fate'[t] = fate[t] \/ (t = n.task /\ fate'[t] = "open")
    BY <2>4 DEF Typed
  <2>8. Holds(w)' \subseteq Holds(w) /\ h.op \notin SettleOp /\ h.op # "retried"
    BY <2>1, <2>4 DEF Holds, SettleOp
  <2> QED BY <1>7, <2>1, <2>3, <2>6, <2>7, <2>8
<1>9. CASE TakePutBack(w)
  <2> DEFINE m == h.msg
             b == <<m>>
  <2>1. h \in SoundFrame /\ h.op = "putBack" /\ h \in ToSet(out[w])
        /\ out[w] # <<>> /\ Reply(w, <<>>)
    BY <1>9, TailIs DEF TakePutBack, Takes, Typed
  <2>2. m \in Sound /\ m \in got[w]
    BY <2>1, FramesSound DEF SettleOp, Mine, Owned
  <2>3. /\ ready' = b \o ready /\ unacked' = unacked /\ fate' = fate
        /\ got'[w] = got[w] \ {m}
    BY <1>9 DEF TakePutBack, Typed
  <2>4. Holds(w)' = Holds(w) \ {m}
    BY <2>2, <2>3 DEF Holds, Placed
  <2> HIDE DEF m
  <2>5. b \in Seq(Sound) /\ ToSet(b) = {m}
    BY <2>2, OneElement
  <2> HIDE DEF b
  <2>6. ToSet(ready') = ToSet(ready) \cup {m}
    BY <1>0, <2>3, <2>5, ConcatIs
  <2> QED BY <1>7, <2>1, <2>2, <2>3, <2>4, <2>6 DEF m
<1>10. CASE TakeGet(w)
  <2> DEFINE m == Head(ready)
             g == F("get", Nothing)
             r == F("removed", m)
             p == F("putBack", m)
  <2>1. /\ out[w] # <<>> /\ h.op \notin SettleOp /\ Listening(w)
        /\ ready # <<>> /\ ready' = Tail(ready) /\ fate' = fate
        /\ Holds(w)' = Holds(w) \cup {m}
        /\ \/ Reply(w, <<r>>) \/ Reply(w, <<p>> \o <<g>>) \/ Reply(w, <<p>> \o <<>>)
    BY <1>10 DEF TakeGet, Takes, SettleOp, Holds, Typed
  <2>2. /\ m \in Sound /\ m \in ToSet(ready)
        /\ ToSet(ready) = {m} \cup ToSet(Tail(ready)) /\ m \notin ToSet(Tail(ready))
    BY <1>0, <2>1, TailIs, InjectiveTail DEF Placed
  <2> HIDE DEF m
  <2>3. /\ r \in SoundFrame /\ r.op \in SettleOp /\ r.msg = m /\ r.op # "retried"
        /\ p \in SoundFrame /\ p.op \in SettleOp /\ p.msg = m /\ p.op # "retried"
        /\ g \in SoundFrame /\ ~Carries(g, t)
    BY <1>0, <2>2, FramesSound DEF F, Op, SettleOp, Carries
  <2> HIDE DEF r, p, g
  <2>4. PICK c \in Seq(SoundFrame), f \in {r, p} :
          /\ Reply(w, c) /\ f \in ToSet(c) /\ Once(c, t)
          /\ ~Carries(f, t) => Free(c, t)
    <3>1. CASE Reply(w, <<r>>)
      <4>1. <<r>> \in Seq(SoundFrame) /\ r \in ToSet(<<r>>)
        BY <2>3, OneElement
      <4> QED BY <3>1, <4>1, FreeFew
    <3>2. CASE Reply(w, <<p>> \o <<g>>)
      <4> DEFINE u == <<p>>
                 v == <<g>>
      <4>1. u \in Seq(SoundFrame) /\ p \in ToSet(u) /\ v \in Seq(SoundFrame)
        BY <2>3, OneElement
      <4>2. Once(u, t) /\ (~Carries(p, t) => Free(u, t)) /\ Free(v, t)
        BY <2>3, FreeFew
      <4>3. Reply(w, u \o v)
        BY <3>2
      <4> HIDE DEF u, v
      <4>4. u \o v \in Seq(SoundFrame) /\ p \in ToSet(u \o v)
        BY <4>1, ConcatIs
      <4>5. Once(u \o v, t) /\ (~Carries(p, t) => Free(u \o v, t))
        BY <4>1, <4>2, FreeConcat
      <4> QED BY <4>3, <4>4, <4>5
    <3>3. CASE Reply(w, <<p>> \o <<>>)
      <4>1. <<p>> \in Seq(SoundFrame) /\ p \in ToSet(<<p>>) /\ <<p>> \o <<>> = <<p>>
        BY <2>3, OneElement
      <4> QED BY <3>3, <4>1, FreeFew
    <3> QED BY <2>1, <3>1, <3>2, <3>3
  <2>5. f.op \in SettleOp /\ f.msg = m /\ f.op # "retried"
    BY <2>3, <2>4
  <2>6. CASE m.task = t
    <3> DEFINE q == Tail(out[w])
    <3>1. q \in Seq(SoundFrame) /\ out'[w] = q \o c
      <4>1. q \in Seq(SoundFrame)
        BY <1>0, <2>1, TailIs
      <4>2. out'[w] = q \o c
        BY <2>1, <2>4 DEF Reply, Typed
      <4> QED BY <4>1, <4>2
    <3>2. Free(out[w], t) => Once(out'[w], t)
      BY <2>1, <2>4, <3>1, WireMoves
    <3>3. f \in ToSet(out'[w])
      <4> HIDE DEF q
      <4> QED BY <2>4, <3>1, ConcatIs
    <3>4. m \notin Local(w)'
      BY <2>1, <2>2, <2>5, <3>3 DEF Local, Loose
    <3>5. \A v \in Worker \ {w} : m \notin Holds(v)
      BY <2>2 DEF Placed
    <3>6. m \in Copies(t) /\ m \notin Copies(t)'
      BY <2>2, <2>6, <3>4, <3>5, CopiesMove DEF Local
    <3>7. Loose(w)' \subseteq Loose(w) \cup {m}
      BY <2>1, <2>4, ReplyMoves
    <3>8. Copies(t)' \subseteq Copies(t)
      BY <2>1, <2>2, <3>7, NoNewCopies DEF Local
    <3> QED BY <2>1, <3>2, <3>6, <3>8 DEF Does, Packed
  <2>7. CASE m.task # t
    <3>1. Free(c, t)
      BY <2>4, <2>5, <2>7 DEF Carries
    <3>2. ToSet(ready') \cup (Holds(w)' \ Holds(w)) \subseteq Local(w)
      BY <2>1, <2>2 DEF Local
    <3> QED BY <2>1, <2>4, <3>1, <3>2, QuietTake DEF Does
  <2> QED BY <2>6, <2>7
<1> QED BY <1>1, <1>2, <1>3, <1>4, <1>5, <1>6, <1>8, <1>9, <1>10 DEF BrokerTakes

(* So does any other step that ends no process.                            *)
LEMMA RestDoes ==
  ASSUME Typed, Placed, NEW w \in Worker, Elsewhere(w), Mine(w),
         \/ Deliver(w) \/ Arrive(w) \/ \E m \in running[w] : HandlerSettles(w, m),
         NEW t \in Task
  PROVE  Does(w, t)
<1>0. ready \in Seq(Sound) /\ out[w] \in Seq(SoundFrame) /\ running[w] \subseteq Sound
  BY DEF Typed
<1>1. CASE Deliver(w)
  <2>1. /\ ready # <<>> /\ ready' = Tail(ready) /\ UNCHANGED <<out, fate>>
        /\ Holds(w)' = Holds(w) \cup {Head(ready)}
    BY <1>1 DEF Deliver, Holds, Typed
  <2>2. ToSet(ready) = {Head(ready)} \cup ToSet(Tail(ready))
    BY <1>0, <2>1, TailIs
  <2>3. Loose(w)' \subseteq Loose(w) \cup {Head(ready)}
    BY <2>1, LooseMoves
  <2>4. Copies(t)' \subseteq Copies(t)
    BY <2>1, <2>2, <2>3, NoNewCopies DEF Local
  <2> QED BY <2>1, <2>4 DEF Does, Stays
<1>2. CASE Arrive(w)
  <2>1. UNCHANGED <<ready, unacked, got, out, fate>>
    BY <1>2 DEF Arrive, broker
  <2>2. Loose(w)' \subseteq Loose(w)
    BY <2>1, LooseMoves DEF Holds
  <2>3. Copies(t)' \subseteq Copies(t)
    BY <2>1, <2>2, NoNewCopies DEF Local
  <2> QED BY <2>1, <2>3 DEF Does, Stays
<1>3. ASSUME NEW m \in running[w], HandlerSettles(w, m) PROVE Does(w, t)
  <2>1. /\ Listening(w) /\ UNCHANGED <<ready, unacked, got, fate>> /\ m \in Sound
        /\ Send(w, <<F("done", m)>>) \/ Send(w, FailureFrames(m))
    BY <1>0, <1>3 DEF HandlerSettles, HandlerResolves, HandlerRejects, Settles, broker
  <2>2. PICK c \in Seq(SoundFrame) :
          /\ Send(w, c) /\ Once(c, t) /\ (m.task # t => Free(c, t))
          /\ \E f \in ToSet(c) : f.op \in SettleOp /\ f.msg = m
    <3> DEFINE d == F("done", m)
               b == F("bury", m)
               p == F("publish", Retried(m))
               a == F("retried", m)
    <3>1. /\ d \in SoundFrame /\ d.op \in SettleOp /\ d.msg = m
          /\ b \in SoundFrame /\ b.op \in SettleOp /\ b.msg = m
          /\ a \in SoundFrame /\ a.op \in SettleOp /\ a.msg = m /\ ~Carries(a, t)
          /\ RetriesLeft(m) => p \in SoundFrame /\ p.msg.task = m.task
      BY <2>1, FramesSound, PublishedSound DEF Op, SettleOp, Carries
    <3>2. FailureFrames(m) = IF RetriesLeft(m) THEN <<p, a>> ELSE <<b>>
      BY DEF FailureFrames
    <3> HIDE DEF d, b, p, a
    <3>3. CASE Send(w, <<d>>)
      <4>1. <<d>> \in Seq(SoundFrame) /\ d \in ToSet(<<d>>)
        BY <3>1, OneElement
      <4>2. m.task # t => ~Carries(d, t)
        BY <3>1 DEF Carries
      <4> QED BY <3>1, <3>3, <4>1, <4>2, FreeFew
    <3>4. CASE Send(w, <<b>>)
      <4>1. <<b>> \in Seq(SoundFrame) /\ b \in ToSet(<<b>>)
        BY <3>1, OneElement
      <4>2. m.task # t => ~Carries(b, t)
        BY <3>1 DEF Carries
      <4> QED BY <3>1, <3>4, <4>1, <4>2, FreeFew
    <3>5. CASE RetriesLeft(m) /\ Send(w, <<p, a>>)
      <4>1. <<p, a>> \in Seq(SoundFrame)
        BY <3>1, <3>5, FramesAre
      <4>2. a \in ToSet(<<p, a>>)
        <5>1. <<p, a>>[2] = a /\ 2 \in DOMAIN <<p, a>>
          OBVIOUS
        <5> QED BY <5>1 DEF ToSet
      <4>3. m.task # t => ~Carries(p, t)
        BY <3>1, <3>5 DEF Carries
      <4> QED BY <3>1, <3>5, <4>1, <4>2, <4>3, FreeFew
    <3> QED BY <2>1, <3>2, <3>3, <3>4, <3>5 DEF d
  <2>3. out'[w] = out[w] \o c
    BY <2>2 DEF Send, Typed
  <2>4. ToSet(out'[w]) = ToSet(out[w]) \cup ToSet(c)
    BY <1>0, <2>3, ConcatIs
  <2>5. Loose(w)' \subseteq Loose(w) /\ m \notin Loose(w)'
    <3>1. Loose(w)' \subseteq Loose(w)
      BY <2>1, <2>4, LooseMoves DEF Holds
    <3>2. m \notin Loose(w)'
      BY <2>2, <2>4 DEF Loose
    <3> QED BY <3>1, <3>2
  <2>6. Copies(t)' \subseteq Copies(t)
    BY <2>1, <2>5, NoNewCopies DEF Local
  <2>7. CASE m.task = t
    <3>1. m \in Holds(w) /\ m \in Loose(w)
      BY <2>1 DEF Mine, Attended, Loose, Holds
    <3>2. m \in Copies(t)
      BY <2>7, <3>1, CopiesMove DEF Local
    <3>3. m \notin ToSet(ready') /\ \A v \in Worker \ {w} : m \notin Holds(v)
      BY <2>1, <3>1 DEF Placed
    <3>4. m \notin Copies(t)'
      BY <2>5, <3>3, CopiesMove DEF Local
    <3>5. Free(out[w], t) => Once(out'[w], t)
      BY <2>2, <2>3, WireMoves
    <3> QED BY <2>1, <2>6, <3>2, <3>4, <3>5 DEF Does, Packed
  <2>8. CASE m.task # t
    <3>1. /\ Free(out[w], t) => Free(out'[w], t)
          /\ Once(out[w], t) => Once(out'[w], t)
      BY <2>2, <2>3, <2>8, WireMoves
    <3> QED BY <2>1, <2>6, <3>1 DEF Does, Stays
  <2> QED BY <2>7, <2>8
<1> QED BY <1>1, <1>2, <1>3

(* Every task is alone as long as no process has ended.                    *)
OneInv == HInv /\ (Alive => \A t \in Task : Alone(t))

(* The end of a process is for good, and no other step disturbs a task.    *)
LEMMA OneInvNext == OneInv /\ [Next]_vars => OneInv'
<1> SUFFICES ASSUME OneInv, [Next]_vars PROVE OneInv'
  OBVIOUS
<1>1. HInv' /\ Typed /\ Placed
  BY HInvNext DEF OneInv, HInv
<1>2. CASE Next
  <2>1. PICK w \in Worker :
          \/ ClientCall(w) \/ BrokerTakes(w) \/ Deliver(w) \/ Arrive(w)
          \/ \E m \in running[w] : HandlerSettles(w, m)
          \/ Crash(w) \/ SettlesTooLate(w) \/ ConnectionLost(w)
    BY <1>2 DEF Next
  <2>2. Elsewhere(w) /\ Mine(w)
    BY <1>1, <2>1, StepElsewhere DEF OneInv, HInv
  <2>3. SUFFICES ASSUME Alive', NEW t \in Task PROVE Alone(t)'
    BY <1>1 DEF OneInv
  <2>4. CASE Crash(w) \/ SettlesTooLate(w) \/ ConnectionLost(w)
    <3>1. alive'[w] = FALSE
      BY <1>1, <2>4 DEF Crash, SettlesTooLate, ProcessEnds, ConnectionLost, Typed
    <3> QED BY <2>3, <3>1 DEF Alive
  <2>5. CASE \/ ClientCall(w) \/ BrokerTakes(w) \/ Deliver(w) \/ Arrive(w)
             \/ \E m \in running[w] : HandlerSettles(w, m)
    <3>1. alive' = alive
      BY <2>5 DEF ClientCall, Add, Process, Pause, Resume, Shutdown, Search, Clear,
           BrokerTakes, TakePublish, TakeSettlement, TakePutBack, TakeConsume,
           TakeCancel, TakeCancelThenClose, TakeClose, TakeGetEmpty, TakeGet,
           TakeGetUnheard, TakePurge, Deliver, Arrive, HandlerSettles,
           HandlerResolves, HandlerRejects, Settles
    <3>2. Alone(t)
      BY <2>3, <3>1 DEF OneInv, Alive
    <3>3. Does(w, t)
      BY <1>1, <2>2, <2>5, <3>2, CallDoes, TakeDoes, RestDoes, SMTT(30)
    <3> QED BY <2>2, <3>2, <3>3, StaysAlone
  <2> QED BY <2>1, <2>4, <2>5
<1>3. CASE UNCHANGED vars
  <2>1. UNCHANGED <<ready, unacked, got, out, alive, fate>>
    BY <1>3 DEF vars, broker
  <2>2. \A w \in Worker : Unsettled(w)' = Unsettled(w)
    BY <2>1 DEF Unsettled, Settling
  <2>3. \A t : Copies(t)' = Copies(t)
    BY <2>1, <2>2 DEF Copies
  <2> QED BY <1>1, <2>1, <2>3 DEF OneInv, Alive, Alone, Gone
<1> QED BY <1>2, <1>3

(* A task exists once, in the queue, with one worker or in one frame, as   *)
(* long as no process has ended, and not at all when it has ended: neither *)
(* retries nor searches, purges or shutdowns double it.                    *)
THEOREM CopiesAreSingle == Spec => []SingleCopy
<1>1. Init => OneInv
  <2> SUFFICES ASSUME Init PROVE OneInv
    OBVIOUS
  <2>1. ToSet(<<>>) = {}
    BY DEF ToSet
  <2>2. \A w \in Worker : Loose(w) = {}
    BY DEF Init, Loose, Holds
  <2>3. \A t : Copies(t) = {}
    BY <2>1, <2>2, CopiesAre DEF Init
  <2>4. \A t : \A w \in Worker : Free(out[w], t) /\ Once(out[w], t)
    BY FreeFew DEF Init
  <2>5. \A t \in Task : Alone(t)
    <3> SUFFICES ASSUME NEW t \in Task PROVE Alone(t)
      OBVIOUS
    <3>1. \A w \in Worker : Free(out[w], t) /\ Once(out[w], t)
      BY <2>4
    <3>2. \A m, n \in Copies(t) : m = n
      BY <2>3
    <3> QED BY <2>3, <3>1, <3>2 DEF Alone, Gone
  <2> QED BY <2>5, HInvInit DEF OneInv
<1>2. OneInv => SingleCopy
  <2> SUFFICES ASSUME OneInv, Alive, NEW t \in Task
               PROVE  Cardinality(Copies(t)) + Cardinality(OnItsWay(t)) <=
                        IF fate[t] \in {"sent", "open"} THEN 1 ELSE 0
    BY DEF SingleCopy, Alive
  <2>1. Alone(t) /\ \A w \in Worker : DOMAIN out[w] = 1 .. Len(out[w])
    BY LenProperties DEF OneInv, HInv, Typed
  <2>2. \A p \in OnItsWay(t) :
          \E w \in Worker : \E i \in 1 .. Len(out[w]) :
            p = <<w, i>> /\ Carries(out[w][i], t)
    BY <2>1 DEF OnItsWay
  <2>3. \A p, q \in OnItsWay(t) : p = q
    <3> SUFFICES ASSUME NEW p \in OnItsWay(t), NEW q \in OnItsWay(t) PROVE p = q
      OBVIOUS
    <3>1. PICK w \in Worker : \E i \in 1 .. Len(out[w]) :
            p = <<w, i>> /\ Carries(out[w][i], t)
      BY <2>2
    <3>2. PICK v \in Worker : \E j \in 1 .. Len(out[v]) :
            q = <<v, j>> /\ Carries(out[v][j], t)
      BY <2>2
    <3>3. v = w
      BY <2>1, <3>1, <3>2 DEF Alone, Free
    <3> QED BY <2>1, <3>1, <3>2, <3>3 DEF Alone, Once
  <2>4. Copies(t) = {} \/ OnItsWay(t) = {}
    BY <2>1, <2>2 DEF Alone, Free
  <2>5. fate[t] \notin {"sent", "open"} => Copies(t) = {} /\ OnItsWay(t) = {}
    BY <2>1, <2>2 DEF Alone, Gone, Free
  <2>6. ASSUME NEW S, \A x, y \in S : x = y
        PROVE  Cardinality(S) \in {0, 1} /\ (S = {} => Cardinality(S) = 0)
    <3>1. CASE S = {}
      BY <3>1, FS_EmptySet
    <3>2. CASE S # {}
      <4>1. PICK x \in S : TRUE
        BY <3>2
      <4>2. S = {x}
        BY <2>6, <4>1
      <4> QED BY <3>2, <4>2, FS_Singleton
    <3> QED BY <3>1, <3>2
  <2>7. Cardinality(Copies(t)) \in {0, 1} /\ (Copies(t) = {} => Cardinality(Copies(t)) = 0)
    BY <2>1, <2>6 DEF Alone
  <2>8. Cardinality(OnItsWay(t)) \in {0, 1}
        /\ (OnItsWay(t) = {} => Cardinality(OnItsWay(t)) = 0)
    BY <2>3, <2>6
  <2> QED BY <2>4, <2>5, <2>7, <2>8
<1> QED BY <1>1, <1>2, OneInvNext, PTL DEF Spec
==============================================================================
