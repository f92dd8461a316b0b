--------------------------- MODULE RedisQueueProofs ---------------------------
(***************************************************************************)
(* Proofs about RedisQueue, for any workers, tasks, retry limits, calls    *)
(* and numbers of chains and faults, unless a theorem says otherwise.      *)
(*                                                                         *)
(* What a worker has under way is counted on three meters: the callbacks   *)
(* due, the handler calls not settled and the commands on its connection.  *)
(* Every step moves them together, so the invariant says, worker by        *)
(* worker, how they relate.                                                *)
(***************************************************************************)
EXTENDS RedisQueue, FiniteSetTheorems, SequenceTheorems, TLAPS

(* A command about a task names one, and the collection it is sent to.     *)
TaskOp == {"add", "move", "ack", "requeue", "bury", "clean", "take"}
PlacesFor(op) ==
  IF op \in {"add", "requeue"} THEN {"queue"}
  ELSE IF op = "bury" THEN {"dead"}
  ELSE IF op = "take" THEN Place
  ELSE {"processing"}
Wire == {m \in Command :
           m.op \in TaskOp => m.task \in Task /\ m.place \in PlacesFor(m.op)}

CountIn(s, ops) == Cardinality({i \in DOMAIN s : s[i].op \in ops})

------------------------------------------------------------------------------
(* Counting the commands on a connection.                                  *)

(* A count is a natural number.                                            *)
LEMMA CountType ==
  ASSUME NEW s, Len(s) \in Nat, DOMAIN s = 1 .. Len(s), NEW ops
  PROVE  /\ IsFiniteSet({i \in DOMAIN s : s[i].op \in ops})
         /\ CountIn(s, ops) \in Nat
<1>1. IsFiniteSet(1 .. Len(s))
  BY FS_Interval
<1>2. {i \in DOMAIN s : s[i].op \in ops} \in SUBSET (1 .. Len(s))
  OBVIOUS
<1> QED BY <1>1, <1>2, FS_Subset, FS_CardinalityType DEF CountIn

(* Commands that are sent add to what is on the connection.                *)
LEMMA CountConcat ==
  ASSUME NEW S, NEW s \in Seq(S), NEW r \in Seq(S), NEW ops
  PROVE  CountIn(s \o r, ops) = CountIn(s, ops) + CountIn(r, ops)
<1> DEFINE n == Len(s)
           A == {i \in DOMAIN s : s[i].op \in ops}
           B == {i \in DOMAIN r : r[i].op \in ops}
           B2 == {i \in (n + 1) .. (n + Len(r)) : r[i - n].op \in ops}
           f == [i \in B |-> i + n]
<1>1. /\ n \in Nat /\ DOMAIN s = 1 .. n
      /\ Len(r) \in Nat /\ DOMAIN r = 1 .. Len(r)
      /\ DOMAIN (s \o r) = 1 .. n + Len(r)
      /\ \A i \in 1 .. n + Len(r) :
           (s \o r)[i] = IF i <= n THEN s[i] ELSE r[i - n]
  BY ConcatProperties, LenProperties
<1>2. IsFiniteSet(A) /\ IsFiniteSet(B)
  BY <1>1, CountType
<1> HIDE DEF n
<1>3. f \in Bijection(B, B2)
  <2>1. f \in [B -> B2]
    BY <1>1
  <2>2. \A i, j \in B : f[i] = f[j] => i = j
    BY <1>1
  <2>3. ASSUME NEW j \in B2 PROVE \E i \in B : f[i] = j
    <3>1. j - n \in B /\ f[j - n] = j
      BY <1>1
    <3> QED BY <3>1
  <2> HIDE DEF f, B, B2
  <2> QED BY <2>1, <2>2, <2>3
          DEF Bijection, Injection, IsInjective, Surjection
<1>4. IsFiniteSet(B2) /\ Cardinality(B2) = Cardinality(B)
  <2> HIDE DEF f, B, B2
  <2> QED BY <1>2, <1>3, FS_Bijection DEF ExistsBijection
<1>5. {i \in DOMAIN (s \o r) : (s \o r)[i].op \in ops} = A \cup B2
  BY <1>1
<1>6. A \cap B2 = {}
  BY <1>1
<1>7. Cardinality(A \cup B2) = Cardinality(A) + Cardinality(B2)
  <2> HIDE DEF A, B2
  <2>1. Cardinality(A) \in Nat /\ Cardinality(B2) \in Nat
    BY <1>2, <1>4, FS_CardinalityType
  <2>2. Cardinality(A \cup B2) =
          Cardinality(A) + Cardinality(B2) - Cardinality(A \cap B2)
    BY <1>2, <1>4, FS_Union
  <2>3. Cardinality(A \cap B2) = 0
    BY <1>6, FS_EmptySet
  <2> QED BY <2>1, <2>2, <2>3
<1> QED BY <1>4, <1>5, <1>7 DEF CountIn

(* Nothing is sent, or one command.                                        *)
LEMMA CountFew ==
  ASSUME NEW m, NEW ops
  PROVE  /\ CountIn(<<>>, ops) = 0
         /\ CountIn(<<m>>, ops) = IF m.op \in ops THEN 1 ELSE 0
<1>1. {i \in DOMAIN <<>> : <<>>[i].op \in ops} = {}
  OBVIOUS
<1>2. {i \in DOMAIN <<m>> : <<m>>[i].op \in ops} =
        IF m.op \in ops THEN {1} ELSE {}
  OBVIOUS
<1> QED BY <1>1, <1>2, FS_EmptySet, FS_Singleton DEF CountIn

(* A sequence is its head and then its tail.                               *)
LEMMA HeadFirst ==
  ASSUME NEW S, NEW s \in Seq(S), s # <<>>
  PROVE  /\ Head(s) \in S /\ Tail(s) \in Seq(S)
         /\ s = <<Head(s)>> \o Tail(s)
<1>1. /\ Len(s) \in Nat /\ Len(s) # 0 /\ DOMAIN s = 1 .. Len(s)
      /\ Head(s) = s[1] /\ Head(s) \in S /\ Tail(s) \in Seq(S)
      /\ Len(Tail(s)) = Len(s) - 1
      /\ \A i \in 1 .. Len(s) - 1 : Tail(s)[i] = s[i + 1]
  BY LenProperties, EmptySeq, HeadTailProperties
<1> DEFINE h == <<Head(s)>>
           r == Tail(s)
<1>2. h \in Seq(S) /\ Len(h) = 1 /\ h[1] = s[1] /\ r \in Seq(S)
  BY <1>1
<1> HIDE DEF h, r
<1>3. /\ h \o r \in Seq(S) /\ Len(h \o r) = Len(s)
      /\ \A i \in 1 .. Len(s) : (h \o r)[i] = IF i <= 1 THEN h[i] ELSE r[i - 1]
  <2>1. /\ h \o r \in Seq(S)
        /\ Len(h \o r) = Len(h) + Len(r)
        /\ \A i \in 1 .. Len(h) + Len(r) :
             (h \o r)[i] = IF i <= Len(h) THEN h[i] ELSE r[i - Len(h)]
    BY <1>2, ConcatProperties
  <2>2. Len(r) = Len(s) - 1
    BY <1>1 DEF r
  <2> QED BY <1>1, <1>2, <2>1, <2>2
<1>4. \A i \in 1 .. Len(s) : s[i] = (h \o r)[i]
  <2> SUFFICES ASSUME NEW i \in 1 .. Len(s) PROVE s[i] = (h \o r)[i]
    OBVIOUS
  <2>1. CASE i = 1
    BY <1>1, <1>2, <1>3, <2>1
  <2>2. CASE i # 1
    <3>1. i - 1 \in 1 .. Len(s) - 1 /\ (i - 1) + 1 = i /\ ~(i <= 1)
      BY <1>1, <2>2
    <3>2. r[i - 1] = s[i]
      BY <1>1, <3>1 DEF r
    <3> QED BY <1>3, <3>1, <3>2
  <2> QED BY <2>1, <2>2
<1>5. s = h \o r
  BY <1>3, <1>4, SeqEqual
<1> QED BY <1>1, <1>5 DEF h, r

(* The first command counts, and then the others.                          *)
LEMMA CountHead ==
  ASSUME NEW S, NEW s \in Seq(S), s # <<>>, NEW ops
  PROVE  CountIn(s, ops) =
           CountIn(Tail(s), ops) + IF Head(s).op \in ops THEN 1 ELSE 0
<1>1. /\ Head(s) \in S /\ Tail(s) \in Seq(S)
      /\ s = <<Head(s)>> \o Tail(s)
  BY HeadFirst
<1>2. CountIn(s, ops) = CountIn(<<Head(s)>>, ops) + CountIn(Tail(s), ops)
  <2> DEFINE h == <<Head(s)>>
  <2>1. h \in Seq(S)
    BY <1>1
  <2> HIDE DEF h
  <2>2. CountIn(h \o Tail(s), ops) = CountIn(h, ops) + CountIn(Tail(s), ops)
    BY <1>1, <2>1, CountConcat
  <2>3. s = h \o Tail(s)
    BY <1>1 DEF h
  <2>4. CountIn(s, ops) = CountIn(h, ops) + CountIn(Tail(s), ops)
    BY <2>2, <2>3
  <2> QED BY <2>4 DEF h
<1>3. CountIn(Tail(s), ops) \in Nat
  BY <1>1, CountType, LenProperties
<1> QED BY <1>2, <1>3, CountFew

(* None of the commands counts.                                            *)
LEMMA CountNone ==
  ASSUME NEW ops, NEW s, \A i \in DOMAIN s : s[i].op \notin ops
  PROVE  CountIn(s, ops) = 0
BY FS_EmptySet DEF CountIn

------------------------------------------------------------------------------
(* Counting handler calls.                                                 *)

CallsOf(r) == UNION {{t} \X (1 .. r[t]) : t \in Task}

(* What is in the set that is counted.                                     *)
LEMMA CallsMember ==
  ASSUME NEW r \in [Task -> Nat], NEW c
  PROVE  c \in CallsOf(r) <=>
           \E t \in Task, n \in Nat : c = <<t, n>> /\ 1 <= n /\ n <= r[t]
<1>1. c \in CallsOf(r) <=> \E t \in Task : c \in {t} \X (1 .. r[t])
  BY DEF CallsOf
<1>2. ASSUME NEW t \in Task
      PROVE  c \in {t} \X (1 .. r[t]) <=>
               \E n \in Nat : c = <<t, n>> /\ 1 <= n /\ n <= r[t]
  <2>1. r[t] \in Nat
    OBVIOUS
  <2>2. ASSUME c \in {t} \X (1 .. r[t])
        PROVE  \E n \in Nat : c = <<t, n>> /\ 1 <= n /\ n <= r[t]
    <3>1. PICK u \in {t}, n \in 1 .. r[t] : c = <<u, n>>
      BY <2>2
    <3> QED BY <2>1, <3>1
  <2>3. ASSUME NEW n \in Nat, c = <<t, n>>, 1 <= n, n <= r[t]
        PROVE  c \in {t} \X (1 .. r[t])
    BY <2>1, <2>3
  <2> QED BY <2>2, <2>3
<1> QED BY <1>1, <1>2

(* A handler is called.                                                    *)
LEMMA CallsMore ==
  ASSUME NEW r \in [Task -> Nat], NEW t \in Task, IsFiniteSet(CallsOf(r))
  PROVE  LET q == [r EXCEPT ![t] = @ + 1] IN
         /\ q \in [Task -> Nat]
         /\ IsFiniteSet(CallsOf(q))
         /\ Cardinality(CallsOf(q)) = Cardinality(CallsOf(r)) + 1
<1> DEFINE q == [r EXCEPT ![t] = @ + 1]
           x == <<t, r[t] + 1>>
<1>1. q \in [Task -> Nat] /\ q[t] = r[t] + 1
      /\ \A u \in Task \ {t} : q[u] = r[u]
  OBVIOUS
<1>2. \A c : c \in CallsOf(q) <=> c \in CallsOf(r) \cup {x}
  <2> SUFFICES ASSUME NEW c
               PROVE  c \in CallsOf(q) <=> c \in CallsOf(r) \cup {x}
    OBVIOUS
  <2> HIDE DEF q
  <2>1. ASSUME c \in CallsOf(q) PROVE c \in CallsOf(r) \cup {x}
    <3>1. PICK u \in Task, n \in Nat : c = <<u, n>> /\ 1 <= n /\ n <= q[u]
      BY <1>1, <2>1, CallsMember
    <3>2. CASE u = t /\ n = r[t] + 1
      BY <3>1, <3>2
    <3>3. CASE ~(u = t /\ n = r[t] + 1)
      <4>1. n <= r[u]
        BY <1>1, <3>1, <3>3
      <4> QED BY <3>1, <4>1, CallsMember
    <3> QED BY <3>2, <3>3
  <2>2. ASSUME c \in CallsOf(r) PROVE c \in CallsOf(q)
    <3>1. PICK u \in Task, n \in Nat : c = <<u, n>> /\ 1 <= n /\ n <= r[u]
      BY <2>2, CallsMember
    <3>2. n <= q[u]
      BY <1>1, <3>1
    <3> QED BY <1>1, <3>1, <3>2, CallsMember
  <2>3. x \in CallsOf(q)
    <3>1. r[t] + 1 \in Nat /\ 1 <= r[t] + 1 /\ r[t] + 1 <= q[t]
      BY <1>1
    <3> QED BY <1>1, <3>1, CallsMember
  <2> QED BY <2>1, <2>2, <2>3
<1>3. x \notin CallsOf(r)
  <2> SUFFICES ASSUME x \in CallsOf(r) PROVE FALSE
    OBVIOUS
  <2>1. PICK u \in Task, n \in Nat : x = <<u, n>> /\ n <= r[u]
    BY CallsMember
  <2>2. u = t /\ n = r[t] + 1
    BY <2>1
  <2> QED BY <2>1, <2>2
<1>4. CallsOf(q) = CallsOf(r) \cup {x}
  BY <1>2
<1>5. /\ IsFiniteSet(CallsOf(q))
      /\ Cardinality(CallsOf(q)) = Cardinality(CallsOf(r)) + 1
  <2> HIDE DEF x, q
  <2>1. /\ IsFiniteSet(CallsOf(r) \cup {x})
        /\ Cardinality(CallsOf(r) \cup {x}) = Cardinality(CallsOf(r)) + 1
    BY <1>3, FS_AddElement
  <2> QED BY <1>4, <2>1
<1> QED BY <1>1, <1>5

(* A handler call settles.                                                 *)
LEMMA CallsLess ==
  ASSUME NEW r \in [Task -> Nat], NEW t \in Task, r[t] > 0,
         IsFiniteSet(CallsOf(r))
  PROVE  LET q == [r EXCEPT ![t] = @ - 1] IN
         /\ q \in [Task -> Nat]
         /\ IsFiniteSet(CallsOf(q))
         /\ Cardinality(CallsOf(r)) = Cardinality(CallsOf(q)) + 1
<1> DEFINE q == [r EXCEPT ![t] = @ - 1]
<1>1. q \in [Task -> Nat] /\ r = [q EXCEPT ![t] = @ + 1]
  <2>1. r[t] - 1 \in Nat /\ (r[t] - 1) + 1 = r[t]
    OBVIOUS
  <2>2. q \in [Task -> Nat] /\ q[t] = r[t] - 1
        /\ \A u \in Task \ {t} : q[u] = r[u]
    BY <2>1
  <2> HIDE DEF q
  <2> QED BY <2>1, <2>2
<1>2. \A c : c \in CallsOf(q) => c \in CallsOf(r)
  <2> SUFFICES ASSUME NEW c, c \in CallsOf(q) PROVE c \in CallsOf(r)
    OBVIOUS
  <2>1. \A u \in Task : q[u] <= r[u]
    OBVIOUS
  <2> HIDE DEF q
  <2>2. PICK u \in Task, n \in Nat : c = <<u, n>> /\ 1 <= n /\ n <= q[u]
    BY <1>1, CallsMember
  <2>3. n <= r[u]
    BY <1>1, <2>1, <2>2
  <2> QED BY <2>2, <2>3, CallsMember
<1> HIDE DEF q
<1>3. IsFiniteSet(CallsOf(q))
  BY <1>2, FS_Subset
<1>4. Cardinality(CallsOf(r)) = Cardinality(CallsOf(q)) + 1
  BY <1>1, <1>3, CallsMore
<1> QED BY <1>1, <1>3, <1>4 DEF q

(* No handler call is under way exactly if there is none of any task.      *)
LEMMA CallsNone ==
  ASSUME NEW r \in [Task -> Nat]
  PROVE  CallsOf(r) = {} <=> \A t \in Task : r[t] = 0
<1>1. ASSUME NEW t \in Task, r[t] # 0 PROVE CallsOf(r) # {}
  <2>1. r[t] \in Nat /\ 1 <= r[t] /\ r[t] <= r[t]
    BY <1>1
  <2>2. <<t, r[t]>> \in CallsOf(r)
    BY <2>1, CallsMember
  <2> QED BY <2>2
<1>2. ASSUME NEW c \in CallsOf(r) PROVE \E t \in Task : r[t] # 0
  <2>1. PICK t \in Task, n \in Nat : 1 <= n /\ n <= r[t]
    BY CallsMember
  <2> QED BY <2>1
<1> QED BY <1>1, <1>2

------------------------------------------------------------------------------
(* What the steps do to the connections.                                   *)

Wires == wire \in [Worker -> Seq(Wire)]

(* Only w's connection changes, and by so many polls, commands of a call   *)
(* that holds a slot, and additions.                                       *)
Wired(w, polls, slot, adds) ==
  /\ Wires'
  /\ \A v \in Worker \ {w} : wire'[v] = wire[v]
  /\ Sent(w, {"poll"})' = Sent(w, {"poll"}) + polls
  /\ Sent(w, SlotOp)' = Sent(w, SlotOp) + slot
  /\ Sent(w, {"add"})' = Sent(w, {"add"}) + adds

Hit(op, ops) == IF op \in ops THEN 1 ELSE 0

(* The counts of a connection are natural numbers.                         *)
LEMMA SentType ==
  ASSUME Wires, NEW w \in Worker, NEW ops
  PROVE  /\ Sent(w, ops) = CountIn(wire[w], ops)
         /\ Sent(w, ops) \in Nat
<1>1. wire[w] \in Seq(Wire)
  BY DEF Wires
<1>2. Len(wire[w]) \in Nat /\ DOMAIN wire[w] = 1 .. Len(wire[w])
  BY <1>1, LenProperties
<1>3. CountIn(wire[w], ops) \in Nat
  BY <1>2, CountType
<1> QED BY <1>3 DEF Sent, CountIn

(* A list of one command.                                                  *)
LEMMA OneCommand ==
  ASSUME NEW op \in ChainOp \cup CallOp, NEW t \in Task \cup {None},
         NEW p \in Place, op \in TaskOp => t \in Task /\ p \in PlacesFor(op),
         NEW ops
  PROVE  /\ Cmd(op, t, p) \in Wire
         /\ <<Cmd(op, t, p)>> \in Seq(Wire)
         /\ CountIn(<<Cmd(op, t, p)>>, ops) = Hit(op, ops)
<1>1. Cmd(op, t, p) \in Wire /\ Cmd(op, t, p).op = op
  BY DEF Cmd, Wire, Command
<1>2. <<Cmd(op, t, p)>> \in Seq(Wire)
  BY <1>1
<1> QED BY <1>1, <1>2, CountFew DEF Hit

(* The empty list.                                                         *)
LEMMA NoCommand ==
  ASSUME NEW ops
  PROVE  <<>> \in Seq(Wire) /\ CountIn(<<>>, ops) = 0
<1>1. {i \in DOMAIN <<>> : <<>>[i].op \in ops} = {}
  OBVIOUS
<1>2. CountIn(<<>>, ops) = 0
  BY <1>1, FS_EmptySet DEF CountIn
<1> QED BY <1>2

(* A worker sends commands.                                                *)
LEMMA SendWired ==
  ASSUME Wires, NEW w \in Worker, NEW cmds \in Seq(Wire), Send(w, cmds)
  PROVE  Wired(w, CountIn(cmds, {"poll"}), CountIn(cmds, SlotOp),
               CountIn(cmds, {"add"}))
<1>1. wire[w] \in Seq(Wire)
  BY DEF Wires
<1>2. wire'[w] = wire[w] \o cmds /\ wire' = [wire EXCEPT ![w] = wire[w] \o cmds]
  BY DEF Send, Wires
<1>3. wire[w] \o cmds \in Seq(Wire)
  BY <1>1, ConcatProperties
<1>4. Wires' /\ \A v \in Worker \ {w} : wire'[v] = wire[v]
  BY <1>2, <1>3 DEF Wires
<1>5. ASSUME NEW ops PROVE Sent(w, ops)' = Sent(w, ops) + CountIn(cmds, ops)
  <2>1. Sent(w, ops)' = CountIn(wire[w] \o cmds, ops)
    BY <1>2 DEF Sent, CountIn
  <2>2. CountIn(wire[w] \o cmds, ops) = CountIn(wire[w], ops) + CountIn(cmds, ops)
    BY <1>1, CountConcat
  <2> QED BY <2>1, <2>2 DEF Sent, CountIn
<1> QED BY <1>4, <1>5 DEF Wired

(* The first command on a worker's connection is answered.                 *)
LEMMA AnswerWired ==
  ASSUME Wires, NEW w \in Worker, wire[w] # <<>>, NEW cmds \in Seq(Wire),
         wire' = [wire EXCEPT ![w] = Tail(@) \o cmds]
  PROVE  LET op == Head(wire[w]).op IN
         /\ Head(wire[w]) \in Wire
         /\ Wired(w, CountIn(cmds, {"poll"}) - Hit(op, {"poll"}),
                  CountIn(cmds, SlotOp) - Hit(op, SlotOp),
                  CountIn(cmds, {"add"}) - Hit(op, {"add"}))
<1> DEFINE s == wire[w]
           op == Head(s).op
<1>1. s \in Seq(Wire) /\ Head(s) \in Wire /\ Tail(s) \in Seq(Wire)
  BY HeadTailProperties DEF Wires
<1>2. wire'[w] = Tail(s) \o cmds /\ wire' = [wire EXCEPT ![w] = Tail(s) \o cmds]
  BY DEF Wires
<1>3. Tail(s) \o cmds \in Seq(Wire)
  BY <1>1, ConcatProperties
<1>4. Wires' /\ \A v \in Worker \ {w} : wire'[v] = wire[v]
  BY <1>2, <1>3 DEF Wires
<1>5. ASSUME NEW ops
      PROVE  Sent(w, ops)' = Sent(w, ops) + (CountIn(cmds, ops) - Hit(op, ops))
  <2>1. Sent(w, ops)' = CountIn(Tail(s) \o cmds, ops)
    BY <1>2 DEF Sent, CountIn
  <2>2. CountIn(Tail(s) \o cmds, ops) = CountIn(Tail(s), ops) + CountIn(cmds, ops)
    BY <1>1, CountConcat
  <2>3. CountIn(s, ops) = CountIn(Tail(s), ops) + Hit(op, ops)
    BY <1>1, CountHead DEF Hit
  <2>4. Sent(w, ops) = CountIn(s, ops)
    BY DEF Sent, CountIn
  <2>5. CountIn(Tail(s), ops) \in Nat /\ CountIn(cmds, ops) \in Nat
    BY <1>1, CountType, LenProperties
  <2>6. Hit(op, ops) \in Nat
    BY DEF Hit
  <2> HIDE DEF s, op
  <2> QED BY <2>1, <2>2, <2>3, <2>4, <2>5, <2>6
<1> QED BY <1>1, <1>4, <1>5 DEF Wired

NextPoll(w) == IF ShouldSkipProcessing(w) THEN 0 ELSE 1

(* A call of processNext sends a poll if the flags and the slots allow.    *)
LEMMA PollCounts ==
  ASSUME NEW w \in Worker
  PROVE  /\ Poll(w) \in Seq(Wire)
         /\ CountIn(Poll(w), {"poll"}) = NextPoll(w)
         /\ CountIn(Poll(w), SlotOp) = 0
         /\ CountIn(Poll(w), {"add"}) = 0
<1>1. CASE ShouldSkipProcessing(w)
  <2>1. Poll(w) = <<>> /\ NextPoll(w) = 0
    BY <1>1 DEF Poll, NextPoll
  <2> QED BY <2>1, NoCommand
<1>2. CASE ~ShouldSkipProcessing(w)
  <2> DEFINE s == <<Cmd("poll", None, "queue")>>
  <2>1. Poll(w) = s /\ NextPoll(w) = 1
    BY <1>2 DEF Poll, NextPoll
  <2>2. /\ "poll" \in ChainOp \cup CallOp /\ "poll" \notin TaskOp
        /\ "queue" \in Place
    BY DEF ChainOp, TaskOp, Place
  <2>3. s \in Seq(Wire)
    BY <2>2, OneCommand
  <2>4. /\ CountIn(s, {"poll"}) = Hit("poll", {"poll"})
        /\ CountIn(s, SlotOp) = Hit("poll", SlotOp)
        /\ CountIn(s, {"add"}) = Hit("poll", {"add"})
    <3> HIDE DEF s
    <3>1. \A ops : CountIn(s, ops) = Hit("poll", ops)
      BY <2>2, OneCommand DEF s
    <3> QED BY <3>1
  <2>5. /\ Hit("poll", {"poll"}) = 1 /\ Hit("poll", SlotOp) = 0
        /\ Hit("poll", {"add"}) = 0
    BY DEF Hit, SlotOp
  <2> HIDE DEF s
  <2> QED BY <2>1, <2>3, <2>4, <2>5
<1> QED BY <1>1, <1>2

(* A command of a call that holds a slot.                                  *)
LEMMA SlotCommand ==
  ASSUME NEW m \in Wire, m.op \in SlotOp
  PROVE  /\ <<m>> \in Seq(Wire)
         /\ CountIn(<<m>>, {"poll"}) = 0
         /\ CountIn(<<m>>, SlotOp) = 1
         /\ CountIn(<<m>>, {"add"}) = 0
         /\ Hit(m.op, {"poll"}) = 0
         /\ Hit(m.op, SlotOp) = 1
         /\ Hit(m.op, {"add"}) = 0
<1>1. m.op \notin {"poll"} /\ m.op \notin {"add"}
  BY DEF SlotOp
<1>2. \A ops : CountIn(<<m>>, ops) = IF m.op \in ops THEN 1 ELSE 0
  BY CountFew
<1> QED BY <1>1, <1>2 DEF Hit

(* What a failed task goes on with.                                        *)
LEMMA FailureIs ==
  ASSUME NEW t \in Task
  PROVE  /\ FailureCommand(t) \in Wire
         /\ FailureCommand(t).op \in {"requeue", "bury"}
         /\ FailureCommand(t).task = t
         /\ FailureCommand(t).place =
              IF FailureCommand(t).op = "requeue" THEN "queue" ELSE "dead"
BY DEF FailureCommand, Cmd, Wire, Command, ChainOp, CallOp, TaskOp, Place, PlacesFor

(* The commands of a client call, other than add, are of no chain.         *)
LEMMA QuietCommands ==
  ASSUME NEW s \in Seq(Wire),
         \A i \in DOMAIN s : s[i].op \notin ChainOp \cup {"add"}
  PROVE  /\ CountIn(s, {"poll"}) = 0
         /\ CountIn(s, SlotOp) = 0
         /\ CountIn(s, {"add"}) = 0
<1>1. {"poll"} \subseteq ChainOp /\ SlotOp \subseteq ChainOp
  BY DEF ChainOp, SlotOp
<1>2. \A i \in DOMAIN s : /\ s[i].op \notin {"poll"}
                         /\ s[i].op \notin SlotOp
                         /\ s[i].op \notin {"add"}
  BY <1>1
<1> QED BY <1>2, CountNone

(* A client call other than those that call processNext.                   *)
LEMMA QuietSend ==
  ASSUME Wires, NEW w \in Worker, NEW s \in Seq(Wire), Send(w, s),
         \A i \in DOMAIN s : s[i].op \notin ChainOp \cup {"add"}
  PROVE  Wired(w, 0, 0, 0)
<1>1. Wired(w, CountIn(s, {"poll"}), CountIn(s, SlotOp), CountIn(s, {"add"}))
  BY SendWired
<1> QED BY <1>1, QuietCommands

(* What the client calls send.                                             *)
LEMMA ClientWired ==
  ASSUME Wires, NEW w \in Worker
  PROVE  /\ \A t \in Task : Add(w, t) => Wired(w, 0, 0, 1)
         /\ Process(w) \/ Resume(w) \/ RunImmediate(w) =>
              Wired(w, NextPoll(w), 0, 0)
         /\ Pause(w) => Wired(w, 0, 0, 0)
         /\ \A t \in Task : RemoveTask(w, t) => Wired(w, 0, 0, 0)
         /\ GetTasks(w) \/ GetStatus(w) => Wired(w, 0, 0, 0)
         /\ Clear(w) \/ Shutdown(w) => Wired(w, 0, 0, 0)
<1>1. ASSUME NEW t \in Task, Add(w, t) PROVE Wired(w, 0, 0, 1)
  <2> DEFINE s == <<Cmd("add", t, "queue")>>
  <2>1. /\ "add" \in ChainOp \cup CallOp /\ "queue" \in Place
        /\ "queue" \in PlacesFor("add")
        /\ Hit("add", {"poll"}) = 0 /\ Hit("add", SlotOp) = 0
        /\ Hit("add", {"add"}) = 1
    BY DEF CallOp, Place, Hit, SlotOp, PlacesFor
  <2>2. s \in Seq(Wire) /\ \A ops : CountIn(s, ops) = Hit("add", ops)
    BY <2>1, OneCommand
  <2>3. Send(w, s)
    BY <1>1 DEF Add
  <2> HIDE DEF s
  <2>4. Wired(w, CountIn(s, {"poll"}), CountIn(s, SlotOp), CountIn(s, {"add"}))
    BY <2>2, <2>3, SendWired
  <2> QED BY <2>1, <2>2, <2>4
<1>2. ASSUME Process(w) \/ Resume(w) \/ RunImmediate(w)
      PROVE  Wired(w, NextPoll(w), 0, 0)
  <2>1. Send(w, Poll(w))
    BY <1>2 DEF Process, Resume, RunImmediate
  <2>2. Wired(w, CountIn(Poll(w), {"poll"}), CountIn(Poll(w), SlotOp),
              CountIn(Poll(w), {"add"}))
    BY <2>1, PollCounts, SendWired
  <2> QED BY <2>2, PollCounts
<1>3. ASSUME Pause(w) PROVE Wired(w, 0, 0, 0)
  <2>1. wire' = wire
    BY <1>3 DEF Pause
  <2>2. Sent(w, {"poll"}) \in Nat /\ Sent(w, SlotOp) \in Nat
        /\ Sent(w, {"add"}) \in Nat
    BY SentType
  <2> QED BY <2>1, <2>2 DEF Wired, Wires, Sent
<1>4. ASSUME NEW op \in {"find", "list"}, NEW t \in Task \cup {None},
             NEW p \in Place, Send(w, <<Cmd(op, t, p)>>)
      PROVE  Wired(w, 0, 0, 0)
  <2> DEFINE s == <<Cmd(op, t, p)>>
  <2>1. op \in ChainOp \cup CallOp /\ op \notin TaskOp
        /\ op \notin ChainOp \cup {"add"}
    BY DEF ChainOp, CallOp, SearchOp, TaskOp
  <2>2. s \in Seq(Wire)
    BY <2>1, OneCommand
  <2>3. \A i \in DOMAIN s : s[i].op = op
    BY DEF Cmd
  <2> HIDE DEF s
  <2>4. Send(w, s)
    BY <1>4 DEF s
  <2> QED BY <2>1, <2>2, <2>3, <2>4, QuietSend
<1>5. ASSUME NEW t \in Task, RemoveTask(w, t) PROVE Wired(w, 0, 0, 0)
  BY <1>4, <1>5 DEF RemoveTask, Looks, Place
<1>6. ASSUME GetTasks(w) PROVE Wired(w, 0, 0, 0)
  BY <1>4, <1>6 DEF GetTasks, Looks, Place
<1>7. ASSUME NEW op \in {"count", "wipe"}, NEW p \in Place, NEW q \in Place,
             NEW r \in Place,
             Send(w, <<Cmd(op, None, p), Cmd(op, None, q), Cmd(op, None, r)>>)
      PROVE  Wired(w, 0, 0, 0)
  <2> DEFINE s == <<Cmd(op, None, p), Cmd(op, None, q), Cmd(op, None, r)>>
  <2>1. op \in ChainOp \cup CallOp /\ op \notin TaskOp
        /\ op \notin ChainOp \cup {"add"}
    BY DEF ChainOp, CallOp, SearchOp, TaskOp
  <2>2. /\ Cmd(op, None, p) \in Wire /\ Cmd(op, None, q) \in Wire
        /\ Cmd(op, None, r) \in Wire
    BY <2>1, OneCommand
  <2>3. s \in Seq(Wire) /\ \A i \in DOMAIN s : s[i].op = op
    <3>1. s \in Seq(Wire)
      BY <2>2
    <3>2. \A i \in DOMAIN s : s[i].op = op
      BY DEF Cmd
    <3> QED BY <3>1, <3>2
  <2> HIDE DEF s
  <2>4. Send(w, s)
    BY <1>7 DEF s
  <2> QED BY <2>1, <2>3, <2>4, QuietSend
<1>8. ASSUME GetStatus(w) PROVE Wired(w, 0, 0, 0)
  <2>1. [i \in 1 .. 3 |-> Cmd("count", None, SearchOrder[i])] =
          <<Cmd("count", None, "queue"), Cmd("count", None, "processing"),
            Cmd("count", None, "dead")>>
    BY DEF SearchOrder
  <2> QED BY <1>7, <1>8, <2>1 DEF GetStatus, Looks, Place
<1>9. ASSUME Clear(w) PROVE Wired(w, 0, 0, 0)
  BY <1>7, <1>9 DEF Clear, Place
<1>10. ASSUME Shutdown(w) PROVE Wired(w, 0, 0, 0)
  BY <1>4, <1>10 DEF Shutdown, Place
<1> QED BY <1>1, <1>2, <1>3, <1>5, <1>6, <1>8, <1>9, <1>10

(* A reply on which a command of no chain is sent, or none, to a command   *)
(* of no chain.                                                            *)
LEMMA QuietAnswer ==
  ASSUME Wires, NEW w \in Worker, wire[w] # <<>>, NEW s \in Seq(Wire),
         Head(wire[w]).op \notin ChainOp \cup {"add"},
         \A i \in DOMAIN s : s[i].op \notin ChainOp \cup {"add"},
         wire' = [wire EXCEPT ![w] = Tail(@) \o s]
  PROVE  Wired(w, 0, 0, 0)
<1> DEFINE op == Head(wire[w]).op
<1>1. /\ CountIn(s, {"poll"}) = 0 /\ CountIn(s, SlotOp) = 0
      /\ CountIn(s, {"add"}) = 0
  BY QuietCommands
<1>2. /\ Hit(op, {"poll"}) = 0 /\ Hit(op, SlotOp) = 0 /\ Hit(op, {"add"}) = 0
  BY DEF Hit, ChainOp, SlotOp
<1>3. Wired(w, CountIn(s, {"poll"}) - Hit(op, {"poll"}),
               CountIn(s, SlotOp) - Hit(op, SlotOp),
               CountIn(s, {"add"}) - Hit(op, {"add"}))
  BY AnswerWired
<1> HIDE DEF op
<1> QED BY <1>1, <1>2, <1>3

(* A reply on which nothing is sent.                                       *)
LEMMA LastAnswer ==
  ASSUME Wires, NEW w \in Worker, wire[w] # <<>>,
         wire' = [wire EXCEPT ![w] = Tail(@) \o <<>>]
  PROVE  LET op == Head(wire[w]).op IN
         Wired(w, 0 - Hit(op, {"poll"}), 0 - Hit(op, SlotOp), 0 - Hit(op, {"add"}))
<1> DEFINE op == Head(wire[w]).op
           s == <<>>
<1>1. s \in Seq(Wire) /\ \A ops : CountIn(s, ops) = 0
  BY NoCommand
<1> HIDE DEF s
<1>2. Wired(w, CountIn(s, {"poll"}) - Hit(op, {"poll"}),
               CountIn(s, SlotOp) - Hit(op, SlotOp),
               CountIn(s, {"add"}) - Hit(op, {"add"}))
  BY <1>1, AnswerWired DEF s
<1> QED BY <1>1, <1>2

(* A call that holds a slot goes on with another command.                  *)
LEMMA SlotAnswer ==
  ASSUME Wires, NEW w \in Worker, wire[w] # <<>>, NEW m \in Wire,
         m.op \in SlotOp, Head(wire[w]).op \in ChainOp,
         wire' = [wire EXCEPT ![w] = Tail(@) \o <<m>>]
  PROVE  IF Head(wire[w]).op = "poll" THEN Wired(w, -1, 1, 0)
                                      ELSE Wired(w, 0, 0, 0)
<1> DEFINE op == Head(wire[w]).op
           s == <<m>>
<1>1. /\ s \in Seq(Wire) /\ CountIn(s, {"poll"}) = 0
      /\ CountIn(s, SlotOp) = 1 /\ CountIn(s, {"add"}) = 0
  BY SlotCommand
<1>2. /\ Hit(op, {"poll"}) = IF op = "poll" THEN 1 ELSE 0
      /\ Hit(op, SlotOp) = IF op = "poll" THEN 0 ELSE 1
      /\ Hit(op, {"add"}) = 0
  BY DEF Hit, ChainOp, SlotOp
<1> HIDE DEF s
<1>3. Wired(w, CountIn(s, {"poll"}) - Hit(op, {"poll"}),
               CountIn(s, SlotOp) - Hit(op, SlotOp),
               CountIn(s, {"add"}) - Hit(op, {"add"}))
  BY <1>1, AnswerWired DEF s
<1> HIDE DEF op
<1>4. CASE op = "poll"
  BY <1>1, <1>2, <1>3, <1>4 DEF op
<1>5. CASE op # "poll"
  BY <1>1, <1>2, <1>3, <1>5 DEF op
<1> QED BY <1>4, <1>5

Stores == store \in [Place -> SUBSET Task]

(* What a search sends next.                                               *)
LEMMA SearchCommands ==
  ASSUME Stores, NEW m \in Wire
  PROVE  /\ m.task \in store[m.place] => Cmd("take", m.task, m.place) \in Wire
         /\ FindNext(m) \in Seq(Wire)
         /\ \A i \in DOMAIN FindNext(m) :
              FindNext(m)[i].op = "find" /\ FindNext(m)[i].task = m.task
<1>1. m.place \in Place /\ m.task \in Task \cup {None}
  BY DEF Wire, Command
<1>2. ASSUME m.task \in store[m.place]
      PROVE  Cmd("take", m.task, m.place) \in Wire
  <2>1. m.task \in Task
    BY <1>1, <1>2 DEF Stores
  <2> QED BY <1>1, <2>1 DEF Cmd, Wire, Command, CallOp, SearchOp, PlacesFor
<1>3. PICK at : /\ at \in 1 .. 3 /\ SearchOrder[at] = m.place
                /\ at = CHOOSE i \in 1 .. 3 : SearchOrder[i] = m.place
  <2>1. \E i \in 1 .. 3 : SearchOrder[i] = m.place
    BY <1>1 DEF Place, SearchOrder
  <2> QED BY <2>1
<1>4. CASE at = 3
  <2>1. FindNext(m) = <<>>
    BY <1>3, <1>4 DEF FindNext
  <2> QED BY <1>2, <2>1
<1>5. CASE at # 3
  <2> DEFINE p == SearchOrder[at + 1]
  <2>1. p \in Place
    BY <1>3, <1>5 DEF Place, SearchOrder
  <2>2. FindNext(m) = <<Cmd("find", m.task, p)>>
    BY <1>3, <1>5 DEF FindNext
  <2> HIDE DEF p
  <2>3. "find" \in ChainOp \cup CallOp /\ "find" \notin TaskOp
    BY DEF CallOp, SearchOp, TaskOp
  <2>4. <<Cmd("find", m.task, p)>> \in Seq(Wire)
    BY <1>1, <2>1, <2>3, OneCommand
  <2>5. \A i \in DOMAIN FindNext(m) :
          FindNext(m)[i].op = "find" /\ FindNext(m)[i].task = m.task
    BY <2>2 DEF Cmd
  <2> QED BY <1>2, <2>2, <2>4, <2>5
<1> QED BY <1>4, <1>5

(* What the replies to client calls send.                                  *)
LEMMA ReplyWired ==
  ASSUME Wires, Stores, NEW w \in Worker
  PROVE  /\ AddReply(w) => Wired(w, NextPoll(w), 0, -1)
         /\ FindReply(w) \/ LastReply(w) => Wired(w, 0, 0, 0)
         /\ ListReply(w) \/ RestoreReply(w) => Wired(w, 0, 0, 0)
<1> DEFINE m == Head(wire[w])
<1>0. ASSUME wire[w] # <<>> PROVE m \in Wire
  BY <1>0, HeadTailProperties DEF Wires
<1>1. ASSUME AddReply(w) PROVE Wired(w, NextPoll(w), 0, -1)
  <2>1. /\ wire[w] # <<>> /\ m.op = "add"
        /\ wire' = [wire EXCEPT ![w] = Tail(@) \o Poll(w)]
    BY <1>1 DEF AddReply, Served, Answer
  <2>2. Wired(w, CountIn(Poll(w), {"poll"}) - Hit(m.op, {"poll"}),
                 CountIn(Poll(w), SlotOp) - Hit(m.op, SlotOp),
                 CountIn(Poll(w), {"add"}) - Hit(m.op, {"add"}))
    BY <2>1, AnswerWired, PollCounts
  <2>3. /\ Hit(m.op, {"poll"}) = 0 /\ Hit(m.op, SlotOp) = 0
        /\ Hit(m.op, {"add"}) = 1
    BY <2>1 DEF Hit, SlotOp
  <2>4. NextPoll(w) - 0 = NextPoll(w)
    BY DEF NextPoll
  <2> HIDE DEF m
  <2> QED BY <2>2, <2>3, <2>4, PollCounts
<1>2. ASSUME FindReply(w) PROVE Wired(w, 0, 0, 0)
  <2>1. wire[w] # <<>> /\ m.op = "find" /\ m \in Wire
    BY <1>0, <1>2 DEF FindReply, Served
  <2>2. m.op \notin ChainOp \cup {"add"}
    BY <2>1 DEF ChainOp
  <2>3. CASE m.task \in store[m.place]
    <3> DEFINE s == <<Cmd("take", m.task, m.place)>>
    <3>1. s \in Seq(Wire)
      BY <2>1, <2>3, SearchCommands
    <3>2. \A i \in DOMAIN s : s[i].op \notin ChainOp \cup {"add"}
      BY DEF Cmd, ChainOp
    <3>3. wire' = [wire EXCEPT ![w] = Tail(@) \o s]
      BY <1>2, <2>3 DEF FindReply, Answer
    <3> HIDE DEF s, m
    <3> QED BY <2>1, <2>2, <3>1, <3>2, <3>3, QuietAnswer DEF m
  <2>4. CASE m.task \notin store[m.place]
    <3> DEFINE s == FindNext(m)
    <3>1. wire' = [wire EXCEPT ![w] = Tail(@) \o s]
      BY <1>2, <2>4 DEF FindReply, Answer
    <3>2. s \in Seq(Wire) /\ \A i \in DOMAIN s : s[i].op = "find"
      BY <2>1, SearchCommands
    <3>3. \A i \in DOMAIN s : s[i].op \notin ChainOp \cup {"add"}
      BY <3>2 DEF ChainOp
    <3> HIDE DEF s
    <3> QED BY <2>1, <2>2, <3>1, <3>2, <3>3, QuietAnswer
  <2> QED BY <2>3, <2>4
<1>3. ASSUME wire[w] # <<>>, m.op \notin ChainOp \cup {"add"},
             wire' = [wire EXCEPT ![w] = Tail(@) \o <<>>]
      PROVE  Wired(w, 0, 0, 0)
  <2>1. /\ Hit(m.op, {"poll"}) = 0 /\ Hit(m.op, SlotOp) = 0
        /\ Hit(m.op, {"add"}) = 0
    BY <1>3 DEF Hit, ChainOp, SlotOp
  <2>2. Wired(w, 0 - Hit(m.op, {"poll"}), 0 - Hit(m.op, SlotOp),
              0 - Hit(m.op, {"add"}))
    BY <1>3, LastAnswer
  <2> QED BY <2>1, <2>2
<1>4. ASSUME LastReply(w) \/ RestoreReply(w) PROVE Wired(w, 0, 0, 0)
  <2>1. /\ wire[w] # <<>> /\ m.op \in {"take", "wipe", "count", "restore"}
        /\ wire' = [wire EXCEPT ![w] = Tail(@) \o <<>>]
    BY <1>4 DEF LastReply, RestoreReply, Served, Answer
  <2> QED BY <1>3, <2>1 DEF ChainOp
<1>5. ASSUME ListReply(w) PROVE Wired(w, 0, 0, 0)
  <2>1. wire[w] # <<>> /\ m.op = "list"
    BY <1>5 DEF ListReply, Served
  <2>2. m.op \notin ChainOp \cup {"add"}
    BY <2>1 DEF ChainOp
  <2>3. CASE store["processing"] = {}
    BY <1>3, <1>5, <2>1, <2>2, <2>3 DEF ListReply, Answer
  <2>4. CASE store["processing"] # {}
    <3> DEFINE s == <<Cmd("restore", None, "queue")>>
    <3>1. /\ "restore" \in ChainOp \cup CallOp /\ "restore" \notin TaskOp
          /\ "queue" \in Place
      BY DEF CallOp, TaskOp, Place
    <3>2. s \in Seq(Wire)
      BY <3>1, OneCommand
    <3>3. \A i \in DOMAIN s : s[i].op \notin ChainOp \cup {"add"}
      BY DEF Cmd, ChainOp
    <3>4. wire' = [wire EXCEPT ![w] = Tail(@) \o s]
      BY <1>5, <2>4 DEF ListReply, Answer
    <3> HIDE DEF s
    <3> QED BY <2>1, <2>2, <3>2, <3>3, <3>4, QuietAnswer
  <2> QED BY <2>3, <2>4
<1> QED BY <1>1, <1>2, <1>4, <1>5

(* What the calls of processNext send on a reply or when a handler settles.*)
LEMMA ChainWired ==
  ASSUME Wires, NEW w \in Worker
  PROVE  /\ \A t \in Task : PollFinds(w, t) => Wired(w, -1, 1, 0)
         /\ PollFindsNothing(w) => Wired(w, -1, 0, 0)
         /\ MoveReply(w) \/ AckOrCleanReply(w) => Wired(w, 0, -1, 0)
         /\ MoveReplyLost(w) \/ RequeueOrBuryReply(w) => Wired(w, 0, 0, 0)
         /\ \A t \in Task : HandlerSettles(w, t) => Wired(w, 0, 1, 0)
<1> DEFINE m == Head(wire[w])
<1>0. ASSUME wire[w] # <<>> PROVE m \in Wire
  BY <1>0, HeadTailProperties DEF Wires
<1>1. ASSUME NEW op \in {"ack", "clean", "move"}, NEW t \in Task
      PROVE  /\ Cmd(op, t, "processing") \in Wire
             /\ Cmd(op, t, "processing").op \in SlotOp
  BY DEF Cmd, Wire, Command, ChainOp, SlotOp, Place, PlacesFor
<1>2. ASSUME NEW t \in Task
      PROVE  FailureCommand(t) \in Wire /\ FailureCommand(t).op \in SlotOp
  BY FailureIs DEF SlotOp
<1>3. ASSUME NEW t \in Task, PollFinds(w, t) PROVE Wired(w, -1, 1, 0)
  <2>1. /\ wire[w] # <<>> /\ m.op = "poll"
        /\ wire' = [wire EXCEPT ![w] = Tail(@) \o <<Cmd("move", t, "processing")>>]
    BY <1>3 DEF PollFinds, Served, Answer
  <2>2. "poll" \in ChainOp
    BY DEF ChainOp
  <2> QED BY <1>1, <2>1, <2>2, SlotAnswer
<1>4. ASSUME wire[w] # <<>>, wire' = [wire EXCEPT ![w] = Tail(@) \o <<>>]
      PROVE  /\ m.op = "poll" => Wired(w, -1, 0, 0)
             /\ m.op \in SlotOp => Wired(w, 0, -1, 0)
  <2>1. Wired(w, 0 - Hit(m.op, {"poll"}), 0 - Hit(m.op, SlotOp),
              0 - Hit(m.op, {"add"}))
    BY <1>4, LastAnswer
  <2>2. CASE m.op = "poll"
    <3>1. /\ Hit(m.op, {"poll"}) = 1 /\ Hit(m.op, SlotOp) = 0
          /\ Hit(m.op, {"add"}) = 0 /\ m.op \notin SlotOp
      BY <2>2 DEF Hit, SlotOp
    <3> QED BY <2>1, <3>1
  <2>3. CASE m.op \in SlotOp
    <3>1. /\ Hit(m.op, {"poll"}) = 0 /\ Hit(m.op, SlotOp) = 1
          /\ Hit(m.op, {"add"}) = 0 /\ m.op # "poll"
      BY <2>3 DEF Hit, SlotOp
    <3> QED BY <2>1, <3>1
  <2> QED BY <2>2, <2>3
<1>5. ASSUME PollFindsNothing(w) PROVE Wired(w, -1, 0, 0)
  BY <1>4, <1>5 DEF PollFindsNothing, Served, Answer
<1>6. ASSUME MoveReply(w) \/ AckOrCleanReply(w) PROVE Wired(w, 0, -1, 0)
  BY <1>4, <1>6 DEF MoveReply, AckOrCleanReply, Served, Answer, SlotOp
<1>7. ASSUME wire[w] # <<>>, m.op \in {"move", "requeue", "bury"}
      PROVE  m.task \in Task /\ m.op \in ChainOp /\ m.op # "poll"
  BY <1>0, <1>7 DEF Wire, TaskOp, ChainOp
<1>8. ASSUME MoveReplyLost(w) PROVE Wired(w, 0, 0, 0)
  <2>1. /\ wire[w] # <<>> /\ m.op = "move"
        /\ wire' = [wire EXCEPT ![w] = Tail(@) \o <<FailureCommand(m.task)>>]
    BY <1>8 DEF MoveReplyLost, Served, Answer
  <2>2. m.task \in Task /\ m.op \in ChainOp /\ m.op # "poll"
    BY <1>7, <2>1
  <2> HIDE DEF m
  <2> QED BY <1>2, <2>1, <2>2, SlotAnswer DEF m
<1>9. ASSUME RequeueOrBuryReply(w) PROVE Wired(w, 0, 0, 0)
  <2>1. /\ wire[w] # <<>> /\ m.op \in {"requeue", "bury"}
        /\ wire' = [wire EXCEPT ![w] =
                       Tail(@) \o <<Cmd("clean", m.task, "processing")>>]
    BY <1>9 DEF RequeueOrBuryReply, Served, Answer
  <2>2. m.task \in Task /\ m.op \in ChainOp /\ m.op # "poll"
    BY <1>7, <2>1
  <2> HIDE DEF m
  <2>3. Cmd("clean", m.task, "processing") \in Wire
        /\ Cmd("clean", m.task, "processing").op \in SlotOp
    BY <1>1, <2>2
  <2> QED BY <2>1, <2>2, <2>3, SlotAnswer DEF m
<1>10. ASSUME NEW t \in Task, HandlerSettles(w, t) PROVE Wired(w, 0, 1, 0)
  <2>1. PICK c \in Wire : c.op \in SlotOp /\ Send(w, <<c>>)
    BY <1>1, <1>2, <1>10 DEF HandlerSettles, HandlerResolves, HandlerRejects
  <2> DEFINE s == <<c>>
  <2>2. /\ s \in Seq(Wire) /\ CountIn(s, {"poll"}) = 0
        /\ CountIn(s, SlotOp) = 1 /\ CountIn(s, {"add"}) = 0
    BY <2>1, SlotCommand
  <2> HIDE DEF s
  <2>3. Wired(w, CountIn(s, {"poll"}), CountIn(s, SlotOp), CountIn(s, {"add"}))
    BY <2>1, <2>2, SendWired DEF s
  <2> QED BY <2>2, <2>3
<1> QED BY <1>3, <1>5, <1>6, <1>8, <1>9, <1>10

------------------------------------------------------------------------------
(* The steps as the meters show them: every step of a worker is of one of  *)
(* nine kinds.                                                             *)

OthersKept(w) ==
  \A v \in Worker \ {w} :
    /\ wire'[v] = wire[v] /\ running'[v] = running[v]
    /\ immediates'[v] = immediates[v] /\ activeCount'[v] = activeCount[v]
    /\ alive'[v] = alive[v] /\ handler'[v] = handler[v]
    /\ isPaused'[v] = isPaused[v] /\ isShutdown'[v] = isShutdown[v]

FlagsKept == UNCHANGED worker

(* No flag is set that lets a call of processNext poll, nothing polls.     *)
Quiet(w, adds) ==
  /\ Wired(w, 0, 0, adds)
  /\ adds = 1 => w \in Producers
  /\ UNCHANGED <<alive, slots, running>>
  /\ \/ handler'[w] = handler[w] \/ ~handler'[w]
  /\ \/ isPaused'[w] = isPaused[w] \/ isPaused'[w]
  /\ \/ isShutdown'[w] = isShutdown[w] \/ isShutdown'[w]
(* processNext is called: by a client, on the reply to an addition, or by  *)
(* a callback.                                                             *)
CallsNext(w) ==
  /\ UNCHANGED <<alive, activeCount, running>>
  /\ \/ /\ ~handler[w] \/ "resume" \in Calls
        /\ Wired(w, NextPoll(w), 0, 0)
        /\ UNCHANGED immediates
     \/ /\ FlagsKept
        /\ Wired(w, NextPoll(w), 0, -1)
        /\ UNCHANGED immediates
     \/ /\ FlagsKept
        /\ Wired(w, NextPoll(w), 0, 0)
        /\ immediates[w] > 0
        /\ immediates' = [immediates EXCEPT ![w] = @ - 1]
TakesSlot(w) ==
  /\ Wired(w, -1, 1, 0)
  /\ activeCount' = [activeCount EXCEPT ![w] = @ + 1]
  /\ UNCHANGED immediates /\ FlagsKept /\ UNCHANGED running
GivesUp(w) ==
  /\ Wired(w, -1, 0, 0)
  /\ Reschedule(w)
  /\ UNCHANGED activeCount /\ FlagsKept /\ UNCHANGED running
CallsHandler(w) ==
  /\ Wired(w, 0, -1, 0)
  /\ \E t \in Task : running' = [running EXCEPT ![w][t] = @ + 1]
  /\ UNCHANGED slots /\ FlagsKept
HandlerEnds(w) ==
  /\ Wired(w, 0, 1, 0)
  /\ \E t \in Task : /\ running[w][t] > 0
                     /\ running' = [running EXCEPT ![w][t] = @ - 1]
  /\ UNCHANGED slots /\ FlagsKept
GivesSlotBack(w) ==
  /\ Wired(w, 0, -1, 0)
  /\ LeaveSlot(w)
  /\ FlagsKept /\ UNCHANGED running
Dies(w) ==
  /\ UNCHANGED wire
  /\ alive' = [alive EXCEPT ![w] = FALSE]
  /\ running' = [running EXCEPT ![w] = [t \in Task |-> 0]]
  /\ immediates' = [immediates EXCEPT ![w] = 0]
  /\ activeCount' = [activeCount EXCEPT ![w] = 0]
  /\ UNCHANGED <<handler, isPaused, isShutdown>>
IsDead(w) ==
  /\ ~alive[w] /\ wire[w] # <<>>
  /\ FlagsKept /\ UNCHANGED <<slots, running>>
  /\ Wires'
  /\ \A v \in Worker \ {w} : wire'[v] = wire[v]
  /\ Sent(w, {"poll"})' <= Sent(w, {"poll"})
  /\ Sent(w, SlotOp)' <= Sent(w, SlotOp)
  /\ Sent(w, {"add"})' <= Sent(w, {"add"})

Effect(w) ==
  \/ Dies(w)
  \/ IsDead(w)
  \/ /\ alive[w]
     /\ \/ \E adds \in {-1, 0, 1} : Quiet(w, adds)
        \/ CallsNext(w) \/ TakesSlot(w) \/ GivesUp(w) \/ CallsHandler(w)
        \/ HandlerEnds(w) \/ GivesSlotBack(w)

(* The types that the steps rely on.                                       *)
Types ==
  /\ Wires /\ Stores
  /\ alive \in [Worker -> BOOLEAN]
  /\ isPaused \in [Worker -> BOOLEAN]
  /\ isShutdown \in [Worker -> BOOLEAN]
  /\ handler \in [Worker -> BOOLEAN]
  /\ activeCount \in [Worker -> Nat]
  /\ immediates \in [Worker -> Nat]
  /\ running \in [Worker -> [Task -> Nat]]

(* A dead worker has nothing due and no handler call.                      *)
DeadIdle ==
  \A w \in Worker : ~alive[w] =>
    immediates[w] = 0 /\ \A t \in Task : running[w][t] = 0

(* What a failing command comes to.                                        *)
LEMMA FailEffect ==
  ASSUME Types, NEW w \in Worker, CommandFails(w)
  PROVE  Effect(w)
<1> DEFINE m == Head(wire[w])
<1>1. /\ alive[w] /\ wire[w] # <<>> /\ m \in Wire /\ Wires
      /\ UNCHANGED <<worker, running>>
  BY HeadTailProperties DEF CommandFails, Types, Wires, tasks
<1>2. ASSUME wire' = [wire EXCEPT ![w] = Tail(@) \o <<>>]
      PROVE  Wired(w, 0 - Hit(m.op, {"poll"}), 0 - Hit(m.op, SlotOp),
                   0 - Hit(m.op, {"add"}))
  BY <1>1, <1>2, LastAnswer
<1>3. CASE /\ m.op = "poll" /\ wire' = [wire EXCEPT ![w] = Tail(@) \o <<>>]
           /\ Reschedule(w) /\ UNCHANGED activeCount
  <2>1. /\ Hit(m.op, {"poll"}) = 1 /\ Hit(m.op, SlotOp) = 0
        /\ Hit(m.op, {"add"}) = 0
    BY <1>3 DEF Hit, SlotOp
  <2>2. Wired(w, -1, 0, 0)
    BY <1>2, <1>3, <2>1
  <2> QED BY <1>1, <1>3, <2>2 DEF Effect, GivesUp, FlagsKept
<1>4. CASE /\ m.op \in {"move", "ack"} /\ UNCHANGED slots
           /\ wire' = [wire EXCEPT ![w] = Tail(@) \o <<FailureCommand(m.task)>>]
  <2>1. m.task \in Task /\ m.op \in ChainOp /\ m.op # "poll"
    BY <1>1, <1>4 DEF Wire, TaskOp, ChainOp
  <2>2. FailureCommand(m.task) \in Wire /\ FailureCommand(m.task).op \in SlotOp
    BY <2>1, FailureIs DEF SlotOp
  <2> HIDE DEF m
  <2>3. Wired(w, 0, 0, 0)
    BY <1>1, <1>4, <2>1, <2>2, SlotAnswer DEF m
  <2>4. Quiet(w, 0)
    BY <1>1, <1>4, <2>3 DEF Quiet, worker
  <2> QED BY <1>1, <2>4 DEF Effect
<1>5. CASE /\ m.op \in {"requeue", "bury", "clean"} /\ LeaveSlot(w)
           /\ wire' = [wire EXCEPT ![w] = Tail(@) \o <<>>]
  <2>1. /\ Hit(m.op, {"poll"}) = 0 /\ Hit(m.op, SlotOp) = 1
        /\ Hit(m.op, {"add"}) = 0
    BY <1>5 DEF Hit, SlotOp
  <2>2. Wired(w, 0, -1, 0)
    BY <1>2, <1>5, <2>1
  <2> QED BY <1>1, <1>5, <2>2 DEF Effect, GivesSlotBack, FlagsKept
<1>6. CASE /\ m.op \in CallOp /\ UNCHANGED slots
           /\ wire' = [wire EXCEPT ![w] = Tail(@) \o <<>>]
  <2>1. /\ Hit(m.op, {"poll"}) = 0 /\ Hit(m.op, SlotOp) = 0
        /\ Hit(m.op, {"add"}) \in {0, 1}
    BY <1>6 DEF Hit, SlotOp, CallOp, SearchOp
  <2>2. Wired(w, 0, 0, 0) \/ Wired(w, 0, 0, -1)
    BY <1>2, <1>6, <2>1
  <2>3. Quiet(w, 0) \/ Quiet(w, -1)
    BY <1>1, <1>6, <2>2 DEF Quiet, worker
  <2> QED BY <1>1, <2>3 DEF Effect
<1> QED BY <1>3, <1>4, <1>5, <1>6 DEF CommandFails

(* What a crash, and the rest of a crashed worker's connection, comes to.  *)
LEMMA DeadEffect ==
  ASSUME Types, NEW w \in Worker, Crash(w) \/ ServeCrashed(w) \/ Disconnect(w)
  PROVE  Effect(w)
<1>1. CASE Crash(w)
  BY <1>1 DEF Crash, Effect, Dies
<1>2. CASE ServeCrashed(w)
  <2> DEFINE s == wire[w]
             op == Head(s).op
  <2>1. Wires /\ s \in Seq(Wire) /\ s # <<>>
    BY <1>2 DEF Types, Wires, ServeCrashed
  <2>2. Tail(s) \o <<>> = Tail(s)
    BY <2>1, HeadTailProperties, ConcatEmptySeq
  <2>3. wire' = [wire EXCEPT ![w] = Tail(@) \o <<>>]
    BY <1>2, <2>2 DEF ServeCrashed
  <2>4. Wired(w, 0 - Hit(op, {"poll"}), 0 - Hit(op, SlotOp), 0 - Hit(op, {"add"}))
    BY <2>1, <2>3, LastAnswer
  <2>5. \A ops : Sent(w, ops) \in Nat /\ Hit(op, ops) \in Nat
    BY <2>1, SentType DEF Hit
  <2> HIDE DEF s, op
  <2>6. /\ Wires' /\ \A v \in Worker \ {w} : wire'[v] = wire[v]
        /\ Sent(w, {"poll"})' <= Sent(w, {"poll"})
        /\ Sent(w, SlotOp)' <= Sent(w, SlotOp)
        /\ Sent(w, {"add"})' <= Sent(w, {"add"})
    BY <2>4, <2>5 DEF Wired
  <2> QED BY <1>2, <2>6
          DEF ServeCrashed, Effect, IsDead, FlagsKept, tasks
<1>3. CASE Disconnect(w)
  <2>1. Wires' /\ \A v \in Worker \ {w} : wire'[v] = wire[v]
    BY <1>3 DEF Disconnect, Types, Wires
  <2>2. \A ops : Sent(w, ops)' = 0
    <3>1. wire'[w] = <<>>
      BY <1>3 DEF Disconnect, Types, Wires
    <3> QED BY <2>1, <3>1, NoCommand DEF Sent, CountIn
  <2>3. \A ops : Sent(w, ops) \in Nat
    BY SentType DEF Types
  <2>4. /\ Sent(w, {"poll"})' <= Sent(w, {"poll"})
        /\ Sent(w, SlotOp)' <= Sent(w, SlotOp)
        /\ Sent(w, {"add"})' <= Sent(w, {"add"})
    BY <2>2, <2>3
  <2> QED BY <1>3, <2>1, <2>4
          DEF Disconnect, Effect, IsDead, FlagsKept, tasks
<1> QED BY <1>1, <1>2, <1>3

(* What a worker does leaves the others alone.                             *)
LEMMA NextKeeps ==
  ASSUME Types, NEW w \in Worker, Effect(w),
         \A v \in Worker \ {w} : /\ handler'[v] = handler[v]
                                /\ isPaused'[v] = isPaused[v]
                                /\ isShutdown'[v] = isShutdown[v]
  PROVE  OthersKept(w)
<1>1. \A v \in Worker \ {w} : wire'[v] = wire[v]
  BY DEF Effect, Dies, IsDead, Quiet, CallsNext, TakesSlot, GivesUp,
         CallsHandler, HandlerEnds, GivesSlotBack, Wired
<1>2. \A v \in Worker \ {w} : alive'[v] = alive[v] /\ running'[v] = running[v]
  BY DEF Types, Effect, Dies, IsDead, Quiet, CallsNext, TakesSlot, GivesUp,
         CallsHandler, HandlerEnds, GivesSlotBack, FlagsKept, worker
<1>3. ASSUME NEW v \in Worker \ {w}, Reschedule(w) PROVE immediates'[v] = immediates[v]
  BY <1>3 DEF Reschedule, Types
<1>4. \A v \in Worker \ {w} : /\ immediates'[v] = immediates[v]
                             /\ activeCount'[v] = activeCount[v]
  BY <1>3 DEF Types, Effect, Dies, IsDead, Quiet, CallsNext, TakesSlot, GivesUp,
         CallsHandler, HandlerEnds, GivesSlotBack, LeaveSlot, slots
<1> QED BY <1>1, <1>2, <1>4 DEF OthersKept

(* Every step is a step of one worker, of one of the nine kinds.           *)
LEMMA NextEffect ==
  ASSUME Types, DeadIdle, Next
  PROVE  \E w \in Worker : Effect(w) /\ OthersKept(w)
<1>1. PICK w \in Worker :
        \/ ClientCall(w)
        \/ Serve(w)
        \/ RunImmediate(w)
        \/ \E t \in Task : HandlerSettles(w, t)
        \/ Fail(w)
  BY DEF Next
<1>0. Wires /\ Stores
  BY DEF Types
<1> DEFINE Flags == \A v \in Worker \ {w} : /\ handler'[v] = handler[v]
                                           /\ isPaused'[v] = isPaused[v]
                                           /\ isShutdown'[v] = isShutdown[v]
<1>2. ASSUME ClientCall(w) PROVE Effect(w) /\ Flags
  <2>1. ASSUME NEW t \in Task, Add(w, t) PROVE Effect(w) /\ Flags
    <3>1. Quiet(w, 1) /\ alive[w]
      BY <1>0, <2>1, ClientWired DEF Add, Quiet, worker, tasks
    <3> QED BY <2>1, <3>1 DEF Add, worker, Effect
  <2>2. ASSUME Process(w) \/ ("resume" \in Calls /\ Resume(w))
        PROVE  Effect(w) /\ Flags
    <3>1. Wired(w, NextPoll(w), 0, 0)
      BY <1>0, <2>2, ClientWired
    <3>2. CallsNext(w) /\ alive[w]
      BY <2>2, <3>1 DEF Process, Resume, CallsNext, slots, tasks
    <3>3. Flags
      BY <2>2 DEF Process, Resume, Types
    <3> QED BY <3>2, <3>3 DEF Effect
  <2>3. ASSUME Pause(w) PROVE Effect(w) /\ Flags
    <3>1. Wired(w, 0, 0, 0)
      BY <1>0, <2>3, ClientWired
    <3>2. Quiet(w, 0) /\ alive[w] /\ Flags
      BY <2>3, <3>1 DEF Pause, Quiet, Types, tasks
    <3> QED BY <3>2 DEF Effect
  <2>4. ASSUME Shutdown(w) PROVE Effect(w) /\ Flags
    <3>1. Wired(w, 0, 0, 0)
      BY <1>0, <2>4, ClientWired
    <3>2. Quiet(w, 0) /\ alive[w] /\ Flags
      BY <2>4, <3>1 DEF Shutdown, Quiet, Types, tasks
    <3> QED BY <3>2 DEF Effect
  <2>5. ASSUME \/ \E t \in Task : RemoveTask(w, t)
               \/ GetTasks(w) \/ GetStatus(w) \/ Clear(w)
        PROVE  Effect(w) /\ Flags
    <3>1. Wired(w, 0, 0, 0)
      BY <1>0, <2>5, ClientWired
    <3>2. alive[w] /\ UNCHANGED <<worker, slots, tasks>>
      BY <2>5 DEF RemoveTask, GetTasks, GetStatus, Looks, Clear
    <3>3. Quiet(w, 0)
      BY <3>1, <3>2 DEF Quiet, worker, tasks
    <3> QED BY <3>2, <3>3 DEF Effect, worker
  <2> QED BY <1>2, <2>1, <2>2, <2>3, <2>4, <2>5 DEF ClientCall
<1>3. ASSUME Serve(w) PROVE Effect(w) /\ Flags
  <2>1. alive[w] /\ FlagsKept
    BY <1>3 DEF Serve, AddReply, FindReply, LastReply, ListReply, RestoreReply,
                PollFinds, PollFindsNothing, MoveReply, MoveReplyLost,
                RequeueOrBuryReply, AckOrCleanReply, Served, FlagsKept
  <2>2. Flags
    BY <2>1 DEF FlagsKept, worker
  <2>3. ASSUME AddReply(w) PROVE CallsNext(w)
    BY <1>0, <2>1, <2>3, ReplyWired
       DEF AddReply, CallsNext, FlagsKept, worker, slots, tasks
  <2>4. ASSUME \/ FindReply(w) \/ LastReply(w) \/ ListReply(w)
               \/ RestoreReply(w) \/ MoveReplyLost(w) \/ RequeueOrBuryReply(w)
        PROVE  Quiet(w, 0)
    <3>1. Wired(w, 0, 0, 0)
      BY <1>0, <2>4, ReplyWired, ChainWired
    <3>2. UNCHANGED <<slots, tasks>>
      BY <2>4 DEF FindReply, LastReply, ListReply, RestoreReply,
                  MoveReplyLost, RequeueOrBuryReply
    <3> QED BY <2>1, <3>1, <3>2 DEF Quiet, FlagsKept, worker, tasks
  <2>5. ASSUME NEW t \in Task, PollFinds(w, t) PROVE TakesSlot(w)
    BY <1>0, <2>1, <2>5, ChainWired DEF PollFinds, TakesSlot, tasks
  <2>6. ASSUME PollFindsNothing(w) PROVE GivesUp(w)
    BY <1>0, <2>1, <2>6, ChainWired DEF PollFindsNothing, GivesUp, tasks
  <2>7. ASSUME MoveReply(w) PROVE CallsHandler(w)
    <3>1. Wired(w, 0, -1, 0)
      BY <1>0, <2>7, ChainWired
    <3>2. Head(wire[w]).task \in Task
      <4>1. wire[w] # <<>> /\ Head(wire[w]).op = "move"
        BY <2>7 DEF MoveReply, Served
      <4>2. Head(wire[w]) \in Wire
        BY <1>0, <4>1, HeadTailProperties DEF Wires
      <4> QED BY <4>1, <4>2 DEF Wire, TaskOp
    <3> QED BY <2>1, <2>7, <3>1, <3>2 DEF MoveReply, CallsHandler
  <2>8. ASSUME AckOrCleanReply(w) PROVE GivesSlotBack(w)
    BY <1>0, <2>1, <2>8, ChainWired DEF AckOrCleanReply, GivesSlotBack, tasks
  <2> QED BY <1>3, <2>1, <2>2, <2>3, <2>4, <2>5, <2>6, <2>7, <2>8
          DEF Serve, Effect
<1>4. ASSUME RunImmediate(w) PROVE Effect(w) /\ Flags
  <2>1. Wired(w, NextPoll(w), 0, 0) /\ alive[w]
    <3>1. Wired(w, NextPoll(w), 0, 0)
      BY <1>0, <1>4, ClientWired
    <3>2. alive[w]
      BY <1>4 DEF DeadIdle, RunImmediate
    <3> QED BY <3>1, <3>2
  <2>2. CallsNext(w)
    BY <1>4, <2>1 DEF RunImmediate, CallsNext, FlagsKept, worker, tasks
  <2> QED BY <1>4, <2>1, <2>2 DEF Effect, RunImmediate, worker
<1>5. ASSUME NEW t \in Task, HandlerSettles(w, t) PROVE Effect(w) /\ Flags
  <2>1. Wired(w, 0, 1, 0)
    BY <1>0, <1>5, ChainWired
  <2>2. alive[w]
    BY <1>5 DEF DeadIdle, HandlerSettles, HandlerResolves, HandlerRejects
  <2>3. HandlerEnds(w)
    BY <1>5, <2>1
       DEF HandlerSettles, HandlerResolves, HandlerRejects, HandlerEnds, FlagsKept
  <2> QED BY <2>2, <2>3 DEF Effect, HandlerEnds, FlagsKept, worker
<1>6. ASSUME Fail(w) PROVE Effect(w) /\ Flags
  <2>1. UNCHANGED <<handler, isPaused, isShutdown>>
    BY <1>6 DEF Fail, CommandFails, Crash, ServeCrashed, Disconnect, worker
  <2> QED BY <1>6, <2>1, FailEffect, DeadEffect DEF Fail
<1>7. Effect(w) /\ Flags
  BY <1>1, <1>2, <1>3, <1>4, <1>5, <1>6
<1> QED BY <1>7, NextKeeps

------------------------------------------------------------------------------
(* The meters.                                                             *)

(* While a worker lives, each slot it counts is a handler call or a command*)
(* of a call that holds one.                                               *)
Metered ==
  \A w \in Worker :
    /\ IsFiniteSet(CallsOf(running[w]))
    /\ alive[w] => activeCount[w] = Handling(w) + Sent(w, SlotOp)

Meters == Types /\ DeadIdle /\ Metered

(* How many handler calls a worker has is read off its own calls only.     *)
LEMMA HandlingIs ==
  ASSUME Types, NEW w \in Worker, IsFiniteSet(CallsOf(running[w]))
  PROVE  /\ Handling(w) = Cardinality(CallsOf(running[w]))
         /\ Handling(w)' = Cardinality(CallsOf(running'[w]))
         /\ Handling(w) \in Nat
BY FS_CardinalityType DEF Handling, HandlerCalls, CallsOf

(* A worker that does nothing keeps its meters.                            *)
LEMMA OthersMetered ==
  ASSUME Meters, NEW w \in Worker, NEW v \in Worker \ {w}, OthersKept(w)
  PROVE  /\ IsFiniteSet(CallsOf(running'[v]))
         /\ Handling(v)' = Handling(v)
         /\ \A ops : Sent(v, ops)' = Sent(v, ops)
         /\ alive'[v] => activeCount'[v] = Handling(v)' + Sent(v, SlotOp)'
         /\ ~alive'[v] => immediates'[v] = 0 /\ \A t \in Task : running'[v][t] = 0
<1>1. /\ wire'[v] = wire[v] /\ running'[v] = running[v] /\ alive'[v] = alive[v]
      /\ immediates'[v] = immediates[v] /\ activeCount'[v] = activeCount[v]
  BY DEF OthersKept
<1>2. IsFiniteSet(CallsOf(running'[v]))
  BY <1>1 DEF Meters, Metered
<1>3. Handling(v)' = Handling(v)
  BY <1>1 DEF Handling, HandlerCalls
<1>4. \A ops : Sent(v, ops)' = Sent(v, ops)
  BY <1>1 DEF Sent
<1>5. alive'[v] => activeCount'[v] = Handling(v)' + Sent(v, SlotOp)'
  BY <1>1, <1>3, <1>4 DEF Meters, Metered
<1>6. ~alive'[v] => immediates'[v] = 0 /\ \A t \in Task : running'[v][t] = 0
  BY <1>1 DEF Meters, DeadIdle
<1> QED BY <1>2, <1>3, <1>4, <1>5, <1>6

(* How a step moves the meter of handler calls.                            *)
LEMMA HandlingMoves ==
  ASSUME Meters, NEW w \in Worker, Effect(w)
  PROVE  /\ running' \in [Worker -> [Task -> Nat]]
         /\ IsFiniteSet(CallsOf(running'[w]))
         /\ CallsHandler(w) => Handling(w)' = Handling(w) + 1
         /\ HandlerEnds(w) => Handling(w) = Handling(w)' + 1
         /\ ~CallsHandler(w) /\ ~HandlerEnds(w) /\ ~Dies(w) =>
              Handling(w)' = Handling(w)
         /\ Dies(w) => Handling(w)' = 0
<1> DEFINE r == running[w]
<1>0. /\ r \in [Task -> Nat] /\ IsFiniteSet(CallsOf(r))
      /\ running \in [Worker -> [Task -> Nat]]
  BY DEF Meters, Types, Metered
<1>h. /\ Handling(w) = Cardinality(CallsOf(r))
      /\ Handling(w)' = Cardinality(CallsOf(running'[w]))
  BY <1>0, HandlingIs DEF Meters
<1>1. CASE CallsHandler(w)
  <2>1. PICK t \in Task : running' = [running EXCEPT ![w][t] = @ + 1]
    BY <1>1 DEF CallsHandler
  <2>2. running'[w] = [r EXCEPT ![t] = @ + 1]
        /\ running' = [running EXCEPT ![w] = [r EXCEPT ![t] = @ + 1]]
    BY <1>0, <2>1
  <2> DEFINE q == [r EXCEPT ![t] = @ + 1]
  <2>3. /\ q \in [Task -> Nat] /\ IsFiniteSet(CallsOf(q))
        /\ Cardinality(CallsOf(q)) = Cardinality(CallsOf(r)) + 1
    BY <1>0, CallsMore
  <2>4. ~HandlerEnds(w) /\ ~Dies(w)
    <3>1. Sent(w, SlotOp) \in Nat
      BY SentType DEF Meters, Types
    <3>2. Sent(w, SlotOp)' # Sent(w, SlotOp) + 1
      BY <1>1, <3>1 DEF CallsHandler, Wired
    <3>3. Sent(w, SlotOp)' # Sent(w, SlotOp)
      BY <1>1, <3>1 DEF CallsHandler, Wired
    <3> QED BY <3>2, <3>3 DEF HandlerEnds, Dies, Wired, Sent
  <2> HIDE DEF q, r
  <2> QED BY <1>0, <1>1, <1>h, <2>2, <2>3, <2>4 DEF q
<1>2. CASE HandlerEnds(w)
  <2>1. PICK t \in Task :
          running[w][t] > 0 /\ running' = [running EXCEPT ![w][t] = @ - 1]
    BY <1>2 DEF HandlerEnds
  <2>2. running'[w] = [r EXCEPT ![t] = @ - 1]
        /\ running' = [running EXCEPT ![w] = [r EXCEPT ![t] = @ - 1]]
    BY <1>0, <2>1
  <2> DEFINE q == [r EXCEPT ![t] = @ - 1]
  <2>3. /\ q \in [Task -> Nat] /\ IsFiniteSet(CallsOf(q))
        /\ Cardinality(CallsOf(r)) = Cardinality(CallsOf(q)) + 1
    BY <1>0, <2>1, CallsLess
  <2>4. ~CallsHandler(w) /\ ~Dies(w)
    <3>1. Sent(w, SlotOp) \in Nat
      BY SentType DEF Meters, Types
    <3>2. Sent(w, SlotOp)' # Sent(w, SlotOp) + -1
      BY <1>2, <3>1 DEF HandlerEnds, Wired
    <3>3. Sent(w, SlotOp)' # Sent(w, SlotOp)
      BY <1>2, <3>1 DEF HandlerEnds, Wired
    <3> QED BY <3>2, <3>3 DEF CallsHandler, Dies, Wired, Sent
  <2> HIDE DEF q, r
  <2> QED BY <1>0, <1>2, <1>h, <2>2, <2>3, <2>4 DEF q
<1>3. CASE Dies(w) /\ ~CallsHandler(w) /\ ~HandlerEnds(w)
  <2>1. /\ running'[w] = [t \in Task |-> 0]
        /\ running' \in [Worker -> [Task -> Nat]]
    BY <1>0, <1>3 DEF Dies
  <2>2. CallsOf(running'[w]) = {}
    BY <2>1, CallsNone
  <2> QED BY <1>3, <1>h, <2>1, <2>2, FS_EmptySet
<1>4. CASE ~Dies(w) /\ ~CallsHandler(w) /\ ~HandlerEnds(w)
  <2>1. running' = running
    BY <1>4 DEF Effect, IsDead, Quiet, CallsNext, TakesSlot, GivesUp, GivesSlotBack
  <2> QED BY <1>0, <1>4, <1>h, <2>1
<1> QED BY <1>1, <1>2, <1>3, <1>4

(* What the step of w does to its own meters.                              *)
LEMMA MetersMove ==
  ASSUME Meters, NEW w \in Worker, Effect(w)
  PROVE  /\ Wires'
         /\ activeCount' \in [Worker -> Nat]
         /\ immediates' \in [Worker -> Nat]
         /\ alive'[w] => activeCount'[w] = Handling(w)' + Sent(w, SlotOp)'
         /\ ~alive'[w] => immediates'[w] = 0 /\ \A t \in Task : running'[w][t] = 0
<1>0. /\ Types /\ Wires /\ Handling(w) \in Nat
      /\ Sent(w, SlotOp) \in Nat /\ Sent(w, {"poll"}) \in Nat
      /\ activeCount \in [Worker -> Nat] /\ immediates \in [Worker -> Nat]
      /\ alive[w] => activeCount[w] = Handling(w) + Sent(w, SlotOp)
      /\ ~alive[w] => immediates[w] = 0 /\ \A t \in Task : running[w][t] = 0
  BY SentType, HandlingIs DEF Meters, Types, Metered, DeadIdle
<1>1. Wires'
  BY DEF Effect, Dies, IsDead, Quiet, CallsNext, TakesSlot, GivesUp,
         CallsHandler, HandlerEnds, GivesSlotBack, Wired, Meters, Types, Wires
<1>2. Sent(w, SlotOp)' \in Nat
  <2>1. wire'[w] \in Seq(Wire)
    BY <1>1 DEF Wires
  <2>2. CountIn(wire'[w], SlotOp) \in Nat
    BY <2>1, LenProperties, CountType
  <2> QED BY <2>2 DEF Sent, CountIn
<1>3. ASSUME Reschedule(w) PROVE immediates' \in [Worker -> Nat]
  BY <1>0, <1>3 DEF Reschedule
<1>4. CASE Dies(w)
  BY <1>0, <1>1, <1>4 DEF Dies, Types
<1>5. CASE IsDead(w)
  BY <1>0, <1>1, <1>5 DEF IsDead, FlagsKept, worker, slots
<1> DEFINE Same == Handling(w)' = Handling(w)
<1>6. ASSUME NEW adds \in {-1, 0, 1}, Quiet(w, adds), alive[w]
      PROVE  /\ activeCount' = activeCount /\ immediates' = immediates
             /\ alive' = alive /\ Same /\ Sent(w, SlotOp)' = Sent(w, SlotOp)
  <2>1. running' = running
    BY <1>6 DEF Quiet
  <2> QED BY <1>0, <1>6, <2>1 DEF Quiet, Wired, slots, Handling, HandlerCalls
<1>7. ASSUME CallsNext(w), alive[w]
      PROVE  /\ activeCount' = activeCount /\ immediates' \in [Worker -> Nat]
             /\ alive' = alive /\ Same /\ Sent(w, SlotOp)' = Sent(w, SlotOp)
  <2>1. running' = running
    BY <1>7 DEF CallsNext
  <2>2. immediates' \in [Worker -> Nat]
    BY <1>0, <1>7 DEF CallsNext
  <2>3. Sent(w, SlotOp)' = Sent(w, SlotOp)
    BY <1>0, <1>7 DEF CallsNext, Wired
  <2> QED BY <1>7, <2>1, <2>2, <2>3 DEF CallsNext, Handling, HandlerCalls
<1>8. ASSUME TakesSlot(w), alive[w]
      PROVE  /\ activeCount' = [activeCount EXCEPT ![w] = @ + 1]
             /\ immediates' = immediates /\ alive' = alive /\ Same
             /\ Sent(w, SlotOp)' = Sent(w, SlotOp) + 1
  BY <1>8 DEF TakesSlot, Wired, FlagsKept, worker, Handling, HandlerCalls
<1>9. ASSUME GivesUp(w), alive[w]
      PROVE  /\ activeCount' = activeCount /\ immediates' \in [Worker -> Nat]
             /\ alive' = alive /\ Same /\ Sent(w, SlotOp)' = Sent(w, SlotOp)
  <2>1. running' = running /\ Sent(w, SlotOp)' = Sent(w, SlotOp)
    BY <1>0, <1>9 DEF GivesUp, Wired
  <2> QED BY <1>3, <1>9, <2>1 DEF GivesUp, FlagsKept, worker, Handling, HandlerCalls
<1>10. ASSUME CallsHandler(w), alive[w]
       PROVE  /\ activeCount' = activeCount /\ immediates' = immediates
              /\ alive' = alive /\ Handling(w)' = Handling(w) + 1
              /\ Sent(w, SlotOp)' = Sent(w, SlotOp) + -1
  BY <1>10, HandlingMoves DEF CallsHandler, Wired, FlagsKept, worker, slots
<1>11. ASSUME HandlerEnds(w), alive[w]
       PROVE  /\ activeCount' = activeCount /\ immediates' = immediates
              /\ alive' = alive /\ Handling(w) = Handling(w)' + 1
              /\ Sent(w, SlotOp)' = Sent(w, SlotOp) + 1
  BY <1>11, HandlingMoves DEF HandlerEnds, Wired, FlagsKept, worker, slots
<1>12. ASSUME GivesSlotBack(w), alive[w]
       PROVE  /\ activeCount' = [activeCount EXCEPT ![w] = @ - 1]
              /\ immediates' \in [Worker -> Nat]
              /\ alive' = alive /\ Same
              /\ Sent(w, SlotOp)' = Sent(w, SlotOp) + -1
  <2>1. running' = running /\ Reschedule(w)
        /\ activeCount' = [activeCount EXCEPT ![w] = @ - 1]
    BY <1>12 DEF GivesSlotBack, LeaveSlot
  <2> QED BY <1>3, <1>12, <2>1
          DEF GivesSlotBack, Wired, FlagsKept, worker, Handling, HandlerCalls
<1>13. CASE alive[w] /\ ~Dies(w) /\ ~IsDead(w)
  <2>1. alive' = alive /\ immediates' \in [Worker -> Nat]
    BY <1>0, <1>6, <1>7, <1>8, <1>9, <1>10, <1>11, <1>12, <1>13 DEF Effect
  <2>2. Handling(w)' \in Nat
    <3>1. /\ running' \in [Worker -> [Task -> Nat]]
          /\ IsFiniteSet(CallsOf(running'[w]))
          /\ Handling(w)' = Cardinality(CallsOf(running'[w]))
      BY <1>0, HandlingMoves, HandlingIs DEF Meters, Metered
    <3> QED BY <3>1, FS_CardinalityType
  <2>3. /\ activeCount' \in [Worker -> Nat]
        /\ activeCount'[w] = Handling(w)' + Sent(w, SlotOp)'
    <3>1. CASE \/ \E adds \in {-1, 0, 1} : Quiet(w, adds)
               \/ CallsNext(w) \/ GivesUp(w)
      BY <1>0, <1>6, <1>7, <1>9, <1>13, <3>1
    <3>2. CASE TakesSlot(w)
      BY <1>0, <1>8, <1>13, <3>2
    <3>3. CASE CallsHandler(w)
      <4>1. activeCount' = activeCount
        BY <1>10, <1>13, <3>3
      <4>2. activeCount'[w] = Handling(w)' + Sent(w, SlotOp)'
        BY <1>0, <1>10, <1>13, <3>3
      <4> QED BY <1>0, <4>1, <4>2
    <3>4. CASE HandlerEnds(w)
      <4>1. activeCount' = activeCount
        BY <1>11, <1>13, <3>4
      <4>2. activeCount'[w] = Handling(w)' + Sent(w, SlotOp)'
        BY <1>0, <1>11, <1>13, <2>2, <3>4
      <4> QED BY <1>0, <4>1, <4>2
    <3>5. CASE GivesSlotBack(w)
      <4>1. Sent(w, SlotOp) >= 1 /\ activeCount[w] - 1 \in Nat
        BY <1>0, <1>2, <1>12, <1>13, <3>5
      <4>2. activeCount' = [activeCount EXCEPT ![w] = @ - 1]
        BY <1>12, <1>13, <3>5
      <4>3. activeCount' \in [Worker -> Nat] /\ activeCount'[w] = activeCount[w] - 1
        BY <1>0, <4>1, <4>2
      <4> QED BY <1>0, <1>12, <1>13, <3>5, <4>1, <4>3
    <3> QED BY <1>13, <3>1, <3>2, <3>3, <3>4, <3>5 DEF Effect
  <2> QED BY <1>1, <1>13, <2>1, <2>3
<1> QED BY <1>4, <1>5, <1>13 DEF Effect

------------------------------------------------------------------------------
(* Types of what the server keeps and of the flags and histories.          *)

Data ==
  /\ snapshot \in [Worker -> SUBSET Task]
  /\ faults \in Nat
  /\ fate \in [Task -> Fate]
  /\ starts \in [Task -> 0 .. MaxStarts]
  /\ unseen \in [Worker -> SUBSET Task]

(* A command leaves the server's data typed.                               *)
LEMMA ServerTyped ==
  ASSUME Types, Data, NEW w \in Worker, NEW m \in Wire
  PROVE  /\ StoreAfter(w, m) \in [Place -> SUBSET Task]
         /\ FateAfter(m) \in [Task -> Fate]
         /\ UnseenAfter(w, m) \in [Worker -> SUBSET Task]
<1>1. /\ m.op \in ChainOp \cup CallOp /\ m.place \in Place
      /\ m.op \in TaskOp => m.task \in Task
      /\ Stores /\ snapshot[w] \subseteq Task
  BY DEF Wire, Command, Types, Data
<1>2. StoreAfter(w, m) \in [Place -> SUBSET Task]
  <2>1. CASE m.op \in {"add", "requeue", "bury"}
    <3>1. StoreAfter(w, m) = With(m.place, m.task) /\ m.task \in Task
      BY <1>1, <2>1 DEF StoreAfter, TaskOp
    <3> QED BY <1>1, <3>1 DEF With, Stores
  <2>2. CASE m.op = "move"
    <3>1. /\ m.task \in Task
          /\ StoreAfter(w, m) = [store EXCEPT !["queue"] = @ \ {m.task},
                                              !["processing"] = @ \cup {m.task}]
      BY <1>1, <2>2 DEF StoreAfter, TaskOp
    <3> QED BY <1>1, <3>1, ZenonT(60) DEF Stores
  <2>3. CASE m.op \in {"ack", "clean", "take"}
    <3>1. StoreAfter(w, m) = Without(m.place, m.task)
      BY <1>1, <2>3 DEF StoreAfter
    <3> QED BY <1>1, <3>1 DEF Without, Stores
  <2>4. CASE m.op = "wipe"
    <3>1. StoreAfter(w, m) = [store EXCEPT ![m.place] = {}]
      BY <1>1, <2>4 DEF StoreAfter
    <3> QED BY <1>1, <3>1 DEF Stores
  <2>5. CASE m.op = "restore"
    <3>1. StoreAfter(w, m) = [store EXCEPT !["queue"] = @ \cup snapshot[w],
                                           !["processing"] = {}]
      BY <1>1, <2>5 DEF StoreAfter
    <3> QED BY <1>1, <3>1 DEF Stores
  <2>6. CASE m.op \in {"poll", "find", "count", "list"}
    <3>1. StoreAfter(w, m) = store
      BY <1>1, <2>6 DEF StoreAfter
    <3> QED BY <1>1, <3>1 DEF Stores
  <2> QED BY <1>1, <2>1, <2>2, <2>3, <2>4, <2>5, <2>6
          DEF ChainOp, CallOp, SearchOp
<1>3. FateAfter(m) \in [Task -> Fate]
  <2>1. \A S, f : f \in Fate => Settled(S, f) \in [Task -> Fate]
    BY DEF Settled, Data
  <2>2. {"open", "completed", "failed", "dropped"} \subseteq Fate
    BY DEF Fate
  <2>3. FateAfter(m) \in {fate, [fate EXCEPT ![m.task] = "open"]} \cup
          {Settled(S, f) : S \in SUBSET Task, f \in {"completed", "failed", "dropped"}}
    <3>1. CASE m.op \in {"ack", "bury", "take"}
      BY <1>1, <3>1 DEF FateAfter, TaskOp
    <3>2. CASE m.op = "wipe"
      BY <1>1, <3>2 DEF FateAfter, Stores
    <3>3. CASE m.op \notin {"ack", "bury", "take", "wipe"}
      BY <3>3 DEF FateAfter
    <3> QED BY <3>1, <3>2, <3>3
  <2> QED BY <2>1, <2>2, <2>3 DEF Data
<1>4. UnseenAfter(w, m) \in [Worker -> SUBSET Task]
  BY DEF UnseenAfter, Data
<1> QED BY <1>2, <1>3, <1>4

(* What the head of a worker's connection makes of the data.               *)
LEMMA HeadTyped ==
  ASSUME Types, Data, NEW w \in Worker, wire[w] # <<>>
  PROVE  LET m == Head(wire[w]) IN
         /\ m \in Wire
         /\ StoreAfter(w, m) \in [Place -> SUBSET Task]
         /\ FateAfter(m) \in [Task -> Fate]
         /\ UnseenAfter(w, m) \in [Worker -> SUBSET Task]
<1>1. Head(wire[w]) \in Wire
  BY HeadTailProperties DEF Types, Wires
<1> QED BY <1>1, ServerTyped

(* A step keeps the data typed.                                            *)
LEMMA DataTyped ==
  ASSUME Types, Data, Next
  PROVE  Data' /\ Stores'
<1>1. PICK w \in Worker :
        \/ ClientCall(w)
        \/ Serve(w)
        \/ RunImmediate(w)
        \/ \E t \in Task : HandlerSettles(w, t)
        \/ Fail(w)
  BY DEF Next
<1>0. /\ Stores /\ MaxStarts \in Nat
      /\ "sent" \in Fate /\ "open" \in Fate
  BY RedisAssumption DEF Types, Fate
<1>2. CASE ClientCall(w)
  <2>1. ASSUME NEW t \in Task, Add(w, t) PROVE Data' /\ Stores'
    BY <1>0, <2>1 DEF Add, Data, Stores, tasks
  <2>2. ASSUME NEW cmds, NEW sought \in SUBSET Task, Looks(w, cmds, sought)
        PROVE  Data' /\ Stores'
    BY <1>0, <2>2 DEF Looks, Data, Stores, tasks
  <2>3. ASSUME \/ Process(w) \/ Resume(w) \/ Pause(w) \/ Shutdown(w) \/ Clear(w)
        PROVE  Data' /\ Stores'
    BY <1>0, <2>3 DEF Process, Resume, Pause, Shutdown, Clear, Data, Stores,
                      server, tasks
  <2> QED BY <1>2, <2>1, <2>2, <2>3 DEF ClientCall, RemoveTask, GetTasks, GetStatus
<1>3. CASE Serve(w)
  <2>1. wire[w] # <<>> /\ \E cmds : Answer(w, cmds)
    BY <1>3 DEF Serve, AddReply, FindReply, LastReply, ListReply, RestoreReply,
                PollFinds, PollFindsNothing, MoveReply, MoveReplyLost,
                RequeueOrBuryReply, AckOrCleanReply, Served
  <2>2. /\ store' \in [Place -> SUBSET Task]
        /\ fate' \in [Task -> Fate]
        /\ unseen' \in [Worker -> SUBSET Task]
    BY <2>1, HeadTyped DEF Answer, Executes
  <2>3. faults' = faults
    BY <1>3 DEF Serve, AddReply, FindReply, LastReply, ListReply, RestoreReply,
                PollFinds, PollFindsNothing, MoveReply, MoveReplyLost,
                RequeueOrBuryReply, AckOrCleanReply
  <2>4. snapshot' \in [Worker -> SUBSET Task]
    <3>1. snapshot' = snapshot
          \/ \E S \in SUBSET Task : snapshot' = [snapshot EXCEPT ![w] = S]
      <4>1. store["processing"] \in SUBSET Task /\ {} \in SUBSET Task
        BY <1>0 DEF Stores, Place
      <4> QED BY <1>3, <4>1
              DEF Serve, AddReply, FindReply, LastReply, ListReply, RestoreReply,
                  PollFinds, PollFindsNothing, MoveReply, MoveReplyLost,
                  RequeueOrBuryReply, AckOrCleanReply
    <3> QED BY <3>1 DEF Data
  <2>5. starts' \in [Task -> 0 .. MaxStarts]
    <3>1. starts' = starts \/ \E t : starts' = [starts EXCEPT ![t] = Count(@)]
      BY <1>3 DEF Serve, AddReply, FindReply, LastReply, ListReply, RestoreReply,
                  PollFinds, PollFindsNothing, MoveReply, MoveReplyLost,
                  RequeueOrBuryReply, AckOrCleanReply, tasks
    <3>2. \A n \in 0 .. MaxStarts : Count(n) \in 0 .. MaxStarts
      BY <1>0 DEF Count
    <3>3. starts \in [Task -> 0 .. MaxStarts]
      BY DEF Data
    <3> QED BY <3>1, <3>2, <3>3
  <2> QED BY <2>2, <2>3, <2>4, <2>5 DEF Data, Stores
<1>4. CASE RunImmediate(w) \/ \E t \in Task : HandlerSettles(w, t)
  BY <1>0, <1>4 DEF RunImmediate, HandlerSettles, HandlerResolves, HandlerRejects,
                    Data, Stores, server, tasks
<1>5. CASE Fail(w)
  <2>1. ASSUME CommandFails(w) PROVE Data' /\ Stores'
    <3> DEFINE m == Head(wire[w])
    <3>1. /\ StoreAfter(w, m) \in [Place -> SUBSET Task]
          /\ FateAfter(m) \in [Task -> Fate]
          /\ UnseenAfter(w, m) \in [Worker -> SUBSET Task]
      BY <2>1, HeadTyped DEF CommandFails
    <3>2. /\ faults' = faults + 1 /\ UNCHANGED <<tasks, snapshot>>
          /\ store' \in {store, StoreAfter(w, m)}
          /\ fate' \in {fate, FateAfter(m)}
          /\ \E u \in {unseen, UnseenAfter(w, m)} :
               unseen' \in {u, [u EXCEPT ![w] = {}]}
      BY <2>1 DEF CommandFails
    <3> HIDE DEF m
    <3>3. unseen' \in [Worker -> SUBSET Task]
      BY <3>1, <3>2 DEF Data
    <3> QED BY <1>0, <3>1, <3>2, <3>3 DEF Data, Stores, tasks
  <2>2. ASSUME Crash(w) PROVE Data' /\ Stores'
    BY <1>0, <2>2 DEF Crash, Data, Stores
  <2>3. ASSUME ServeCrashed(w) PROVE Data' /\ Stores'
    BY <1>0, <2>3, HeadTyped DEF ServeCrashed, Executes, Data, Stores, tasks
  <2>4. ASSUME Disconnect(w) PROVE Data' /\ Stores'
    BY <1>0, <2>4 DEF Disconnect, Data, Stores, server, tasks
  <2> QED BY <1>5, <2>1, <2>2, <2>3, <2>4 DEF Fail
<1> QED BY <1>1, <1>2, <1>3, <1>4, <1>5

(* A step keeps the flags flags.                                           *)
LEMMA FlagsTyped ==
  ASSUME Types, Next
  PROVE  /\ alive' \in [Worker -> BOOLEAN]
         /\ isPaused' \in [Worker -> BOOLEAN]
         /\ isShutdown' \in [Worker -> BOOLEAN]
         /\ handler' \in [Worker -> BOOLEAN]
<1>1. PICK w \in Worker :
        \/ ClientCall(w)
        \/ Serve(w)
        \/ RunImmediate(w)
        \/ \E t \in Task : HandlerSettles(w, t)
        \/ Fail(w)
  BY DEF Next
<1>2. CASE ClientCall(w)
  BY <1>2 DEF Types, ClientCall, Add, Process, Pause, Resume, Shutdown,
              RemoveTask, GetTasks, GetStatus, Looks, Clear, worker
<1>3. CASE Serve(w)
  BY <1>3 DEF Types, Serve, AddReply, FindReply, LastReply, ListReply,
              RestoreReply, PollFinds, PollFindsNothing, MoveReply,
              MoveReplyLost, RequeueOrBuryReply, AckOrCleanReply, worker
<1>4. CASE RunImmediate(w) \/ \E t \in Task : HandlerSettles(w, t)
  BY <1>4 DEF Types, RunImmediate, HandlerSettles, HandlerResolves,
              HandlerRejects, worker
<1>5. CASE Fail(w)
  BY <1>5 DEF Types, Fail, CommandFails, Crash, ServeCrashed, Disconnect, worker
<1> QED BY <1>1, <1>2, <1>3, <1>4, <1>5

------------------------------------------------------------------------------
(* The meters are an invariant.                                            *)

MInv == Meters /\ Data

(* They hold at first.                                                     *)
LEMMA MetersInit == Init => MInv
<1> SUFFICES ASSUME Init PROVE MInv
  OBVIOUS
<1>1. Wires /\ Stores
  <2>1. <<>> \in Seq(Wire)
    OBVIOUS
  <2> QED BY <2>1 DEF Init, Wires, Stores
<1>2. Types
  BY <1>1 DEF Init, Types
<1>3. DeadIdle
  BY DEF Init, DeadIdle
<1>4. Metered
  <2> SUFFICES ASSUME NEW w \in Worker
               PROVE  /\ IsFiniteSet(CallsOf(running[w]))
                      /\ activeCount[w] = Handling(w) + Sent(w, SlotOp)
    BY DEF Metered
  <2>1. CallsOf(running[w]) = {}
    <3>1. running[w] = [t \in Task |-> 0]
      BY DEF Init
    <3> QED BY <3>1, CallsNone
  <2>2. IsFiniteSet(CallsOf(running[w])) /\ Handling(w) = 0
    BY <2>1, FS_EmptySet DEF Handling, HandlerCalls, CallsOf
  <2>3. Sent(w, SlotOp) = 0
    <3>1. wire[w] = <<>>
      BY DEF Init
    <3> QED BY <3>1, NoCommand DEF Sent, CountIn
  <2>4. activeCount[w] = 0
    BY DEF Init
  <2> QED BY <2>2, <2>3, <2>4
<1>5. Data
  BY RedisAssumption DEF Init, Data, Fate
<1> QED BY <1>2, <1>3, <1>4, <1>5 DEF MInv, Meters

(* Every step keeps them.                                                  *)
LEMMA MetersNext == MInv /\ [Next]_vars => MInv'
<1> SUFFICES ASSUME MInv, [Next]_vars PROVE MInv'
  OBVIOUS
<1>0. Meters /\ Types /\ DeadIdle /\ Data
  BY DEF MInv, Meters
<1>1. CASE Next
  <2>1. PICK w \in Worker : Effect(w) /\ OthersKept(w)
    BY <1>0, <1>1, NextEffect
  <2>2. /\ Wires' /\ activeCount' \in [Worker -> Nat]
        /\ immediates' \in [Worker -> Nat]
        /\ alive'[w] => activeCount'[w] = Handling(w)' + Sent(w, SlotOp)'
        /\ ~alive'[w] => immediates'[w] = 0 /\ \A t \in Task : running'[w][t] = 0
    BY <1>0, <2>1, MetersMove
  <2>3. running' \in [Worker -> [Task -> Nat]] /\ IsFiniteSet(CallsOf(running'[w]))
    BY <1>0, <2>1, HandlingMoves
  <2>4. Types' /\ Data'
    BY <1>0, <1>1, <2>2, <2>3, DataTyped, FlagsTyped DEF Types
  <2>5. ASSUME NEW v \in Worker \ {w}
        PROVE  /\ IsFiniteSet(CallsOf(running'[v]))
               /\ alive'[v] => activeCount'[v] = Handling(v)' + Sent(v, SlotOp)'
               /\ ~alive'[v] => immediates'[v] = 0
                                /\ \A t \in Task : running'[v][t] = 0
    BY <1>0, <2>1, OthersMetered
  <2>6. DeadIdle'
    BY <2>2, <2>5 DEF DeadIdle
  <2>7. Metered'
    <3> SUFFICES ASSUME NEW v \in Worker
                 PROVE  /\ IsFiniteSet(CallsOf(running[v]))'
                        /\ (alive[v] => activeCount[v] = Handling(v) + Sent(v, SlotOp))'
      BY DEF Metered
    <3>1. CASE v = w
      BY <2>2, <2>3, <3>1 DEF CallsOf
    <3>2. CASE v # w
      BY <2>5, <3>2 DEF CallsOf
    <3> QED BY <3>1, <3>2
  <2> QED BY <2>4, <2>6, <2>7 DEF MInv, Meters
<1>2. CASE UNCHANGED vars
  <2>1. UNCHANGED <<store, fate, unseen, wire, alive, isPaused, isShutdown, handler,
                    activeCount, immediates, running, starts, snapshot, faults>>
    BY <1>2 DEF vars, server, worker, slots, tasks
  <2>2. Types' /\ Data' /\ DeadIdle'
    BY <1>0, <2>1 DEF Types, Wires, Stores, Data, DeadIdle
  <2>3. Metered'
    <3> SUFFICES ASSUME NEW v \in Worker
                 PROVE  /\ IsFiniteSet(CallsOf(running[v]))'
                        /\ (alive[v] => activeCount[v] = Handling(v) + Sent(v, SlotOp))'
      BY DEF Metered
    <3>1. Handling(v)' = Handling(v) /\ Sent(v, SlotOp)' = Sent(v, SlotOp)
      BY <2>1 DEF Handling, HandlerCalls, Sent
    <3> QED BY <1>0, <2>1, <3>1 DEF Meters, Metered, CallsOf
  <2> QED BY <2>2, <2>3 DEF MInv, Meters
<1> QED BY <1>1, <1>2

(* The meters agree at every moment.                                       *)
THEOREM MetersInvariance == Spec => []MInv
BY MetersInit, MetersNext, PTL DEF Spec

(* Every variable keeps its type.                                          *)
THEOREM TypeInvariance == Spec => []TypeOK
<1>1. MInv => TypeOK
  <2> SUFFICES ASSUME MInv PROVE TypeOK
    OBVIOUS
  <2>1. Types /\ Data
    BY DEF MInv, Meters
  <2>2. wire \in [Worker -> Seq(Command)]
    <3>1. Seq(Wire) \subseteq Seq(Command)
      BY SeqMonotonic DEF Wire
    <3> QED BY <2>1, <3>1 DEF Types, Wires
  <2> QED BY <2>1, <2>2 DEF TypeOK, Types, Data, Stores
<1> QED BY <1>1, MetersInvariance, PTL

(* activeCount never drifts: the counter that processNext compares with the*)
(* concurrency is exactly the number of handler calls and of commands of   *)
(* calls that hold a slot, whatever commands fail or are answered late.    *)
THEOREM SlotsNeverDrift == Spec => []SlotsAccounted
<1>1. MInv => SlotsAccounted
  BY DEF MInv, Meters, Metered, SlotsAccounted
<1> QED BY <1>1, MetersInvariance, PTL

------------------------------------------------------------------------------
(* Polling goes on.                                                        *)

(* Commands of two kinds count apart.                                      *)
LEMMA CountSplit ==
  ASSUME NEW s \in Seq(Wire), NEW as, NEW bs, as \cap bs = {}
  PROVE  CountIn(s, as \cup bs) = CountIn(s, as) + CountIn(s, bs)
<1> DEFINE A == {i \in DOMAIN s : s[i].op \in as}
           B == {i \in DOMAIN s : s[i].op \in bs}
<1>1. IsFiniteSet(A) /\ IsFiniteSet(B)
  <2>1. Len(s) \in Nat /\ DOMAIN s = 1 .. Len(s)
    BY LenProperties
  <2> QED BY <2>1, CountType
<1>2. {i \in DOMAIN s : s[i].op \in as \cup bs} = A \cup B
  OBVIOUS
<1>3. A \cap B = {}
  OBVIOUS
<1> HIDE DEF A, B
<1>4. Cardinality(A) \in Nat /\ Cardinality(B) \in Nat
  BY <1>1, FS_CardinalityType
<1>5. Cardinality(A \cup B) = Cardinality(A) + Cardinality(B) - Cardinality(A \cap B)
  BY <1>1, FS_Union
<1>6. Cardinality(A \cap B) = 0
  BY <1>3, FS_EmptySet
<1>7. Cardinality(A \cup B) = Cardinality(A) + Cardinality(B)
  BY <1>4, <1>5, <1>6
<1>8. /\ CountIn(s, as) = Cardinality(A)
      /\ CountIn(s, bs) = Cardinality(B)
      /\ CountIn(s, as \cup bs) = Cardinality(A \cup B)
  BY <1>2 DEF CountIn, A, B
<1> QED BY <1>7, <1>8

(* A chain is a poll or holds a slot.                                      *)
LEMMA ChainsAre ==
  ASSUME NEW s \in Seq(Wire)
  PROVE  CountIn(s, ChainOp) = CountIn(s, {"poll"}) + CountIn(s, SlotOp)
<1>1. ChainOp = {"poll"} \cup SlotOp /\ {"poll"} \cap SlotOp = {}
  BY DEF ChainOp, SlotOp
<1> QED BY <1>1, CountSplit

(* The calls under way, meter by meter.                                    *)
LEMMA ChainsMeters ==
  ASSUME Wires, Wires', NEW w \in Worker
  PROVE  /\ Chains(w) = immediates[w] + Handling(w) +
                          (Sent(w, {"poll"}) + Sent(w, SlotOp))
         /\ Chains(w)' = immediates'[w] + Handling(w)' +
                          (Sent(w, {"poll"})' + Sent(w, SlotOp)')
         /\ Sent(w, {"poll"}) \in Nat /\ Sent(w, {"poll"})' \in Nat
         /\ Sent(w, SlotOp) \in Nat /\ Sent(w, SlotOp)' \in Nat
         /\ Sent(w, {"add"}) \in Nat /\ Sent(w, {"add"})' \in Nat
<1>1. wire[w] \in Seq(Wire) /\ wire'[w] \in Seq(Wire)
  BY DEF Wires
<1>2. \A ops : CountIn(wire[w], ops) \in Nat /\ CountIn(wire'[w], ops) \in Nat
  BY <1>1, CountType, LenProperties
<1>3. \A ops : /\ Sent(w, ops) = CountIn(wire[w], ops)
               /\ Sent(w, ops)' = CountIn(wire'[w], ops)
  BY DEF Sent, CountIn
<1>4. /\ CountIn(wire[w], ChainOp) =
           CountIn(wire[w], {"poll"}) + CountIn(wire[w], SlotOp)
      /\ CountIn(wire'[w], ChainOp) =
           CountIn(wire'[w], {"poll"}) + CountIn(wire'[w], SlotOp)
  BY <1>1, ChainsAre
<1>5. Sent(w, ChainOp)' = CountIn(wire'[w], ChainOp)
  BY <1>3
<1> QED BY <1>2, <1>3, <1>4, <1>5 DEF Chains

Going(w) == alive[w] /\ handler[w] /\ ~isPaused[w] /\ ~isShutdown[w]

(* What a step of w does to a worker that is to keep polling: either it    *)
(* kept polling before and all goes on as it did, or something of it is    *)
(* left that will poll again.                                              *)
LEMMA GoingOn ==
  ASSUME Concurrency > 0, MInv, MInv', NEW w \in Worker, Effect(w),
         Going(w) => Chains(w) > 0, Going(w)'
  PROVE  Chains(w)' > 0
<1>0. /\ Meters /\ Types /\ Wires /\ Handling(w) \in Nat
      /\ alive[w] => activeCount[w] = Handling(w) + Sent(w, SlotOp)
      /\ immediates[w] \in Nat /\ activeCount[w] \in Nat
      /\ immediates \in [Worker -> Nat]
      /\ Concurrency \in Nat
  BY HandlingIs, RedisAssumption DEF MInv, Meters, Types, Metered
<1>1. Wires' /\ immediates'[w] \in Nat /\ Handling(w)' \in Nat
  <2>1. IsFiniteSet(CallsOf(running[w])) /\ IsFiniteSet(CallsOf(running'[w]))
    BY <1>0, HandlingMoves DEF Meters, Metered
  <2>2. Handling(w)' = Cardinality(CallsOf(running'[w]))
    BY <1>0, <2>1, HandlingIs
  <2> QED BY <2>1, <2>2, FS_CardinalityType DEF MInv, Meters, Types
<1>2. /\ Chains(w) = immediates[w] + Handling(w) +
                          (Sent(w, {"poll"}) + Sent(w, SlotOp))
      /\ Chains(w)' = immediates'[w] + Handling(w)' +
                          (Sent(w, {"poll"})' + Sent(w, SlotOp)')
      /\ Sent(w, {"poll"}) \in Nat /\ Sent(w, {"poll"})' \in Nat
      /\ Sent(w, SlotOp) \in Nat /\ Sent(w, SlotOp)' \in Nat
  BY <1>0, <1>1, ChainsMeters
<1>3. ASSUME \/ immediates'[w] > 0 \/ Handling(w)' > 0
             \/ Sent(w, {"poll"})' > 0 \/ Sent(w, SlotOp)' > 0
      PROVE  Chains(w)' > 0
  BY <1>1, <1>2, <1>3
<1>4. CASE Dies(w)
  BY <1>0, <1>4 DEF Dies, Going, Types
<1>5. CASE IsDead(w)
  BY <1>5 DEF IsDead, Going, FlagsKept, worker
<1>6. ASSUME NEW adds \in {-1, 0, 1}, Quiet(w, adds) PROVE Chains(w)' > 0
  <2>1. Going(w)
    BY <1>6 DEF Quiet, Going
  <2>2. /\ immediates'[w] = immediates[w]
        /\ Handling(w)' = Handling(w)
        /\ Sent(w, {"poll"})' = Sent(w, {"poll"})
        /\ Sent(w, SlotOp)' = Sent(w, SlotOp)
    BY <1>2, <1>6 DEF Quiet, Wired, slots, Handling, HandlerCalls
  <2> QED BY <1>2, <2>1, <2>2
<1>7. ASSUME alive[w], CallsNext(w) PROVE Chains(w)' > 0
  <2>1. /\ Sent(w, {"poll"})' = Sent(w, {"poll"}) + NextPoll(w)
        /\ Sent(w, SlotOp)' = Sent(w, SlotOp)
        /\ Handling(w)' = Handling(w)
    BY <1>2, <1>7 DEF CallsNext, Wired, Handling, HandlerCalls
  <2>2. CASE ShouldSkipProcessing(w)
    <3>1. activeCount[w] > 0
      BY <1>0, <2>2 DEF ShouldSkipProcessing, Going
    <3> QED BY <1>0, <1>1, <1>2, <1>3, <1>7, <2>1, <3>1
  <2>3. CASE ~ShouldSkipProcessing(w)
    BY <1>2, <1>3, <2>1, <2>3 DEF NextPoll
  <2> QED BY <2>2, <2>3
<1>8. ASSUME TakesSlot(w) \/ HandlerEnds(w) PROVE Chains(w)' > 0
  BY <1>2, <1>3, <1>8 DEF TakesSlot, HandlerEnds, Wired
<1>9. ASSUME CallsHandler(w) PROVE Chains(w)' > 0
  <2>1. Handling(w)' = Handling(w) + 1
    BY <1>0, <1>9, HandlingMoves
  <2> QED BY <1>0, <1>3, <2>1
<1>10. ASSUME GivesUp(w) \/ GivesSlotBack(w) PROVE Chains(w)' > 0
  <2>1. Reschedule(w) /\ ~isPaused[w] /\ ~isShutdown[w]
    BY <1>10 DEF GivesUp, GivesSlotBack, LeaveSlot, FlagsKept, worker, Going
  <2>2. immediates'[w] = immediates[w] + 1
    BY <1>0, <2>1 DEF Reschedule
  <2> QED BY <1>0, <1>3, <2>2
<1> QED BY <1>4, <1>5, <1>6, <1>7, <1>8, <1>9, <1>10 DEF Effect

(* A worker that may consume never runs out of calls that poll: for any    *)
(* number of slots, whatever pauses, failures and full slots it meets.     *)
THEOREM PollingNeverStops ==
  ASSUME Concurrency > 0
  PROVE  Spec => []PollingGoesOn
<1>1. Init => PollingGoesOn
  BY DEF Init, PollingGoesOn
<1>2. MInv /\ MInv' /\ PollingGoesOn /\ [Next]_vars => PollingGoesOn'
  <2> SUFFICES ASSUME MInv, MInv', PollingGoesOn, [Next]_vars,
                      NEW v \in Worker, Going(v)'
               PROVE  Chains(v)' > 0
    BY DEF PollingGoesOn, Going
  <2>0. Going(v) => Chains(v) > 0
    BY DEF PollingGoesOn, Going
  <2>1. CASE Next
    <3>1. PICK w \in Worker : Effect(w) /\ OthersKept(w)
      BY <2>1, NextEffect DEF MInv, Meters
    <3>2. CASE v = w
      BY <2>0, <3>1, <3>2, GoingOn
    <3>3. CASE v # w
      <4>1. /\ Handling(v)' = Handling(v)
            /\ \A ops : Sent(v, ops)' = Sent(v, ops)
        BY <3>1, <3>3, OthersMetered DEF MInv
      <4>2. /\ immediates'[v] = immediates[v] /\ alive'[v] = alive[v]
            /\ handler'[v] = handler[v] /\ isPaused'[v] = isPaused[v]
            /\ isShutdown'[v] = isShutdown[v]
        BY <3>1, <3>3 DEF OthersKept
      <4>3. Sent(v, ChainOp)' = Sent(v, ChainOp)
        BY <4>1
      <4> QED BY <2>0, <4>1, <4>2, <4>3 DEF Going, Chains
    <3> QED BY <3>2, <3>3
  <2>2. CASE UNCHANGED vars
    BY <2>0, <2>2 DEF Going, Chains, Handling, HandlerCalls, Sent,
                      vars, worker, slots, tasks
  <2> QED BY <2>1, <2>2
<1> QED BY <1>1, <1>2, MetersInvariance, PTL DEF Spec

------------------------------------------------------------------------------
(* A single call of processNext in each worker.                            *)

(* What a step of w does to the number of its calls, if nothing resumes it *)
(* and, while it consumes, it adds nothing: only process, a callback and   *)
(* the reply to an addition call processNext.                              *)
LEMMA LoneMove ==
  ASSUME "resume" \notin Calls, MInv, MInv', NEW w \in Worker, Effect(w),
         Chains(w) <= 1, ~handler[w] => Chains(w) = 0,
         Sent(w, {"add"}) > 0 => w \in Producers,
         w \in Producers => ~handler[w]
  PROVE  /\ Chains(w)' <= 1
         /\ Sent(w, {"add"})' > 0 => w \in Producers
<1>0. /\ Meters /\ Types /\ Wires /\ Wires'
      /\ immediates[w] \in Nat /\ immediates'[w] \in Nat
      /\ immediates \in [Worker -> Nat]
      /\ Handling(w) \in Nat
  BY HandlingIs DEF MInv, Meters, Types, Metered
<1>1. Handling(w)' \in Nat
  <2>1. IsFiniteSet(CallsOf(running[w])) /\ IsFiniteSet(CallsOf(running'[w]))
    BY <1>0, HandlingMoves DEF Meters, Metered
  <2>2. Handling(w)' = Cardinality(CallsOf(running'[w]))
    BY <1>0, <2>1, HandlingIs
  <2> QED BY <2>1, <2>2, FS_CardinalityType
<1>2. /\ Chains(w) = immediates[w] + Handling(w) +
                          (Sent(w, {"poll"}) + Sent(w, SlotOp))
      /\ Chains(w)' = immediates'[w] + Handling(w)' +
                          (Sent(w, {"poll"})' + Sent(w, SlotOp)')
      /\ Sent(w, {"poll"}) \in Nat /\ Sent(w, {"poll"})' \in Nat
      /\ Sent(w, SlotOp) \in Nat /\ Sent(w, SlotOp)' \in Nat
      /\ Sent(w, {"add"}) \in Nat /\ Sent(w, {"add"})' \in Nat
  BY <1>0, ChainsMeters
<1>3. /\ Chains(w) \in Nat /\ Chains(w) <= 1
      /\ Sent(w, {"add"}) > 0 => w \in Producers
  BY <1>0, <1>2
<1>4. ASSUME running' = running PROVE Handling(w)' = Handling(w)
  BY <1>4 DEF Handling, HandlerCalls
<1>5. ASSUME Reschedule(w) PROVE immediates'[w] <= immediates[w] + 1
  BY <1>0, <1>5 DEF Reschedule
<1> DEFINE Good == /\ Chains(w)' <= 1
                   /\ Sent(w, {"add"})' > 0 => w \in Producers
<1>6. CASE Dies(w)
  <2>1. Handling(w)' = 0 /\ immediates'[w] = 0
    BY <1>0, <1>6, HandlingMoves DEF Dies
  <2>2. \A ops : Sent(w, ops)' = Sent(w, ops)
    BY <1>6 DEF Dies, Sent
  <2> QED BY <1>0, <1>2, <1>3, <2>1, <2>2
<1>7. CASE IsDead(w)
  <2>1. Handling(w)' = Handling(w) /\ immediates'[w] = immediates[w]
    BY <1>4, <1>7 DEF IsDead, slots
  <2> QED BY <1>0, <1>1, <1>2, <1>3, <1>7, <2>1, SMTT(30) DEF IsDead
<1>8. ASSUME NEW adds \in {-1, 0, 1}, Quiet(w, adds) PROVE Good
  <2>1. /\ Handling(w)' = Handling(w) /\ immediates'[w] = immediates[w]
        /\ Sent(w, {"poll"})' = Sent(w, {"poll"})
        /\ Sent(w, SlotOp)' = Sent(w, SlotOp)
        /\ Sent(w, {"add"})' = Sent(w, {"add"}) + adds
    BY <1>2, <1>4, <1>8 DEF Quiet, Wired, slots
  <2>2. adds = 1 => w \in Producers
    BY <1>8 DEF Quiet
  <2> QED BY <1>0, <1>1, <1>2, <1>3, <2>1, <2>2
<1>9. ASSUME CallsNext(w) PROVE Good
  <2>1. /\ Handling(w)' = Handling(w) /\ NextPoll(w) \in {0, 1}
        /\ Sent(w, {"poll"})' = Sent(w, {"poll"}) + NextPoll(w)
        /\ Sent(w, SlotOp)' = Sent(w, SlotOp)
    BY <1>2, <1>4, <1>9 DEF CallsNext, Wired, NextPoll
  <2>2. CASE ~handler[w] /\ Wired(w, NextPoll(w), 0, 0) /\ immediates' = immediates
    <3>1. Chains(w) = 0 /\ Sent(w, {"add"})' = Sent(w, {"add"})
      BY <1>2, <2>2 DEF Wired
    <3> QED BY <1>0, <1>1, <1>2, <1>3, <2>1, <2>2, <3>1
  <2>3. CASE FlagsKept /\ Wired(w, NextPoll(w), 0, -1) /\ immediates' = immediates
    <3>1. Sent(w, {"add"})' = Sent(w, {"add"}) + -1
      BY <2>3 DEF Wired
    <3>2. w \in Producers
      BY <1>2, <1>3, <3>1
    <3>3. ~handler'[w] /\ NextPoll(w) = 0
      BY <2>3, <3>2 DEF FlagsKept, worker, NextPoll, ShouldSkipProcessing
    <3> QED BY <1>0, <1>1, <1>2, <1>3, <2>1, <2>3, <3>1, <3>2, <3>3
  <2>4. CASE /\ Wired(w, NextPoll(w), 0, 0) /\ immediates[w] > 0
             /\ immediates' = [immediates EXCEPT ![w] = @ - 1]
    <3>1. /\ Sent(w, {"add"})' = Sent(w, {"add"})
          /\ immediates'[w] = immediates[w] - 1
      BY <1>0, <1>2, <2>4 DEF Wired
    <3> QED BY <1>0, <1>1, <1>2, <1>3, <2>1, <3>1
  <2> QED BY <1>9, <2>2, <2>3, <2>4 DEF CallsNext
<1>10. ASSUME TakesSlot(w) PROVE Good
  <2>1. /\ Handling(w)' = Handling(w) /\ immediates'[w] = immediates[w]
        /\ Sent(w, {"poll"})' = Sent(w, {"poll"}) + -1
        /\ Sent(w, SlotOp)' = Sent(w, SlotOp) + 1
        /\ Sent(w, {"add"})' = Sent(w, {"add"})
    BY <1>2, <1>4, <1>10 DEF TakesSlot, Wired
  <2> QED BY <1>0, <1>1, <1>2, <1>3, <2>1
<1>11. ASSUME GivesUp(w) PROVE Good
  <2>1. /\ Handling(w)' = Handling(w)
        /\ immediates'[w] <= immediates[w] + 1
        /\ Sent(w, {"poll"})' = Sent(w, {"poll"}) + -1
        /\ Sent(w, SlotOp)' = Sent(w, SlotOp)
        /\ Sent(w, {"add"})' = Sent(w, {"add"})
    BY <1>2, <1>4, <1>5, <1>11 DEF GivesUp, Wired
  <2> QED BY <1>0, <1>1, <1>2, <1>3, <2>1
<1>12. ASSUME CallsHandler(w) PROVE Good
  <2>1. Handling(w)' = Handling(w) + 1
    BY <1>0, <1>12, HandlingMoves
  <2>2. /\ immediates'[w] = immediates[w]
        /\ Sent(w, {"poll"})' = Sent(w, {"poll"})
        /\ Sent(w, SlotOp)' = Sent(w, SlotOp) + -1
        /\ Sent(w, {"add"})' = Sent(w, {"add"})
    BY <1>2, <1>12 DEF CallsHandler, Wired, slots
  <2> QED BY <1>0, <1>1, <1>2, <1>3, <2>1, <2>2
<1>13. ASSUME HandlerEnds(w) PROVE Good
  <2>1. Handling(w) = Handling(w)' + 1
    BY <1>0, <1>13, HandlingMoves
  <2>2. /\ immediates'[w] = immediates[w]
        /\ Sent(w, {"poll"})' = Sent(w, {"poll"})
        /\ Sent(w, SlotOp)' = Sent(w, SlotOp) + 1
        /\ Sent(w, {"add"})' = Sent(w, {"add"})
    BY <1>2, <1>13 DEF HandlerEnds, Wired, slots
  <2> QED BY <1>0, <1>1, <1>2, <1>3, <2>1, <2>2
<1>14. ASSUME GivesSlotBack(w) PROVE Good
  <2>1. /\ Handling(w)' = Handling(w)
        /\ immediates'[w] <= immediates[w] + 1
        /\ Sent(w, {"poll"})' = Sent(w, {"poll"})
        /\ Sent(w, SlotOp)' = Sent(w, SlotOp) + -1
        /\ Sent(w, {"add"})' = Sent(w, {"add"})
    BY <1>2, <1>4, <1>5, <1>14 DEF GivesSlotBack, LeaveSlot, Wired
  <2> QED BY <1>0, <1>1, <1>2, <1>3, <2>1
<1> QED BY <1>6, <1>7, <1>8, <1>9, <1>10, <1>11, <1>12, <1>13, <1>14 DEF Effect
==============================================================================
