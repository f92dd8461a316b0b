-------------------------- MODULE MemoryQueueProofs --------------------------
(***************************************************************************)
(* Proofs about MemoryQueue, for any tasks, ids, priorities, retry limits, *)
(* calls and concurrency.                                                  *)
(*                                                                         *)
(* The slot counter is right because the executions are told apart by      *)
(* their task and retry count; that is what SingleCopy says, together with *)
(* the fact that a task not yet submitted is nowhere.  Both need to be     *)
(* known of the list and the executions at every point where processNext   *)
(* is called, so the invariant is stated as a predicate of these.          *)
(***************************************************************************)
EXTENDS MemoryQueue, FiniteSetTheorems, SequenceTheorems, TLAPS

(* SingleCopy of a list q and executions fs.                               *)
Apart(q, fs) ==
  /\ \A i, j \in DOMAIN q : q[i].task = q[j].task => i = j
  /\ \A i \in DOMAIN q, f \in fs : f.task = q[i].task =>
       ~Live(f) /\ f.retryCount < q[i].retryCount
  /\ \A f, g \in fs : f.task = g.task /\ f # g /\ Live(f) =>
       ~Live(g) /\ g.retryCount < f.retryCount

Absent(t, q, fs) ==
  /\ \A i \in DOMAIN q : q[i].task # t
  /\ \A f \in fs : f.task # t

Sound(q, fs, ft) ==
  /\ q \in Seq(Entry)
  /\ fs \subseteq Frame
  /\ IsFiniteSet(fs)
  /\ ft \in [Task -> Fate]
  /\ Apart(q, fs)
  /\ \A t \in Task : ft[t] = "new" => Absent(t, q, fs)

Slots(fs, n) == n = Cardinality(fs) /\ n <= Concurrency

Rest ==
  /\ processing \in [Id -> Task \cup {None}]
  /\ isPaused \in BOOLEAN /\ isShutdown \in BOOLEAN /\ handler \in BOOLEAN
  /\ immediates \in Nat
  /\ crashed \in BOOLEAN

IInv == Sound(tasks, frames, fate) /\ Slots(frames, activeCount) /\ Rest

------------------------------------------------------------------------------
(* The waiting list.                                                       *)

(* Adding an entry puts it behind those ahead of it, and keeps the others  *)
(* in order.                                                               *)
LEMMA EnqueuePlace ==
  ASSUME NEW q \in Seq(Entry), NEW e \in Entry
  PROVE  LET k == Cardinality(Ahead(q, e)) + 1 IN
         /\ k \in 1 .. Len(q) + 1
         /\ Enqueue(q, e) \in Seq(Entry)
         /\ Len(Enqueue(q, e)) = Len(q) + 1
         /\ \A i \in 1 .. Len(q) + 1 :
              Enqueue(q, e)[i] = IF i < k THEN q[i]
                                 ELSE IF i = k THEN e ELSE q[i - 1]
<1> DEFINE c == Cardinality(Ahead(q, e))
           front == SubSeq(q, 1, c)
           back == SubSeq(q, c + 1, Len(q))
<1>1. c \in 0 .. Len(q)
  <2>1. Len(q) \in Nat /\ DOMAIN q = 1 .. Len(q)
    BY LenProperties
  <2>2. IsFiniteSet(1 .. Len(q)) /\ Cardinality(1 .. Len(q)) = Len(q)
    BY <2>1, FS_Interval
  <2>3. Ahead(q, e) \in SUBSET (1 .. Len(q))
    BY <2>1 DEF Ahead
  <2>4. IsFiniteSet(Ahead(q, e)) /\ c <= Len(q)
    BY <2>2, <2>3, FS_Subset
  <2> QED BY <2>1, <2>4, FS_CardinalityType
<1>2. Enqueue(q, e) = front \o <<e>> \o back
  <2>1. (c + 1) - 1 = c
    BY <1>1
  <2> QED BY <2>1 DEF Enqueue, InsertAt
<1> HIDE DEF c
<1>3. /\ front \in Seq(Entry) /\ Len(front) = c
      /\ \A i \in 1 .. c : front[i] = q[i]
      /\ back \in Seq(Entry) /\ Len(back) = Len(q) - c
      /\ \A i \in 1 .. Len(q) - c : back[i] = q[c + i]
  <2>1. /\ Len(q) \in Nat
        /\ \A i \in 1 .. c : q[i] \in Entry
        /\ \A i \in c + 1 .. Len(q) : q[i] \in Entry
    BY <1>1, ElementOfSeq, LenProperties
  <2>2. /\ front \in Seq(Entry)
        /\ Len(front) = IF 1 <= c THEN c - 1 + 1 ELSE 0
        /\ \A i \in 1 .. c - 1 + 1 : front[i] = q[1 + i - 1]
    BY <1>1, <2>1, SubSeqProperties
  <2>3. /\ back \in Seq(Entry)
        /\ Len(back) = IF c + 1 <= Len(q) THEN Len(q) - (c + 1) + 1 ELSE 0
        /\ \A i \in 1 .. Len(q) - (c + 1) + 1 : back[i] = q[c + 1 + i - 1]
    BY <1>1, <2>1, SubSeqProperties
  <2> QED BY <1>1, <2>1, <2>2, <2>3
<1> HIDE DEF front, back
<1> DEFINE head == front \o <<e>>
           whole == head \o back
<1>4. /\ head \in Seq(Entry) /\ Len(head) = c + 1
      /\ \A i \in 1 .. c + 1 : head[i] = IF i <= c THEN q[i] ELSE e
  <2>1. <<e>> \in Seq(Entry) /\ Len(<<e>>) = 1 /\ <<e>>[1] = e
    OBVIOUS
  <2>2. /\ head \in Seq(Entry)
        /\ Len(head) = Len(front) + Len(<<e>>)
        /\ \A i \in 1 .. Len(front) + Len(<<e>>) : head[i] =
             IF i <= Len(front) THEN front[i] ELSE <<e>>[i - Len(front)]
    BY <1>3, <2>1, ConcatProperties
  <2> HIDE DEF head
  <2> QED BY <1>1, <1>3, <2>1, <2>2
<1> HIDE DEF head
<1>5. /\ whole \in Seq(Entry) /\ Len(whole) = Len(q) + 1
      /\ \A i \in 1 .. Len(q) + 1 : whole[i] =
           IF i < c + 1 THEN q[i] ELSE IF i = c + 1 THEN e ELSE q[i - 1]
  <2>1. /\ whole \in Seq(Entry)
        /\ Len(whole) = Len(head) + Len(back)
        /\ \A i \in 1 .. Len(head) + Len(back) : whole[i] =
             IF i <= Len(head) THEN head[i] ELSE back[i - Len(head)]
    BY <1>3, <1>4, ConcatProperties
  <2> HIDE DEF whole
  <2>2. Len(q) \in Nat /\ Len(head) + Len(back) = Len(q) + 1
    BY <1>1, <1>3, <1>4, LenProperties
  <2>3. ASSUME NEW i \in 1 .. Len(q) + 1
        PROVE  whole[i] =
                 IF i < c + 1 THEN q[i] ELSE IF i = c + 1 THEN e ELSE q[i - 1]
    <3>1. CASE i <= c + 1
      BY <1>1, <1>4, <2>1, <2>2, <3>1
    <3>2. CASE i > c + 1
      <4>1. i - (c + 1) \in 1 .. Len(q) - c /\ whole[i] = back[i - (c + 1)]
        BY <1>1, <1>4, <2>1, <2>2, <3>2
      <4>2. back[i - (c + 1)] = q[c + (i - (c + 1))]
        BY <1>3, <4>1
      <4>3. c + (i - (c + 1)) = i - 1
        BY <1>1, <2>2
      <4> QED BY <1>1, <2>2, <3>2, <4>1, <4>2, <4>3
    <3> QED BY <1>1, <2>2, <3>1, <3>2
  <2> QED BY <2>1, <2>2, <2>3
<1>6. Enqueue(q, e) = whole
  BY <1>2 DEF head
<1> HIDE DEF whole
<1>7. c + 1 \in 1 .. Len(q) + 1
  BY <1>1, LenProperties
<1> QED BY <1>5, <1>6, <1>7 DEF c

(* Adding an entry puts it in some place.                                  *)
LEMMA EnqueueShape ==
  ASSUME NEW q \in Seq(Entry), NEW e \in Entry
  PROVE  /\ Enqueue(q, e) \in Seq(Entry)
         /\ Len(Enqueue(q, e)) = Len(q) + 1
         /\ \E k \in 1 .. Len(q) + 1 : \A i \in 1 .. Len(q) + 1 :
              Enqueue(q, e)[i] = IF i < k THEN q[i]
                                 ELSE IF i = k THEN e ELSE q[i - 1]
BY EnqueuePlace

(* Taking the i-th entry out keeps the others in order.                    *)
LEMMA RemoveAtShape ==
  ASSUME NEW q \in Seq(Entry), NEW i \in DOMAIN q
  PROVE  /\ RemoveAt(q, i) \in Seq(Entry)
         /\ Len(RemoveAt(q, i)) = Len(q) - 1
         /\ \A j \in 1 .. Len(q) - 1 :
              RemoveAt(q, i)[j] = IF j < i THEN q[j] ELSE q[j + 1]
<1> DEFINE front == SubSeq(q, 1, i - 1)
           back == SubSeq(q, i + 1, Len(q))
<1>1. Len(q) \in Nat /\ i \in 1 .. Len(q) /\ DOMAIN q = 1 .. Len(q)
  BY LenProperties
<1>2. \A j \in 1 .. Len(q) : q[j] \in Entry
  BY ElementOfSeq
<1>3. /\ front \in Seq(Entry) /\ Len(front) = i - 1
      /\ \A j \in 1 .. i - 1 : front[j] = q[j]
  <2>1. /\ front \in Seq(Entry)
        /\ Len(front) = IF 1 <= i - 1 THEN i - 1 - 1 + 1 ELSE 0
        /\ \A j \in 1 .. i - 1 - 1 + 1 : front[j] = q[1 + j - 1]
    BY <1>1, <1>2, SubSeqProperties
  <2> QED BY <1>1, <2>1
<1>4. /\ back \in Seq(Entry) /\ Len(back) = Len(q) - i
      /\ \A j \in 1 .. Len(q) - i : back[j] = q[i + j]
  <2>1. /\ back \in Seq(Entry)
        /\ Len(back) = IF i + 1 <= Len(q) THEN Len(q) - (i + 1) + 1 ELSE 0
        /\ \A j \in 1 .. Len(q) - (i + 1) + 1 : back[j] = q[i + 1 + j - 1]
    BY <1>1, <1>2, SubSeqProperties
  <2> QED BY <1>1, <2>1
<1> HIDE DEF front, back
<1> DEFINE whole == front \o back
<1>5. /\ whole \in Seq(Entry)
      /\ Len(whole) = Len(front) + Len(back)
      /\ \A j \in 1 .. Len(front) + Len(back) : whole[j] =
           IF j <= Len(front) THEN front[j] ELSE back[j - Len(front)]
  BY <1>3, <1>4, ConcatProperties
<1>6. RemoveAt(q, i) = whole
  BY DEF RemoveAt, front, back
<1> HIDE DEF whole
<1>7. ASSUME NEW j \in 1 .. Len(q) - 1
      PROVE  whole[j] = IF j < i THEN q[j] ELSE q[j + 1]
  <2>1. CASE j < i
    BY <1>1, <1>3, <1>4, <1>5, <2>1
  <2>2. CASE j >= i
    <3>1. j - (i - 1) \in 1 .. Len(q) - i /\ whole[j] = back[j - (i - 1)]
      BY <1>1, <1>3, <1>4, <1>5, <2>2, SMTT(30)
    <3>2. back[j - (i - 1)] = q[i + (j - (i - 1))]
      BY <1>4, <3>1
    <3>3. i + (j - (i - 1)) = j + 1
      BY <1>1
    <3> QED BY <1>1, <2>2, <3>1, <3>2, <3>3
  <2> QED BY <1>1, <2>1, <2>2
<1>8. Len(whole) = Len(q) - 1
  BY <1>1, <1>3, <1>4, <1>5
<1> QED BY <1>5, <1>6, <1>7, <1>8

(* An entry of a task that is not waiting, and whose executions are over   *)
(* and were earlier attempts, may be added.                                *)
LEMMA EnqueueSound ==
  ASSUME NEW q, NEW fs, NEW ft, Sound(q, fs, ft),
         NEW e \in Entry,
         \A i \in DOMAIN q : q[i].task # e.task,
         \A f \in fs : f.task = e.task => ~Live(f) /\ f.retryCount < e.retryCount,
         NEW ft2 \in [Task -> Fate], ft2[e.task] # "new",
         \A t \in Task : ft2[t] = "new" => ft[t] = "new"
  PROVE  Sound(Enqueue(q, e), fs, ft2)
<1> DEFINE r == Enqueue(q, e)
<1>1. q \in Seq(Entry) /\ Len(q) \in Nat /\ DOMAIN q = 1 .. Len(q)
  BY LenProperties DEF Sound
<1>2. /\ r \in Seq(Entry)
      /\ Len(r) = Len(q) + 1
      /\ \E k \in 1 .. Len(q) + 1 : \A i \in 1 .. Len(q) + 1 :
           r[i] = IF i < k THEN q[i] ELSE IF i = k THEN e ELSE q[i - 1]
  BY <1>1, EnqueueShape
<1> HIDE DEF r
<1>3. DOMAIN r = 1 .. Len(q) + 1
  BY <1>2, LenProperties
<1>4. PICK k \in 1 .. Len(q) + 1 : \A i \in 1 .. Len(q) + 1 :
        r[i] = IF i < k THEN q[i] ELSE IF i = k THEN e ELSE q[i - 1]
  BY <1>2
<1> DEFINE old(i) == IF i < k THEN i ELSE i - 1
<1>5. \A i \in DOMAIN r : i # k => old(i) \in DOMAIN q /\ r[i] = q[old(i)]
  BY <1>1, <1>3, <1>4
<1>6. k \in DOMAIN r /\ r[k] = e
  BY <1>1, <1>3, <1>4
<1>7. \A i, j \in DOMAIN r : i # k /\ j # k /\ old(i) = old(j) => i = j
  BY <1>1, <1>3
<1> HIDE DEF old
<1>8. \A i, j \in DOMAIN r : r[i].task = r[j].task => i = j
  <2>1. \A i, j \in DOMAIN q : q[i].task = q[j].task => i = j
    BY DEF Sound, Apart
  <2> QED BY <1>5, <1>6, <1>7, <2>1
<1>9. \A i \in DOMAIN r, f \in fs : f.task = r[i].task =>
        ~Live(f) /\ f.retryCount < r[i].retryCount
  <2>1. \A i \in DOMAIN q, f \in fs : f.task = q[i].task =>
          ~Live(f) /\ f.retryCount < q[i].retryCount
    BY DEF Sound, Apart
  <2> QED BY <1>5, <1>6, <2>1
<1>10. \A t \in Task : ft2[t] = "new" => Absent(t, r, fs)
  <2> SUFFICES ASSUME NEW t \in Task, ft2[t] = "new" PROVE Absent(t, r, fs)
    OBVIOUS
  <2>1. Absent(t, q, fs) /\ t # e.task
    BY DEF Sound
  <2> QED BY <1>5, <1>6, <2>1 DEF Absent
<1> QED BY <1>2, <1>8, <1>9, <1>10 DEF Sound, Apart, r

(* A list whose entries are entries of the old one, in other places, may   *)
(* replace it.                                                             *)
LEMMA SublistSound ==
  ASSUME NEW q, NEW fs, NEW ft, Sound(q, fs, ft),
         NEW r \in Seq(Entry),
         NEW old \in [DOMAIN r -> DOMAIN q],
         \A i \in DOMAIN r : r[i] = q[old[i]],
         \A i, j \in DOMAIN r : old[i] = old[j] => i = j,
         NEW ft2 \in [Task -> Fate],
         \A t \in Task : ft2[t] = "new" => ft[t] = "new"
  PROVE  Sound(r, fs, ft2)
BY DEF Sound, Apart, Absent

(* Executions may end.                                                     *)
LEMMA FewerSound ==
  ASSUME NEW q, NEW fs, NEW ft, Sound(q, fs, ft),
         NEW f, NEW ft2 \in [Task -> Fate],
         \A t \in Task : ft2[t] = "new" => ft[t] = "new"
  PROVE  Sound(q, fs \ {f}, ft2)
<1>1. IsFiniteSet(fs \ {f})
  BY FS_RemoveElement DEF Sound
<1> QED BY <1>1 DEF Sound, Apart, Absent

(* processNext takes the first entry into a new execution.                 *)
LEMMA TakeSound ==
  ASSUME NEW q, NEW fs, NEW ft, Sound(q, fs, ft), q # <<>>,
         NEW caught \in BOOLEAN
  PROVE  LET e == Head(q)
             g == [task |-> e.task, retryCount |-> e.retryCount,
                   phase |-> "handler", caught |-> caught] IN
         /\ e \in Entry
         /\ g \notin fs
         /\ Sound(Tail(q), fs, ft)
         /\ Sound(Tail(q), fs \cup {g}, ft)
<1> DEFINE e == Head(q)
           g == [task |-> e.task, retryCount |-> e.retryCount,
                 phase |-> "handler", caught |-> caught]
<1>1. q \in Seq(Entry) /\ Len(q) \in Nat /\ DOMAIN q = 1 .. Len(q)
  BY LenProperties DEF Sound
<1>2. Len(q) >= 1
  BY <1>1, EmptySeq
<1>3. e \in Entry /\ e = q[1] /\ 1 \in DOMAIN q
  BY <1>1, <1>2, HeadTailProperties
<1>4. /\ Tail(q) \in Seq(Entry)
      /\ DOMAIN Tail(q) = 1 .. Len(q) - 1
      /\ \A i \in 1 .. Len(q) - 1 : Tail(q)[i] = q[i + 1]
  BY <1>1, HeadTailProperties, LenProperties
<1> DEFINE r == Tail(q)
           old == [i \in 1 .. Len(q) - 1 |-> i + 1]
<1>5. Sound(r, fs, ft)
  <2>1. /\ old \in [DOMAIN r -> DOMAIN q]
        /\ \A i \in DOMAIN r : r[i] = q[old[i]]
        /\ \A i, j \in DOMAIN r : old[i] = old[j] => i = j
    BY <1>1, <1>4
  <2>2. ft \in [Task -> Fate]
    BY DEF Sound
  <2>3. r \in Seq(Entry)
    BY <1>4
  <2> HIDE DEF old, r
  <2> QED BY <2>1, <2>2, <2>3, SublistSound
<1>6. /\ g \in Frame /\ Live(g)
      /\ g.task = e.task /\ g.retryCount = e.retryCount
  BY <1>3 DEF Entry, Frame, Phase, Live
<1>7. \A f \in fs : f.task = e.task =>
        ~Live(f) /\ f.retryCount < e.retryCount
  BY <1>3 DEF Sound, Apart
<1>8. \A i \in DOMAIN r : r[i].task # e.task
  <2> SUFFICES ASSUME NEW i \in DOMAIN r PROVE r[i].task # e.task
    OBVIOUS
  <2>1. i + 1 \in DOMAIN q /\ i + 1 # 1 /\ r[i] = q[i + 1]
    BY <1>1, <1>4
  <2>2. q[i + 1].task = q[1].task => i + 1 = 1
    BY <1>3, <2>1 DEF Sound, Apart
  <2> QED BY <1>3, <2>1, <2>2
<1> HIDE DEF e, g, r
<1>9. g \notin fs
  BY <1>6, <1>7
<1>10. Sound(r, fs \cup {g}, ft)
  <2>1. IsFiniteSet(fs \cup {g}) /\ fs \cup {g} \subseteq Frame
    BY <1>6, FS_AddElement DEF Sound
  <2>2. \A i \in DOMAIN r, f \in fs \cup {g} : f.task = r[i].task =>
          ~Live(f) /\ f.retryCount < r[i].retryCount
    BY <1>5, <1>6, <1>8 DEF Sound, Apart
  <2>3. \A f, h \in fs \cup {g} : f.task = h.task /\ f # h /\ Live(f) =>
          ~Live(h) /\ h.retryCount < f.retryCount
    BY <1>5, <1>6, <1>7 DEF Sound, Apart
  <2>4. \A t \in Task : ft[t] = "new" => t # e.task
    BY <1>3 DEF Sound, Absent
  <2>5. \A t \in Task : ft[t] = "new" => Absent(t, r, fs \cup {g})
    BY <1>5, <1>6, <2>4 DEF Sound, Absent
  <2> QED BY <1>5, <2>1, <2>2, <2>3, <2>5 DEF Sound, Apart
<1> QED BY <1>3, <1>5, <1>9, <1>10 DEF e, g, r

------------------------------------------------------------------------------
(* The steps.                                                              *)

(* The empty queue satisfies the invariant.                                *)
LEMMA InitInv == Init => IInv
<1> SUFFICES ASSUME Init PROVE IInv
  OBVIOUS
<1>1. IsFiniteSet({}) /\ Cardinality({}) = 0
  BY FS_EmptySet
<1>2. Sound(tasks, frames, fate)
  <2>1. tasks \in Seq(Entry) /\ DOMAIN tasks = {}
    BY DEF Init
  <2> QED BY <1>1, <2>1 DEF Init, Sound, Apart, Absent, Fate
<1>3. Slots(frames, activeCount)
  BY <1>1, QueueAssumption DEF Init, Slots
<1>4. Rest
  BY DEF Init, Rest
<1> QED BY <1>2, <1>3, <1>4 DEF IInv

(* Whatever list, executions and fates the caller leaves, if these are     *)
(* sound processNext keeps them so.                                        *)
LEMMA ProcessNextInv ==
  ASSUME NEW q, NEW fs, NEW ft, NEW caught \in BOOLEAN,
         Sound(q, fs, ft), Slots(fs, activeCount), Rest,
         ProcessNext(q, fs, ft, caught),
         isPaused' \in BOOLEAN, isShutdown' \in BOOLEAN, handler' \in BOOLEAN,
         immediates' \in Nat
  PROVE  IInv'
<1>1. CASE /\ tasks' = q /\ frames' = fs /\ fate' = ft
           /\ UNCHANGED <<processing, activeCount, crashed>>
  BY <1>1 DEF IInv, Rest, Slots, Sound, Apart, Absent, Live
<1>2. CASE ~ShouldSkipProcessing(q) /\ Take(q, fs, caught) /\ fate' = ft
  <2> DEFINE e == Head(q)
             g == [task |-> e.task, retryCount |-> e.retryCount,
                   phase |-> "handler", caught |-> caught]
  <2>1. q # <<>> /\ ~(activeCount >= Concurrency)
    BY <1>2 DEF ShouldSkipProcessing
  <2>2. e \in Entry /\ g \notin fs /\ Sound(Tail(q), fs \cup {g}, ft)
    BY <2>1, TakeSound
  <2>3. /\ IdOf[e.task] # NoId
        /\ tasks' = Tail(q)
        /\ frames' = fs \cup {g}
        /\ processing' = [processing EXCEPT ![IdOf[e.task]] = e.task]
        /\ activeCount' = activeCount + 1
        /\ crashed' = crashed
    BY <1>2 DEF Take
  <2> HIDE DEF e, g
  <2>4. e.task \in Task
    BY <2>2 DEF Entry
  <2>5. Sound(tasks', frames', fate')
    BY <1>2, <2>2, <2>3
  <2>6. Slots(frames', activeCount')
    <3>1. IsFiniteSet(fs) /\ activeCount = Cardinality(fs)
      BY DEF Sound, Slots
    <3>2. Cardinality(fs \cup {g}) = Cardinality(fs) + 1 /\ Cardinality(fs) \in Nat
      BY <2>2, <3>1, FS_AddElement, FS_CardinalityType
    <3> QED BY <2>1, <2>3, <3>1, <3>2, QueueAssumption DEF Slots
  <2>7. Rest'
    <3>1. IdOf[e.task] \in Id
      BY <2>3, <2>4, QueueAssumption
    <3>2. processing' \in [Id -> Task \cup {None}]
      BY <2>3, <2>4, <3>1 DEF Rest
    <3> QED BY <2>3, <3>2 DEF Rest
  <2> QED BY <2>5, <2>6, <2>7 DEF IInv, Sound, Slots, Apart, Absent, Live
<1>3. CASE /\ ~ShouldSkipProcessing(q)
           /\ RejectIdless(q, fs, caught)
           /\ fate' = [ft EXCEPT ![Head(q).task] = "dropped"]
  <2>1. q # <<>>
    BY <1>3 DEF ShouldSkipProcessing
  <2>2. Head(q) \in Entry /\ Sound(Tail(q), fs, ft)
    BY <2>1, TakeSound
  <2>3. /\ fate' \in [Task -> Fate]
        /\ \A t \in Task : fate'[t] = "new" => ft[t] = "new"
    BY <1>3, <2>2 DEF Sound, Entry, Fate
  <2>4. Sound(tasks', frames', fate')
    BY <1>3, <2>2, <2>3 DEF RejectIdless, Sound
  <2>5. Slots(frames', activeCount') /\ Rest'
    BY <1>3 DEF RejectIdless, Slots, Rest
  <2> QED BY <2>4, <2>5 DEF IInv, Sound, Slots, Apart, Absent, Live
<1> QED BY <1>1, <1>2, <1>3 DEF ProcessNext

(* An execution moves to another phase: it stays the same execution.       *)
LEMMA MoveFrameSound ==
  ASSUME Sound(tasks, frames, fate), Slots(frames, activeCount),
         NEW f \in frames, Live(f),
         NEW p \in Phase
  PROVE  /\ Sound(tasks, MoveFrame(f, p), fate)
         /\ Slots(MoveFrame(f, p), activeCount)
<1> DEFINE g == [f EXCEPT !.phase = p]
           fs == frames \ {f}
<1>1. /\ f \in Frame /\ g \in Frame
      /\ g.task = f.task /\ g.retryCount = f.retryCount
  BY DEF Sound, Frame
<1>2. \A h \in fs : h.task = f.task => ~Live(h) /\ h.retryCount < f.retryCount
  BY DEF Sound, Apart
<1> HIDE DEF g
<1>3. g \notin fs
  BY <1>1, <1>2 DEF Frame
<1>4. /\ IsFiniteSet(fs) /\ IsFiniteSet(fs \cup {g})
      /\ Cardinality(fs \cup {g}) = Cardinality(frames)
  <2>1. IsFiniteSet(frames) /\ Cardinality(frames) \in Nat
    BY FS_CardinalityType DEF Sound
  <2>2. IsFiniteSet(fs) /\ Cardinality(fs) = Cardinality(frames) - 1
    BY <2>1, FS_RemoveElement
  <2> HIDE DEF fs
  <2>3. IsFiniteSet(fs \cup {g}) /\ Cardinality(fs \cup {g}) = Cardinality(fs) + 1
    BY <1>3, <2>2, FS_AddElement
  <2> QED BY <2>1, <2>2, <2>3
<1>5. fs \cup {g} \subseteq Frame
  BY <1>1 DEF Sound
<1>6. \A i \in DOMAIN tasks : tasks[i].task # f.task
  BY DEF Sound, Apart
<1>7. Apart(tasks, fs \cup {g})
  <2>1. \A i \in DOMAIN tasks, h \in fs \cup {g} : h.task = tasks[i].task =>
          ~Live(h) /\ h.retryCount < tasks[i].retryCount
    BY <1>1, <1>6 DEF Sound, Apart
  <2>2. \A h, k \in fs \cup {g} : h.task = k.task /\ h # k /\ Live(h) =>
          ~Live(k) /\ k.retryCount < h.retryCount
    BY <1>1, <1>2 DEF Sound, Apart
  <2> QED BY <2>1, <2>2 DEF Sound, Apart
<1>8. \A t \in Task : fate[t] = "new" => Absent(t, tasks, fs \cup {g})
  BY <1>1 DEF Sound, Absent
<1> QED BY <1>4, <1>5, <1>7, <1>8 DEF Sound, Slots, MoveFrame, g

(* An execution ends: it is gone and the counter has followed.             *)
LEMMA LeaveSlotSound ==
  ASSUME IInv, NEW f \in frames, LeaveSlot(f), tasks' = tasks,
         NEW ft \in [Task -> Fate], fate' = ft,
         \A t \in Task : ft[t] = "new" => fate[t] = "new"
  PROVE  Sound(tasks', frames', fate') /\ Slots(frames', activeCount')
<1>1. Sound(tasks, frames \ {f}, ft)
  BY FewerSound DEF IInv
<1>2. Slots(frames \ {f}, activeCount - 1)
  <2>1. Cardinality(frames \ {f}) = Cardinality(frames) - 1
    BY FS_RemoveElement DEF IInv, Sound
  <2>2. Cardinality(frames) \in Nat
    BY FS_CardinalityType DEF IInv, Sound
  <2> QED BY <2>1, <2>2, QueueAssumption DEF IInv, Slots
<1> QED BY <1>1, <1>2 DEF LeaveSlot

(* A task that has not been submitted is nowhere, so add may take it in.   *)
LEMMA AddInv ==
  ASSUME IInv, NEW t \in Task, Add(t)
  PROVE  IInv'
<1> DEFINE e == [task |-> t, retryCount |-> 0]
           ft == [fate EXCEPT ![t] = "open"]
           q == Enqueue(tasks, e)
<1>1. e \in Entry /\ e.task = t
  BY DEF Entry
<1>2. fate[t] = "new" /\ fate \in [Task -> Fate] /\ Absent(t, tasks, frames)
  BY DEF Add, IInv, Sound
<1>3. /\ ft \in [Task -> Fate] /\ ft[t] # "new"
      /\ \A u \in Task : ft[u] = "new" => fate[u] = "new"
  BY <1>2 DEF Fate
<1>4. ProcessNext(q, frames, ft, TRUE)
  BY DEF Add
<1> HIDE DEF e, ft
<1>5. Sound(q, frames, ft)
  BY <1>1, <1>2, <1>3, EnqueueSound DEF IInv, Absent
<1> HIDE DEF q
<1>6. /\ isPaused' \in BOOLEAN /\ isShutdown' \in BOOLEAN /\ handler' \in BOOLEAN
      /\ immediates' \in Nat
  BY DEF Add, IInv, Rest, flags
<1> QED BY <1>4, <1>5, <1>6, ProcessNextInv DEF IInv

(* Registering a handler starts at most one task.                          *)
LEMMA ProcessInv == ASSUME IInv, Process PROVE IInv'
<1>1. /\ ProcessNext(tasks, frames, fate, TRUE)
      /\ isPaused' \in BOOLEAN /\ isShutdown' \in BOOLEAN /\ handler' \in BOOLEAN
      /\ immediates' \in Nat
  BY DEF Process, IInv, Rest
<1> QED BY <1>1, ProcessNextInv DEF IInv

(* So does resuming.                                                       *)
LEMMA ResumeInv == ASSUME IInv, Resume PROVE IInv'
<1>1. /\ ProcessNext(tasks, frames, fate, TRUE)
      /\ isPaused' \in BOOLEAN /\ isShutdown' \in BOOLEAN /\ handler' \in BOOLEAN
      /\ immediates' \in Nat
  BY DEF Resume, IInv, Rest
<1> QED BY <1>1, ProcessNextInv DEF IInv

(* And so does a callback that an ended execution scheduled.               *)
LEMMA RunImmediateInv == ASSUME IInv, RunImmediate PROVE IInv'
<1>1. ProcessNext(tasks, frames, fate, FALSE)
  BY DEF RunImmediate
<1>2. /\ isPaused' \in BOOLEAN /\ isShutdown' \in BOOLEAN /\ handler' \in BOOLEAN
  BY DEF RunImmediate, IInv, Rest, flags
<1>3. immediates' \in Nat
  BY DEF RunImmediate, IInv, Rest
<1> QED BY <1>1, <1>2, <1>3, ProcessNextInv DEF IInv

(* A task whose retry timer fires has no entry and no other execution      *)
(* still to come, so it may be entered again.                              *)
LEMMA RetryTimerSound ==
  ASSUME IInv, NEW f \in frames, RetryTimer(f), ~isShutdown
  PROVE  /\ Sound(Enqueue(tasks, [task |-> f.task,
                                  retryCount |-> f.retryCount + 1]),
                  MoveFrame(f, "ending"), fate)
         /\ Slots(MoveFrame(f, "ending"), activeCount)
<1> DEFINE e == [task |-> f.task, retryCount |-> f.retryCount + 1]
           fs == MoveFrame(f, "ending")
           q == Enqueue(tasks, e)
<1>1. f \in Frame /\ f.phase = "backoff" /\ Live(f)
  BY DEF IInv, Sound, RetryTimer, Live
<1>2. e \in Entry /\ e.task = f.task /\ e.retryCount = f.retryCount + 1
  BY <1>1 DEF Entry, Frame
<1>3. Sound(tasks, fs, fate) /\ Slots(fs, activeCount)
  BY <1>1, MoveFrameSound DEF IInv, Phase
<1>4. \A i \in DOMAIN tasks : tasks[i].task # f.task
  BY <1>1 DEF IInv, Sound, Apart
<1>5. \A g \in fs : g.task = f.task =>
        ~Live(g) /\ g.retryCount < f.retryCount + 1
  <2>1. \A g \in frames \ {f} : g.task = f.task =>
          ~Live(g) /\ g.retryCount < f.retryCount
    BY <1>1 DEF IInv, Sound, Apart
  <2>2. LET g == [f EXCEPT !.phase = "ending"] IN
        ~Live(g) /\ g.retryCount < f.retryCount + 1
    BY <1>1 DEF Frame, Live
  <2>3. \A g \in frames : g.retryCount \in Nat
    BY DEF IInv, Sound, Frame
  <2>4. f.retryCount \in Nat
    BY <1>1 DEF Frame
  <2>5. \A g \in frames \ {f} : g.task = f.task =>
          ~Live(g) /\ g.retryCount < f.retryCount + 1
    BY <2>1, <2>3, <2>4
  <2> HIDE DEF e
  <2> QED BY <2>2, <2>5 DEF MoveFrame
<1>6. fate \in [Task -> Fate] /\ fate[f.task] # "new"
  BY <1>1 DEF IInv, Sound, Absent, Frame
<1> HIDE DEF e, fs
<1>7. Sound(q, fs, fate)
  BY <1>2, <1>3, <1>4, <1>5, <1>6, EnqueueSound
<1> QED BY <1>3, <1>7 DEF q, e, fs

(* The retry timer adds the task again, or finds the queue shut down.      *)
LEMMA RetryTimerInv ==
  ASSUME IInv, NEW f \in frames, RetryTimer(f)
  PROVE  IInv'
<1>1. f \in Frame /\ f.phase = "backoff" /\ Live(f)
  BY DEF IInv, Sound, RetryTimer, Live
<1>2. CASE isShutdown
  <2>1. /\ frames' = MoveFrame(f, "rejecting")
        /\ fate' = [fate EXCEPT ![f.task] = "dropped"]
        /\ UNCHANGED <<tasks, processing, activeCount, crashed, flags,
                       immediates>>
    BY <1>2 DEF RetryTimer
  <2>2. /\ Sound(tasks, MoveFrame(f, "rejecting"), fate)
        /\ Slots(MoveFrame(f, "rejecting"), activeCount)
    BY <1>1, MoveFrameSound DEF IInv, Phase
  <2>3. /\ fate' \in [Task -> Fate]
        /\ \A t \in Task : fate'[t] = "new" => fate[t] = "new"
    BY <1>1, <2>1 DEF IInv, Sound, Frame, Fate
  <2>4. Sound(tasks', frames', fate')
    BY <2>1, <2>2, <2>3 DEF Sound
  <2>5. Slots(frames', activeCount') /\ Rest'
    BY <2>1, <2>2 DEF IInv, Rest, flags, Slots
  <2> QED BY <2>4, <2>5 DEF IInv, Sound, Slots, Apart, Absent, Live
<1>3. CASE ~isShutdown
  <2> DEFINE fs == MoveFrame(f, "ending")
             q == Enqueue(tasks, [task |-> f.task,
                                  retryCount |-> f.retryCount + 1])
  <2>1. ProcessNext(q, fs, fate, TRUE)
    BY <1>3 DEF RetryTimer
  <2>2. Sound(q, fs, fate) /\ Slots(fs, activeCount)
    BY <1>3, RetryTimerSound
  <2>3. /\ isPaused' \in BOOLEAN /\ isShutdown' \in BOOLEAN
        /\ handler' \in BOOLEAN /\ immediates' \in Nat
    BY DEF RetryTimer, IInv, Rest, flags
  <2> HIDE DEF q, fs
  <2> QED BY <2>1, <2>2, <2>3, ProcessNextInv DEF IInv
<1> QED BY <1>2, <1>3

(* Steps that leave list, executions, fates and counter alone.             *)
LEMMA FlagsInv ==
  ASSUME IInv, Rest',
         UNCHANGED <<tasks, frames, fate, activeCount>>
  PROVE  IInv'
BY DEF IInv, Sound, Slots, Apart, Absent, Live

(* Pausing touches the flag only.                                          *)
LEMMA PauseInv == ASSUME IInv, Pause PROVE IInv'
<1>1. Rest' /\ UNCHANGED <<tasks, frames, fate, activeCount>>
  BY DEF Pause, IInv, Rest
<1> QED BY <1>1, FlagsInv

(* Removing takes one entry off the list or one off the processing map.    *)
LEMMA RemoveInv ==
  ASSUME IInv, NEW id \in Id \cup {NoId}, RemoveTask(id)
  PROVE  IInv'
<1>1. CASE RemovePending(id)
  <2>1. PICK i \in DOMAIN tasks :
          /\ tasks' = RemoveAt(tasks, i)
          /\ fate' = [fate EXCEPT ![tasks[i].task] = "dropped"]
          /\ UNCHANGED <<processing, flags, activeCount, frames, immediates,
                         crashed>>
    BY <1>1 DEF RemovePending
  <2>2. tasks \in Seq(Entry) /\ Len(tasks) \in Nat /\ DOMAIN tasks = 1 .. Len(tasks)
    BY LenProperties DEF IInv, Sound
  <2>3. tasks[i].task \in Task
    <3>1. tasks[i] \in Entry
      BY <2>2, ElementOfSeq
    <3> QED BY <3>1 DEF Entry
  <2> DEFINE r == RemoveAt(tasks, i)
             old == [j \in 1 .. Len(tasks) - 1 |-> IF j < i THEN j ELSE j + 1]
  <2>4. /\ r \in Seq(Entry) /\ Len(r) = Len(tasks) - 1
        /\ \A j \in 1 .. Len(tasks) - 1 :
             r[j] = IF j < i THEN tasks[j] ELSE tasks[j + 1]
    BY <2>2, RemoveAtShape
  <2> HIDE DEF r
  <2>5. DOMAIN r = 1 .. Len(tasks) - 1
    BY <2>4, LenProperties
  <2>6. /\ old \in [DOMAIN r -> DOMAIN tasks]
        /\ \A j \in DOMAIN r : r[j] = tasks[old[j]]
        /\ \A j, k \in DOMAIN r : old[j] = old[k] => j = k
    BY <2>2, <2>4, <2>5
  <2> HIDE DEF old
  <2>7. /\ fate' \in [Task -> Fate]
        /\ \A t \in Task : fate'[t] = "new" => fate[t] = "new"
    BY <2>1, <2>3 DEF IInv, Sound, Fate
  <2>8. Sound(r, frames, fate')
    <3>1. Sound(tasks, frames, fate) /\ r \in Seq(Entry)
      BY <2>4 DEF IInv
    <3> QED BY <2>6, <2>7, <3>1, SublistSound
  <2>9. Sound(tasks', frames', fate')
    BY <2>1, <2>8 DEF r
  <2>10. Slots(frames', activeCount') /\ Rest'
    BY <2>1, <2>3 DEF IInv, Slots, Rest, flags
  <2> QED BY <2>9, <2>10 DEF IInv, Sound, Slots, Apart, Absent, Live
<1>2. CASE RemoveProcessing(id)
  <2>1. UNCHANGED <<tasks, frames, fate, activeCount>>
    BY <1>2 DEF RemoveProcessing
  <2>2. Rest'
    BY <1>2 DEF RemoveProcessing, IInv, Rest, flags
  <2> QED BY <2>1, <2>2, FlagsInv
<1> QED BY <1>1, <1>2 DEF RemoveTask

(* The list is emptied: what waited is dropped.                            *)
LEMMA DropSound ==
  ASSUME IInv, frames' = frames, tasks' = <<>>, fate' = DropWaiting
  PROVE  Sound(tasks', frames', fate')
<1>1. /\ fate' \in [Task -> Fate]
      /\ \A t \in Task : fate'[t] = "new" => fate[t] = "new"
  BY DEF DropWaiting, IInv, Sound, Fate
<1>2. tasks' \in Seq(Entry) /\ DOMAIN tasks' = {}
  OBVIOUS
<1> QED BY <1>1, <1>2 DEF IInv, Sound, Apart, Absent

(* Clearing drops what waits and leaves the executions alone.              *)
LEMMA ClearInv == ASSUME IInv, Clear PROVE IInv'
<1>1. Sound(tasks', frames', fate') /\ Slots(frames', activeCount')
  BY DropSound DEF Clear, IInv, Slots
<1>2. Rest'
  BY DEF Clear, IInv, Rest, flags
<1> QED BY <1>1, <1>2 DEF IInv, Sound, Slots, Apart, Absent, Live

(* Shutting down does the same and closes the queue.                       *)
LEMMA ShutdownInv == ASSUME IInv, Shutdown PROVE IInv'
<1>1. Sound(tasks', frames', fate') /\ Slots(frames', activeCount')
  BY DropSound DEF Shutdown, IInv, Slots
<1>2. Rest'
  BY DEF Shutdown, IInv, Rest
<1> QED BY <1>1, <1>2 DEF IInv, Sound, Slots, Apart, Absent, Live

(* The finally block keeps the types of the rest of the state.             *)
LEMMA LeaveSlotRest ==
  ASSUME Rest, NEW f, LeaveSlot(f), UNCHANGED flags,
         crashed' \in BOOLEAN
  PROVE  Rest'
BY DEF LeaveSlot, Rest, flags

(* A handler resolves: its execution is the only live one of its task.     *)
LEMMA CompleteInv ==
  ASSUME IInv, NEW f \in frames, Complete(f)
  PROVE  IInv'
<1>1. LeaveSlot(f) /\ tasks' = tasks
  BY DEF Complete
<1>2. /\ fate' \in [Task -> Fate]
      /\ \A t \in Task : fate'[t] = "new" => fate[t] = "new"
  BY DEF Complete, IInv, Sound, Frame, Fate
<1>3. Sound(tasks', frames', fate') /\ Slots(frames', activeCount')
  BY <1>1, <1>2, LeaveSlotSound
<1>4. Rest'
  BY <1>1, LeaveSlotRest DEF Complete, IInv, Rest
<1> QED BY <1>3, <1>4 DEF IInv, Sound, Slots, Apart, Absent, Live

(* The finally block after a failure ends an execution that is not live.   *)
LEMMA FinallyInv ==
  ASSUME IInv, NEW f \in frames, Finally(f)
  PROVE  IInv'
<1>1. LeaveSlot(f) /\ tasks' = tasks /\ fate' = fate
  BY DEF Finally
<1>2. Sound(tasks', frames', fate') /\ Slots(frames', activeCount')
  BY <1>1, LeaveSlotSound DEF IInv, Sound
<1>3. crashed' \in BOOLEAN
  BY DEF Finally
<1>4. Rest'
  BY <1>1, <1>3, LeaveSlotRest DEF Finally, IInv
<1> QED BY <1>2, <1>4 DEF IInv, Sound, Slots, Apart, Absent, Live

(* A handler rejects: its execution goes on, or the task has failed.       *)
LEMMA FailInv ==
  ASSUME IInv, NEW f \in frames, Fail(f)
  PROVE  IInv'
<1>1. Live(f) /\ f \in Frame
  BY DEF Fail, Live, IInv, Sound
<1>2. PICK p \in Phase : frames' = MoveFrame(f, p)
  BY DEF Fail, Phase
<1>3. /\ Sound(tasks, MoveFrame(f, p), fate)
      /\ Slots(MoveFrame(f, p), activeCount)
  BY <1>1, MoveFrameSound DEF IInv
<1>4. /\ fate' \in [Task -> Fate]
      /\ \A t \in Task : fate'[t] = "new" => fate[t] = "new"
  BY <1>1 DEF Fail, IInv, Sound, Frame, Fate
<1>5. Sound(tasks', frames', fate') /\ Slots(frames', activeCount')
  BY <1>2, <1>3, <1>4 DEF Fail, Sound, Slots
<1>6. Rest'
  BY DEF Fail, IInv, Rest, flags
<1> QED BY <1>5, <1>6 DEF IInv, Sound, Slots, Apart, Absent, Live

------------------------------------------------------------------------------
(* The theorems.                                                           *)

(* Every step keeps the invariant.                                         *)
LEMMA NextInv == IInv /\ [Next]_vars => IInv'
<1> SUFFICES ASSUME IInv, [Next]_vars PROVE IInv'
  OBVIOUS
<1>1. ASSUME NEW t \in Task, Add(t) PROVE IInv'
  BY <1>1, AddInv
<1>2. CASE Process
  BY <1>2, ProcessInv
<1>3. CASE Pause \/ Resume
  BY <1>3, PauseInv, ResumeInv
<1>4. ASSUME NEW id \in Id \cup {NoId}, RemoveTask(id) PROVE IInv'
  BY <1>4, RemoveInv
<1>5. CASE Clear
  BY <1>5, ClearInv
<1>6. CASE Shutdown
  BY <1>6, ShutdownInv
<1>7. CASE RunImmediate
  BY <1>7, RunImmediateInv
<1>8. ASSUME NEW f \in frames, FrameStep(f) PROVE IInv'
  BY <1>8, CompleteInv, FailInv, RetryTimerInv, FinallyInv DEF FrameStep
<1>9. CASE UNCHANGED vars
  <2>1. Rest' /\ UNCHANGED <<tasks, frames, fate, activeCount>>
    BY <1>9 DEF vars, flags, IInv, Rest
  <2> QED BY <2>1, FlagsInv
<1> QED BY <1>1, <1>2, <1>3, <1>4, <1>5, <1>6, <1>7, <1>8, <1>9
        DEF Next, ClientCall

(* The inductive invariant: list and executions are of their types, tell   *)
(* the attempts of a task apart, and are counted by activeCount.           *)
THEOREM Invariance == Spec => []IInv
BY InitInv, NextInv, PTL DEF Spec

(* Every variable keeps its type; for activeCount this says that the       *)
(* finally block never takes it below zero.                                *)
THEOREM TypeCorrect == Spec => []TypeOK
<1>1. IInv => TypeOK
  BY FS_CardinalityType DEF IInv, Sound, Slots, Rest, TypeOK
<1> QED BY <1>1, Invariance, PTL

(* The slot counter equals the number of executions that hold a slot and   *)
(* never exceeds the concurrency option.                                   *)
THEOREM SlotsAreAccounted == Spec => []SlotsAccounted
<1>1. IInv => SlotsAccounted
  BY DEF IInv, Slots, SlotsAccounted
<1> QED BY <1>1, Invariance, PTL

(* No task waits twice, waits while it is handled, or is handled twice.    *)
THEOREM CopiesAreSingle == Spec => []SingleCopy
<1>1. IInv => SingleCopy
  BY DEF IInv, Sound, Apart, SingleCopy
<1> QED BY <1>1, Invariance, PTL
==============================================================================
