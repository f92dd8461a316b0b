-------------------------- MODULE MemoryQueueContract --------------------------
(***************************************************************************)
(* What becomes of the tasks of MemoryQueue, proved for any tasks, ids,    *)
(* priorities, retry limits, calls and concurrency: none is lost, none is  *)
(* listed for good, the best one starts first and only while the queue is  *)
(* open, and every step is one the Queue interface allows.                 *)
(*                                                                         *)
(* To IInv of MemoryQueueProofs this adds that a task is open exactly      *)
(* while it waits or has a live execution, that each entry of the          *)
(* processing map has an execution behind it, and that the list is sorted. *)
(* As there, the new invariant is a predicate of a list, executions, fates *)
(* and a map, because processNext is called on a list its caller has       *)
(* changed.                                                                *)
(***************************************************************************)
EXTENDS MemoryQueueProofs

In(q) == {q[i].task : i \in DOMAIN q}
Lives(t, fs) == \E f \in fs : f.task = t /\ Live(f)

(* A task is open exactly as long as it waits or has a live execution.     *)
Kept(q, fs, ft) ==
  \A t \in Task : ft[t] = "open" <=> t \in In(q) \/ Lives(t, fs)

Named(fs) == \A f \in fs : IdOf[f.task] # NoId

(* Whatever the map lists has an execution, and is listed under its id.    *)
Listed(pr, fs) ==
  \A i \in Id : pr[i] # None =>
    \E f \in fs : f.task = pr[i] /\ IdOf[f.task] = i

Sorted(q) ==
  \A i, j \in DOMAIN q : i < j => Priority[q[i].task] >= Priority[q[j].task]

Good(q, fs, ft, pr) ==
  Kept(q, fs, ft) /\ Named(fs) /\ Listed(pr, fs) /\ Sorted(q)

CInv == IInv /\ Good(tasks, frames, fate, processing)

------------------------------------------------------------------------------
(* The waiting list as a sorted set of tasks.                              *)

(* In a sorted list the entries that a new one stays behind come first.    *)
LEMMA AheadFirst ==
  ASSUME NEW q \in Seq(Entry), NEW e \in Entry, Sorted(q)
  PROVE  \A i \in DOMAIN q : i \in Ahead(q, e) <=> i <= Cardinality(Ahead(q, e))
<1> DEFINE A == Ahead(q, e)
<1>1. Len(q) \in Nat /\ DOMAIN q = 1 .. Len(q)
  BY LenProperties
<1>2. IsFiniteSet(1 .. Len(q)) /\ A \in SUBSET (1 .. Len(q))
  BY <1>1, FS_Interval DEF Ahead
<1>3. IsFiniteSet(A) /\ Cardinality(A) \in Nat
  BY <1>2, FS_Subset, FS_CardinalityType
<1>4. ASSUME NEW i \in A, NEW j \in DOMAIN q, j < i PROVE j \in A
  <2>1. /\ Priority[q[j].task] >= Priority[q[i].task]
        /\ Priority[q[i].task] >= Priority[e.task]
    BY <1>1, <1>4 DEF Sorted, Ahead
  <2>2. q[i] \in Entry /\ q[j] \in Entry
    BY <1>1, <1>2, ElementOfSeq
  <2>3. /\ Priority[q[j].task] \in Nat /\ Priority[q[i].task] \in Nat
        /\ Priority[e.task] \in Nat
    BY <2>2, QueueAssumption DEF Entry
  <2> QED BY <2>1, <2>3 DEF Ahead
<1>5. ASSUME NEW i \in DOMAIN q, i \in A PROVE i <= Cardinality(A)
  <2>1. 1 .. i \in SUBSET A
    BY <1>1, <1>4, <1>5
  <2>2. Cardinality(1 .. i) = i
    BY <1>1, FS_Interval
  <2> QED BY <1>3, <2>1, <2>2, FS_Subset
<1>6. ASSUME NEW i \in DOMAIN q, i \notin A PROVE ~(i <= Cardinality(A))
  <2>1. A \in SUBSET (1 .. i - 1)
    <3> SUFFICES ASSUME NEW j \in A PROVE j \in 1 .. i - 1
      OBVIOUS
    <3>1. ~(i < j) /\ i # j
      BY <1>4, <1>6
    <3> QED BY <1>1, <1>2, <3>1
  <2>2. IsFiniteSet(1 .. i - 1) /\ Cardinality(1 .. i - 1) = i - 1
    <3>1. i \in Nat /\ i >= 1 /\ i - 1 \in Int
      BY <1>1
    <3> QED BY <3>1, FS_Interval
  <2>3. Cardinality(A) <= i - 1
    BY <2>1, <2>2, FS_Subset
  <2> QED BY <1>1, <1>3, <2>3
<1> QED BY <1>5, <1>6

(* Adding an entry adds its task and keeps the list sorted; the entry      *)
(* comes first if it outranks all others, and else the first one stays it. *)
LEMMA EnqueueSorted ==
  ASSUME NEW q \in Seq(Entry), NEW e \in Entry, Sorted(q)
  PROVE  LET r == Enqueue(q, e) IN
         /\ r # <<>>
         /\ In(r) = In(q) \cup {e.task}
         /\ Sorted(r)
         /\ \/ /\ Head(r) = e
               /\ \A i \in DOMAIN q : Priority[q[i].task] < Priority[e.task]
            \/ /\ q # <<>>
               /\ Head(r) = Head(q)
<1> DEFINE r == Enqueue(q, e)
           k == Cardinality(Ahead(q, e)) + 1
           P(x) == Priority[x.task]
<1>1. Len(q) \in Nat /\ DOMAIN q = 1 .. Len(q)
  BY LenProperties
<1>2. /\ k \in 1 .. Len(q) + 1
      /\ r \in Seq(Entry) /\ Len(r) = Len(q) + 1
      /\ \A i \in 1 .. Len(q) + 1 :
           r[i] = IF i < k THEN q[i] ELSE IF i = k THEN e ELSE q[i - 1]
  BY EnqueuePlace
<1>3. \A i \in DOMAIN q : P(q[i]) >= P(e) <=> i < k
  <2>1. \A i \in DOMAIN q : i \in Ahead(q, e) <=> i <= Cardinality(Ahead(q, e))
    BY AheadFirst
  <2>2. \A i \in DOMAIN q : i \in Ahead(q, e) <=> P(q[i]) >= P(e)
    BY DEF Ahead
  <2>3. k - 1 = Cardinality(Ahead(q, e)) /\ k \in Nat
    <3> DEFINE c == Cardinality(Ahead(q, e))
    <3>1. c \in Nat
      <4>1. Ahead(q, e) \in SUBSET (1 .. Len(q)) /\ IsFiniteSet(1 .. Len(q))
        BY <1>1, FS_Interval DEF Ahead
      <4> QED BY <4>1, FS_Subset, FS_CardinalityType
    <3> HIDE DEF c
    <3>2. k = c + 1
      BY DEF c
    <3>3. k - 1 = c /\ k \in Nat
      BY <3>1, <3>2
    <3> QED BY <3>3 DEF c
  <2> HIDE DEF k
  <2>4. \A i \in DOMAIN q : i <= k - 1 <=> i < k
    BY <1>1, <2>3
  <2> QED BY <2>1, <2>2, <2>3, <2>4
<1>4. P(e) \in Nat /\ \A i \in DOMAIN q : q[i] \in Entry /\ P(q[i]) \in Nat
  <2>1. \A x \in Entry : P(x) \in Nat
    BY QueueAssumption DEF Entry
  <2>2. \A i \in DOMAIN q : q[i] \in Entry
    BY <1>1, ElementOfSeq
  <2> QED BY <2>1, <2>2
<1> HIDE DEF r, k, P
<1>5. DOMAIN r = 1 .. Len(q) + 1
  BY <1>2, LenProperties
<1>6. \A i, j \in DOMAIN q : i < j => P(q[i]) >= P(q[j])
  BY DEF Sorted, P
<1>7. ASSUME NEW i \in DOMAIN r, NEW j \in DOMAIN r, i < j
      PROVE  P(r[i]) >= P(r[j])
  <2>1. CASE j < k
    BY <1>1, <1>2, <1>5, <1>6, <1>7, <2>1
  <2>2. CASE j = k
    <3>1. r[j] = e /\ r[i] = q[i] /\ i \in DOMAIN q /\ i < k
      BY <1>1, <1>2, <1>5, <1>7, <2>2
    <3> QED BY <1>3, <3>1
  <2>3. CASE j > k /\ i < k
    <3>1. /\ r[j] = q[j - 1] /\ r[i] = q[i]
          /\ i \in DOMAIN q /\ j - 1 \in DOMAIN q /\ ~(j - 1 < k)
      BY <1>1, <1>2, <1>5, <1>7, <2>3
    <3>2. P(q[i]) >= P(e) /\ ~(P(q[j - 1]) >= P(e))
      BY <1>3, <2>3, <3>1
    <3> QED BY <1>4, <3>1, <3>2
  <2>4. CASE j > k /\ i = k
    <3>1. r[j] = q[j - 1] /\ r[i] = e /\ j - 1 \in DOMAIN q /\ ~(j - 1 < k)
      BY <1>1, <1>2, <1>5, <1>7, <2>4
    <3> QED BY <1>3, <1>4, <3>1
  <2>5. CASE j > k /\ i > k
    <3>1. /\ r[j] = q[j - 1] /\ r[i] = q[i - 1]
          /\ i - 1 \in DOMAIN q /\ j - 1 \in DOMAIN q /\ i - 1 < j - 1
      BY <1>1, <1>2, <1>5, <1>7, <2>5
    <3> QED BY <1>6, <3>1
  <2> QED BY <1>1, <1>2, <1>5, <2>1, <2>2, <2>3, <2>4, <2>5
<1>8. In(r) = In(q) \cup {e.task}
  <2>1. ASSUME NEW i \in DOMAIN q PROVE \E j \in DOMAIN r : r[j] = q[i]
    <3>1. CASE i < k
      BY <1>1, <1>2, <1>5, <3>1
    <3>2. CASE ~(i < k)
      <4>1. i + 1 \in DOMAIN r /\ i + 1 > k /\ (i + 1) - 1 = i
        BY <1>1, <1>2, <1>5, <3>2
      <4>2. r[i + 1] = q[i]
        BY <1>1, <1>2, <1>5, <4>1
      <4> QED BY <4>1, <4>2
    <3> QED BY <3>1, <3>2
  <2>2. ASSUME NEW j \in DOMAIN r
        PROVE  r[j] = e \/ \E i \in DOMAIN q : r[j] = q[i]
    <3>1. CASE j < k
      BY <1>1, <1>2, <1>5, <3>1
    <3>2. CASE j > k
      <4>1. j - 1 \in DOMAIN q /\ r[j] = q[j - 1]
        BY <1>1, <1>2, <1>5, <3>2
      <4> QED BY <4>1
    <3> QED BY <1>1, <1>2, <1>5, <3>1, <3>2
  <2>3. k \in DOMAIN r /\ r[k] = e
    BY <1>1, <1>2, <1>5
  <2> QED BY <2>1, <2>2, <2>3 DEF In
<1>9. r # <<>> /\ Head(r) = r[1] /\ 1 \in DOMAIN r
  <2>1. Len(r) # 0
    BY <1>1, <1>2
  <2> QED BY <1>1, <1>2, <1>5, <2>1, EmptySeq, HeadTailProperties
<1>10. CASE k = 1
  <2>1. \A i \in DOMAIN q : P(q[i]) < P(e)
    BY <1>1, <1>3, <1>4, <1>10
  <2> QED BY <1>1, <1>2, <1>7, <1>8, <1>9, <1>10, <2>1 DEF r, P, Sorted
<1>11. CASE k # 1
  <2>1. r[1] = q[1] /\ Len(q) >= 1
    BY <1>1, <1>2, <1>11
  <2>2. q # <<>> /\ Head(q) = q[1]
    BY <1>1, <2>1, EmptySeq, HeadTailProperties
  <2> QED BY <1>7, <1>8, <1>9, <2>1, <2>2 DEF r, P, Sorted
<1> QED BY <1>10, <1>11

(* Taking the first entry: it is of the highest priority, and its task     *)
(* does not wait any more.                                                 *)
LEMMA TailSorted ==
  ASSUME NEW q, NEW fs, NEW ft, Sound(q, fs, ft), Sorted(q), q # <<>>
  PROVE  /\ Head(q) \in Entry
         /\ 1 \in DOMAIN q /\ Head(q) = q[1]
         /\ In(q) = In(Tail(q)) \cup {Head(q).task}
         /\ Head(q).task \notin In(Tail(q))
         /\ Sorted(Tail(q))
<1>1. q \in Seq(Entry) /\ Len(q) \in Nat /\ DOMAIN q = 1 .. Len(q)
  BY LenProperties DEF Sound
<1>2. Len(q) >= 1 /\ Head(q) = q[1] /\ q[1] \in Entry /\ 1 \in DOMAIN q
  BY <1>1, EmptySeq, HeadTailProperties
<1>3. /\ DOMAIN Tail(q) = 1 .. Len(q) - 1
      /\ \A i \in 1 .. Len(q) - 1 : Tail(q)[i] = q[i + 1]
  BY <1>1, HeadTailProperties, LenProperties
<1> DEFINE r == Tail(q)
<1> HIDE DEF r
<1>4. \A i \in DOMAIN r : i + 1 \in DOMAIN q /\ i + 1 # 1 /\ r[i] = q[i + 1]
  BY <1>1, <1>3 DEF r
<1>5. \A j \in DOMAIN q : j = 1 \/ (j - 1 \in DOMAIN r /\ r[j - 1] = q[j])
  BY <1>1, <1>3 DEF r
<1>6. Sorted(r)
  <2> SUFFICES ASSUME NEW i \in DOMAIN r, NEW j \in DOMAIN r, i < j
               PROVE  Priority[r[i].task] >= Priority[r[j].task]
    BY DEF Sorted
  <2>1. i + 1 < j + 1
    BY <1>3 DEF r
  <2> QED BY <1>4, <2>1 DEF Sorted
<1>7. In(q) = In(r) \cup {q[1].task}
  BY <1>2, <1>4, <1>5 DEF In
<1>8. q[1].task \notin In(r)
  <2>1. \A i \in DOMAIN q : q[i].task = q[1].task => i = 1
    BY <1>2 DEF Sound, Apart
  <2> QED BY <1>4, <2>1 DEF In
<1> QED BY <1>2, <1>6, <1>7, <1>8 DEF r

(* Taking any entry out leaves the rest waiting and sorted.                *)
LEMMA RemoveAtSorted ==
  ASSUME NEW q, NEW fs, NEW ft, Sound(q, fs, ft), Sorted(q), NEW i \in DOMAIN q
  PROVE  /\ q[i] \in Entry
         /\ In(RemoveAt(q, i)) = In(q) \ {q[i].task}
         /\ Sorted(RemoveAt(q, i))
<1> DEFINE r == RemoveAt(q, i)
<1>1. q \in Seq(Entry) /\ Len(q) \in Nat /\ DOMAIN q = 1 .. Len(q)
  BY LenProperties DEF Sound
<1>2. q[i] \in Entry
  BY <1>1, ElementOfSeq, SMTT(30)
<1>3. /\ r \in Seq(Entry) /\ Len(r) = Len(q) - 1
      /\ \A j \in 1 .. Len(q) - 1 : r[j] = IF j < i THEN q[j] ELSE q[j + 1]
  BY <1>1, RemoveAtShape
<1> HIDE DEF r
<1>4. DOMAIN r = 1 .. Len(q) - 1
  BY <1>3, LenProperties
<1> DEFINE old(j) == IF j < i THEN j ELSE j + 1
<1>5. \A j \in DOMAIN r : old(j) \in DOMAIN q /\ old(j) # i /\ r[j] = q[old(j)]
  BY <1>1, <1>3, <1>4
<1>6. \A j, k \in DOMAIN r : j < k => old(j) < old(k)
  BY <1>1, <1>4
<1>7. ASSUME NEW j \in DOMAIN q, j # i PROVE \E k \in DOMAIN r : old(k) = j
  <2>1. CASE j < i
    BY <1>1, <1>4, <2>1
  <2>2. CASE j > i
    <3>1. j - 1 \in DOMAIN r /\ ~(j - 1 < i) /\ (j - 1) + 1 = j
      BY <1>1, <1>4, <2>2
    <3> QED BY <3>1
  <2> QED BY <1>1, <1>7, <2>1, <2>2
<1> HIDE DEF old
<1>8. Sorted(r)
  BY <1>5, <1>6 DEF Sorted
<1>9. In(r) = In(q) \ {q[i].task}
  <2>1. \A j \in DOMAIN q : q[j].task = q[i].task => j = i
    BY DEF Sound, Apart
  <2> QED BY <1>5, <1>7, <2>1 DEF In
<1> QED BY <1>2, <1>8, <1>9 DEF r

------------------------------------------------------------------------------
(* The steps keep the invariant.                                           *)

(* Nothing waits, runs or is listed at first.                              *)
LEMMA InitGood == Init => Good(tasks, frames, fate, processing)
<1> SUFFICES ASSUME Init PROVE Good(tasks, frames, fate, processing)
  OBVIOUS
<1>1. tasks = <<>> /\ DOMAIN tasks = {} /\ frames = {}
  BY DEF Init
<1> QED BY <1>1 DEF Init, Good, Kept, In, Lives, Named, Listed, Sorted

(* processNext hands the first entry on to an execution, or drops it.      *)
LEMMA ProcessNextGood ==
  ASSUME NEW q, NEW fs, NEW ft, NEW caught \in BOOLEAN,
         Sound(q, fs, ft), Good(q, fs, ft, processing), Rest,
         ProcessNext(q, fs, ft, caught)
  PROVE  Good(tasks', frames', fate', processing')
<1>1. CASE /\ tasks' = q /\ frames' = fs /\ fate' = ft
           /\ UNCHANGED <<processing, activeCount, crashed>>
  BY <1>1 
<1>2. CASE ~ShouldSkipProcessing(q) /\ Take(q, fs, caught) /\ fate' = ft
  <2> DEFINE e == Head(q)
             g == [task |-> e.task, retryCount |-> e.retryCount,
                   phase |-> "handler", caught |-> caught]
  <2>1. q # <<>>
    BY <1>2 DEF ShouldSkipProcessing
  <2>2. /\ e \in Entry
        /\ In(q) = In(Tail(q)) \cup {e.task} /\ e.task \notin In(Tail(q))
        /\ Sorted(Tail(q))
    BY <2>1, TailSorted DEF Good
  <2>3. /\ IdOf[e.task] # NoId
        /\ tasks' = Tail(q)
        /\ frames' = fs \cup {g}
        /\ processing' = [processing EXCEPT ![IdOf[e.task]] = e.task]
    BY <1>2 DEF Take
  <2>4. g.task = e.task /\ Live(g)
    BY DEF Live
  <2>5. e.task \in Task
    BY <2>2 DEF Entry
  <2> HIDE DEF e, g
  <2>6. Kept(tasks', frames', fate')
    <3> SUFFICES ASSUME NEW t \in Task
                 PROVE  ft[t] = "open" <=> t \in In(Tail(q)) \/ Lives(t, fs \cup {g})
      BY <1>2, <2>3 DEF Kept
    <3>1. ft[t] = "open" <=> t \in In(q) \/ Lives(t, fs)
      BY DEF Good, Kept
    <3>2. Lives(t, fs \cup {g}) <=> Lives(t, fs) \/ t = e.task
      BY <2>4 DEF Lives
    <3> QED BY <2>2, <3>1, <3>2
  <2>7. Named(frames')
    BY <2>3, <2>4 DEF Good, Named
  <2>8. Listed(processing', frames')
    <3> SUFFICES ASSUME NEW i \in Id, processing'[i] # None
                 PROVE  \E f \in frames' : f.task = processing'[i] /\ IdOf[f.task] = i
      BY DEF Listed
    <3>1. CASE i = IdOf[e.task]
      BY <2>3, <2>4, <3>1 DEF Rest
    <3>2. CASE i # IdOf[e.task]
      <4>1. processing'[i] = processing[i]
        BY <2>3, <3>2 DEF Rest
      <4> QED BY <2>3, <4>1 DEF Good, Listed
    <3> QED BY <3>1, <3>2
  <2> QED BY <2>2, <2>3, <2>6, <2>7, <2>8 DEF Good
<1>3. CASE /\ ~ShouldSkipProcessing(q)
           /\ RejectIdless(q, fs, caught)
           /\ fate' = [ft EXCEPT ![Head(q).task] = "dropped"]
  <2> DEFINE e == Head(q)
  <2>1. q # <<>>
    BY <1>3 DEF ShouldSkipProcessing
  <2>2. /\ e \in Entry /\ 1 \in DOMAIN q /\ e = q[1]
        /\ In(q) = In(Tail(q)) \cup {e.task} /\ e.task \notin In(Tail(q))
        /\ Sorted(Tail(q))
    BY <2>1, TailSorted DEF Good
  <2>3. /\ tasks' = Tail(q) /\ frames' = fs /\ processing' = processing
        /\ fate' = [ft EXCEPT ![e.task] = "dropped"]
    BY <1>3 DEF RejectIdless
  <2>4. e.task \in Task
    BY <2>2 DEF Entry
  <2>5. ~Lives(e.task, fs)
    BY <2>2 DEF Sound, Apart, Lives
  <2> HIDE DEF e
  <2>6. Kept(tasks', frames', fate')
    BY <2>2, <2>3, <2>4, <2>5 DEF Good, Kept, Sound
  <2> QED BY <2>2, <2>3, <2>6 DEF Good
<1> QED BY <1>1, <1>2, <1>3 DEF ProcessNext

(* An execution that moves on is the only live one of its task.            *)
LEMMA MoveFrameGood ==
  ASSUME IInv, NEW f \in frames, Live(f), NEW p \in Phase,
         Named(frames), Listed(processing, frames)
  PROVE  /\ f.task \in Task /\ f.task \notin In(tasks)
         /\ \A t \in Task : Lives(t, MoveFrame(f, p)) <=>
              IF t = f.task THEN p \in {"handler", "backoff"}
                            ELSE Lives(t, frames)
         /\ Named(MoveFrame(f, p))
         /\ Listed(processing, MoveFrame(f, p))
<1> DEFINE g == [f EXCEPT !.phase = p]
<1>1. f \in Frame /\ g.task = f.task /\ g.phase = p /\ f.task \in Task
  BY DEF IInv, Sound, Frame
<1>2. \A h \in frames \ {f} : h.task = f.task => ~Live(h)
  BY DEF IInv, Sound, Apart
<1>3. MoveFrame(f, p) = (frames \ {f}) \cup {g}
  BY DEF MoveFrame
<1> HIDE DEF g
<1>4. ASSUME NEW t \in Task
      PROVE  Lives(t, MoveFrame(f, p)) <=>
               IF t = f.task THEN p \in {"handler", "backoff"}
                             ELSE Lives(t, frames)
  BY <1>1, <1>2, <1>3 DEF Lives, Live
<1>5. f.task \notin In(tasks)
  BY DEF IInv, Sound, Apart, In
<1>6. Named(MoveFrame(f, p)) /\ Listed(processing, MoveFrame(f, p))
  BY <1>1, <1>3 DEF Named, Listed
<1> QED BY <1>1, <1>4, <1>5, <1>6

(* An execution that ends takes its entry of the map along, if any.        *)
LEMMA LeaveSlotGood ==
  ASSUME IInv, NEW f \in frames, LeaveSlot(f),
         Named(frames), Listed(processing, frames)
  PROVE  /\ f.task \in Task
         /\ Live(f) => f.task \notin In(tasks)
         /\ \A t \in Task :
              Lives(t, frames') <=> Lives(t, frames) /\ ~(t = f.task /\ Live(f))
         /\ Named(frames')
         /\ Listed(processing', frames')
<1>1. /\ frames' = frames \ {f}
      /\ processing' = [i \in Id |-> IF i = IdOf[f.task] THEN None
                                     ELSE processing[i]]
  BY DEF LeaveSlot
<1>2. f.task \in Task
  BY DEF IInv, Sound, Frame
<1>3. Live(f) => \A h \in frames \ {f} : h.task = f.task => ~Live(h)
  BY DEF IInv, Sound, Apart
<1>4. Live(f) => f.task \notin In(tasks)
  BY DEF IInv, Sound, Apart, In
<1>5. ASSUME NEW t \in Task
      PROVE  Lives(t, frames') <=> Lives(t, frames) /\ ~(t = f.task /\ Live(f))
  BY <1>1, <1>3 DEF Lives
<1>6. Named(frames') /\ Listed(processing', frames')
  BY <1>1 DEF Named, Listed
<1> QED BY <1>2, <1>4, <1>5, <1>6

(* A task that is added waits and is open.                                 *)
LEMMA AddGood ==
  ASSUME CInv, NEW t \in Task, Add(t)
  PROVE  Good(tasks', frames', fate', processing')
<1> DEFINE e == [task |-> t, retryCount |-> 0]
           ft == [fate EXCEPT ![t] = "open"]
           q == Enqueue(tasks, e)
<1>1. e \in Entry /\ e.task = t /\ tasks \in Seq(Entry)
  BY DEF Entry, CInv, IInv, Sound
<1>2. fate[t] = "new" /\ fate \in [Task -> Fate] /\ Absent(t, tasks, frames)
  BY DEF Add, CInv, IInv, Sound
<1>3. /\ ft \in [Task -> Fate] /\ ft[t] = "open"
      /\ \A u \in Task \ {t} : ft[u] = fate[u]
      /\ \A u \in Task : ft[u] = "new" => fate[u] = "new"
  BY <1>2 DEF Fate
<1>4. ProcessNext(q, frames, ft, TRUE)
  BY DEF Add
<1> HIDE DEF e, ft
<1>5. Sound(q, frames, ft)
  BY <1>1, <1>2, <1>3, EnqueueSound DEF CInv, IInv, Absent
<1>6. In(q) = In(tasks) \cup {t} /\ Sorted(q)
  BY <1>1, EnqueueSorted DEF CInv, Good
<1> HIDE DEF q
<1>7. Kept(q, frames, ft)
  BY <1>3, <1>6 DEF CInv, Good, Kept
<1>8. Good(q, frames, ft, processing) /\ Rest
  BY <1>6, <1>7 DEF CInv, IInv, Good
<1> QED BY <1>4, <1>5, <1>8, ProcessNextGood

(* A retry waits again, unless the queue has been shut down.               *)
LEMMA RetryTimerGood ==
  ASSUME CInv, NEW f \in frames, RetryTimer(f)
  PROVE  Good(tasks', frames', fate', processing')
<1>1. /\ f \in Frame /\ f.phase = "backoff" /\ Live(f)
      /\ IInv /\ Named(frames) /\ Listed(processing, frames)
      /\ fate \in [Task -> Fate]
  BY DEF CInv, Good, IInv, Sound, RetryTimer, Live
<1>2. CASE isShutdown
  <2>1. /\ frames' = MoveFrame(f, "rejecting")
        /\ fate' = [fate EXCEPT ![f.task] = "dropped"]
        /\ UNCHANGED <<tasks, processing>>
    BY <1>2 DEF RetryTimer
  <2>2. /\ f.task \in Task /\ f.task \notin In(tasks)
        /\ \A t \in Task : Lives(t, frames') <=>
             t # f.task /\ Lives(t, frames)
        /\ Named(frames') /\ Listed(processing, frames')
    BY <1>1, <2>1, MoveFrameGood DEF Phase
  <2>3. Kept(tasks, frames', fate')
    BY <1>1, <2>1, <2>2 DEF CInv, Good, Kept
  <2> QED BY <2>1, <2>2, <2>3 DEF CInv, Good
<1>3. CASE ~isShutdown
  <2> DEFINE e == [task |-> f.task, retryCount |-> f.retryCount + 1]
             fs == MoveFrame(f, "ending")
             q == Enqueue(tasks, e)
  <2>1. e \in Entry /\ e.task = f.task /\ tasks \in Seq(Entry)
    BY <1>1 DEF Entry, Frame, CInv, IInv, Sound
  <2>2. ProcessNext(q, fs, fate, TRUE)
    BY <1>3 DEF RetryTimer
  <2>3. Sound(q, fs, fate)
    BY <1>1, <1>3, RetryTimerSound
  <2>4. /\ f.task \in Task
        /\ \A t \in Task : Lives(t, fs) <=> t # f.task /\ Lives(t, frames)
        /\ Named(fs) /\ Listed(processing, fs)
    BY <1>1, MoveFrameGood DEF Phase
  <2> HIDE DEF e, fs
  <2>5. In(q) = In(tasks) \cup {f.task} /\ Sorted(q)
    BY <2>1, EnqueueSorted DEF CInv, Good
  <2> HIDE DEF q
  <2>6. Lives(f.task, frames)
    BY <1>1 DEF Lives
  <2>7. Kept(q, fs, fate)
    BY <2>4, <2>5, <2>6 DEF CInv, Good, Kept
  <2>8. Good(q, fs, fate, processing) /\ Rest
    BY <2>4, <2>5, <2>7 DEF CInv, IInv, Good
  <2> QED BY <2>2, <2>3, <2>8, ProcessNextGood
<1> QED BY <1>2, <1>3

(* Removing takes a task off the list, or an entry off the map.            *)
LEMMA RemoveGood ==
  ASSUME CInv, NEW id \in Id \cup {NoId}, RemoveTask(id)
  PROVE  Good(tasks', frames', fate', processing')
<1>1. CASE RemovePending(id)
  <2>1. PICK i \in DOMAIN tasks :
          /\ tasks' = RemoveAt(tasks, i)
          /\ fate' = [fate EXCEPT ![tasks[i].task] = "dropped"]
          /\ UNCHANGED <<processing, frames>>
    BY <1>1 DEF RemovePending
  <2>2. /\ tasks[i] \in Entry
        /\ In(RemoveAt(tasks, i)) = In(tasks) \ {tasks[i].task}
        /\ Sorted(RemoveAt(tasks, i))
    BY RemoveAtSorted DEF CInv, IInv, Good
  <2>3. tasks[i].task \in Task /\ ~Lives(tasks[i].task, frames)
    BY <2>2 DEF Entry, CInv, IInv, Sound, Apart, Lives
  <2>4. Kept(tasks', frames, fate')
    BY <2>1, <2>2, <2>3 DEF CInv, IInv, Sound, Good, Kept
  <2> QED BY <2>1, <2>2, <2>4 DEF CInv, Good
<1>2. CASE RemoveProcessing(id)
  <2>1. /\ UNCHANGED <<tasks, frames, fate>>
        /\ processing' = [processing EXCEPT ![id] = None]
    BY <1>2 DEF RemoveProcessing
  <2>2. Listed(processing', frames)
    BY <2>1 DEF CInv, IInv, Rest, Good, Listed
  <2> QED BY <2>1, <2>2 DEF CInv, Good
<1> QED BY <1>1, <1>2 DEF RemoveTask

(* Clearing and shutting down drop exactly what waits.                     *)
LEMMA DropGood ==
  ASSUME CInv, tasks' = <<>>, frames' = frames, fate' = DropWaiting,
         processing' = [i \in Id |-> None]
  PROVE  Good(tasks', frames', fate', processing')
<1>1. DOMAIN tasks' = {} /\ In(tasks') = {}
  BY DEF In
<1>2. \A t \in Task : t \in In(tasks) => ~Lives(t, frames)
  BY DEF CInv, IInv, Sound, Apart, In, Lives
<1>3. Kept(tasks', frames, fate')
  BY <1>1, <1>2 DEF DropWaiting, Waiting, In, CInv, Good, Kept
<1>4. Sorted(tasks') /\ Listed(processing', frames)
  BY <1>1 DEF Sorted, Listed
<1> QED BY <1>3, <1>4 DEF CInv, Good

(* A handler settles: its task is not open any more, or waits for a retry. *)
LEMMA SettleGood ==
  ASSUME CInv, NEW f \in frames, Complete(f) \/ Fail(f)
  PROVE  Good(tasks', frames', fate', processing')
<1>1. Live(f) /\ f \in Frame /\ tasks' = tasks /\ fate \in [Task -> Fate]
  BY DEF Complete, Fail, Live, CInv, IInv, Sound
<1>2. IInv /\ Named(frames) /\ Listed(processing, frames)
  BY DEF CInv, Good
<1>3. CASE Complete(f)
  <2>1. LeaveSlot(f) /\ fate' = [fate EXCEPT ![f.task] = "completed"]
    BY <1>3 DEF Complete
  <2>2. /\ f.task \in Task /\ f.task \notin In(tasks)
        /\ \A t \in Task : Lives(t, frames') <=> Lives(t, frames) /\ t # f.task
        /\ Named(frames') /\ Listed(processing', frames')
    BY <1>1, <1>2, <2>1, LeaveSlotGood
  <2>3. Kept(tasks, frames', fate')
    BY <1>1, <2>1, <2>2 DEF CInv, Good, Kept
  <2> QED BY <1>1, <2>2, <2>3 DEF CInv, Good
<1>4. CASE Fail(f) /\ RetriesLeft(f)
  <2>1. frames' = MoveFrame(f, "backoff") /\ UNCHANGED <<fate, processing>>
    BY <1>4 DEF Fail
  <2>2. /\ \A t \in Task : Lives(t, frames') <=> t = f.task \/ Lives(t, frames)
        /\ Named(frames') /\ Listed(processing, frames')
    BY <1>1, <1>2, <2>1, MoveFrameGood DEF Phase
  <2>3. Lives(f.task, frames)
    BY <1>1 DEF Lives
  <2>4. Kept(tasks, frames', fate)
    BY <2>2, <2>3 DEF CInv, Good, Kept
  <2> QED BY <1>1, <2>1, <2>2, <2>4 DEF CInv, Good
<1>5. CASE Fail(f) /\ ~RetriesLeft(f)
  <2>1. /\ frames' = MoveFrame(f, "ending") /\ processing' = processing
        /\ fate' = [fate EXCEPT ![f.task] = "failed"]
    BY <1>5 DEF Fail
  <2>2. /\ f.task \in Task /\ f.task \notin In(tasks)
        /\ \A t \in Task : Lives(t, frames') <=> Lives(t, frames) /\ t # f.task
        /\ Named(frames') /\ Listed(processing, frames')
    BY <1>1, <1>2, <2>1, MoveFrameGood DEF Phase
  <2>3. Kept(tasks, frames', fate')
    BY <1>1, <2>1, <2>2 DEF CInv, Good, Kept
  <2> QED BY <1>1, <2>1, <2>2, <2>3 DEF CInv, Good
<1> QED BY <1>3, <1>4, <1>5

(* What is left after the finally block was not live.                      *)
LEMMA FinallyGood ==
  ASSUME CInv, NEW f \in frames, Finally(f)
  PROVE  Good(tasks', frames', fate', processing')
<1>1. ~Live(f) /\ LeaveSlot(f) /\ UNCHANGED <<tasks, fate>>
  BY DEF Finally, Live
<1>2. /\ \A t \in Task : Lives(t, frames') <=> Lives(t, frames)
      /\ Named(frames') /\ Listed(processing', frames')
  BY <1>1, LeaveSlotGood DEF CInv, Good
<1> QED BY <1>1, <1>2 DEF CInv, Good, Kept

(* Every step keeps the invariant.                                         *)
LEMMA NextGood ==
  ASSUME CInv, [Next]_vars
  PROVE  Good(tasks', frames', fate', processing')
<1> USE DEF CInv
<1>1. ASSUME NEW t \in Task, Add(t)
      PROVE  Good(tasks', frames', fate', processing')
  BY <1>1, AddGood
<1>2. CASE Process \/ Resume \/ RunImmediate
  <2>1. PICK caught \in BOOLEAN : ProcessNext(tasks, frames, fate, caught)
    BY <1>2 DEF Process, Resume, RunImmediate
  <2>2. Sound(tasks, frames, fate) /\ Rest
    BY DEF IInv
  <2> QED BY <2>1, <2>2, ProcessNextGood
<1>3. CASE Pause \/ UNCHANGED vars
  <2>1. UNCHANGED <<tasks, frames, fate, processing>>
    BY <1>3 DEF Pause, vars
  <2> QED BY <2>1
<1>4. ASSUME NEW id \in Id \cup {NoId}, RemoveTask(id)
      PROVE  Good(tasks', frames', fate', processing')
  BY <1>4, RemoveGood
<1>5. CASE Clear \/ Shutdown
  BY <1>5, DropGood DEF Clear, Shutdown
<1>6. ASSUME NEW f \in frames, FrameStep(f)
      PROVE  Good(tasks', frames', fate', processing')
  BY <1>6, SettleGood, RetryTimerGood, FinallyGood DEF FrameStep
<1> QED BY <1>1, <1>2, <1>3, <1>4, <1>5, <1>6 DEF Next, ClientCall

(* The invariant of this module: what becomes of a task can be read off    *)
(* the list and the executions, and the map and the list are in order.     *)
THEOREM ContractInvariance == Spec => []CInv
<1>1. Init => CInv
  BY InitInv, InitGood DEF CInv
<1>2. CInv /\ [Next]_vars => CInv'
  <2> SUFFICES ASSUME CInv, [Next]_vars PROVE CInv'
    OBVIOUS
  <2>1. IInv'
    BY NextInv DEF CInv
  <2> QED BY <2>1, NextGood DEF CInv, Good, Kept, In, Lives, Live, Named,
                                Listed, Sorted
<1> QED BY <1>1, <1>2, PTL DEF Spec

(* An accepted task is in the list or with a live execution until it has   *)
(* an outcome.                                                             *)
THEOREM NoTaskIsLost == Spec => []NothingLost
<1>1. CInv => NothingLost
  BY DEF CInv, Good, Kept, In, Lives, NothingLost, Waiting
<1> QED BY <1>1, ContractInvariance, PTL

(* What the processing list shows has an execution behind it, each id one  *)
(* of its own, so it never counts more than the slot counter does.         *)
THEOREM NoGhosts == Spec => []NoGhostProcessing
<1>1. ASSUME CInv PROVE NoGhostProcessing
  <2> DEFINE S == {i \in Id : processing[i] # None}
             B(i, f) == f.task = processing[i] /\ IdOf[f.task] = i
             g == [i \in S |-> CHOOSE f \in frames : B(i, f)]
  <2>1. \A i \in S : \E f \in frames : B(i, f)
    BY <1>1 DEF CInv, Good, Listed
  <2>2. \A i \in S : g[i] \in frames /\ B(i, g[i])
    BY <2>1
  <2>3. g \in Injection(S, frames)
    <3>1. g \in [S -> frames]
      BY <2>2
    <3>2. \A i, j \in S : g[i] = g[j] => i = j
      BY <2>2
    <3> QED BY <3>1, <3>2 DEF Injection, IsInjective
  <2>4. Cardinality(S) <= Cardinality(frames)
    <3>1. IsFiniteSet(frames)
      BY <1>1 DEF CInv, IInv, Sound
    <3> HIDE DEF g, S
    <3> QED BY <2>3, <3>1, FS_Injection
  <2>5. GetStatus.processingTasks <= GetStatus.activeCount
    BY <1>1, <2>4 DEF CInv, IInv, Slots, GetStatus
  <2>6. ASSUME NEW t \in GetTasks("processing")
        PROVE  \E f \in frames : f.task = t
    <3>1. t \in Task /\ \E i \in Id : processing[i] = t
      BY <2>6 DEF GetTasks
    <3>2. t # None
      BY <3>1, QueueAssumption
    <3> QED BY <1>1, <3>1, <3>2 DEF CInv, Good, Listed
  <2> QED BY <2>5, <2>6 DEF NoGhostProcessing
<1> QED BY <1>1, ContractInvariance, PTL

------------------------------------------------------------------------------
(* Wake-ups.                                                               *)

(* A call of processNext leaves an execution behind, or nothing to start,  *)
(* or has just lost a task with the empty id.  With no slot at all it      *)
(* would leave the task and nothing to wake it.                            *)
LEMMA ProcessNextWakes ==
  ASSUME Concurrency > 0,
         NEW q, NEW fs, NEW ft, NEW caught \in BOOLEAN,
         Sound(q, fs, ft), Slots(fs, activeCount),
         ProcessNext(q, fs, ft, caught)
  PROVE  NoLostWakeup'
<1>1. CASE /\ ShouldSkipProcessing(q)
           /\ tasks' = q /\ frames' = fs
  <2>1. CASE activeCount >= Concurrency
    <3>1. Cardinality(fs) # 0
      BY <2>1, QueueAssumption DEF Slots
    <3> QED BY <1>1, <3>1, FS_EmptySet DEF NoLostWakeup
  <2>2. CASE ~(activeCount >= Concurrency)
    BY <1>1, <2>2 DEF ShouldSkipProcessing, NoLostWakeup
  <2> QED BY <2>1, <2>2
<1>2. CASE Take(q, fs, caught)
  BY <1>2 DEF Take, NoLostWakeup
<1>3. CASE /\ ~ShouldSkipProcessing(q)
           /\ RejectIdless(q, fs, caught)
           /\ fate' = [ft EXCEPT ![Head(q).task] = "dropped"]
  <2>1. q # <<>>
    BY <1>3 DEF ShouldSkipProcessing
  <2>2. Head(q).task \in Task /\ IdOf[Head(q).task] = NoId
    BY <1>3, <2>1, TakeSound DEF RejectIdless, Entry
  <2>3. fate'[Head(q).task] = "dropped"
    BY <1>3, <2>2 DEF Sound
  <2> QED BY <2>2, <2>3 DEF Swallowed, NoLostWakeup
<1> QED BY <1>1, <1>2, <1>3 DEF ProcessNext

(* Every step leaves something that will call processNext.                 *)
LEMMA NextWakes ==
  ASSUME Concurrency > 0, CInv, NoLostWakeup, [Next]_vars
  PROVE  NoLostWakeup'
<1>0. /\ Sound(tasks, frames, fate) /\ Slots(frames, activeCount)
      /\ tasks \in Seq(Entry) /\ immediates \in Nat
  BY DEF CInv, IInv, Sound, Rest
<1>1. ASSUME NEW t \in Task, Add(t) PROVE NoLostWakeup'
  <2> DEFINE e == [task |-> t, retryCount |-> 0]
             ft == [fate EXCEPT ![t] = "open"]
  <2>1. ProcessNext(Enqueue(tasks, e), frames, ft, TRUE)
    BY <1>1 DEF Add
  <2>2. /\ e \in Entry /\ e.task = t /\ Absent(t, tasks, frames)
        /\ ft \in [Task -> Fate] /\ ft[t] = "open"
        /\ \A u \in Task : ft[u] = "new" => fate[u] = "new"
    BY <1>0, <1>1 DEF Add, Entry, Sound, Fate
  <2> HIDE DEF e, ft
  <2>3. Sound(Enqueue(tasks, e), frames, ft)
    BY <1>0, <2>2, EnqueueSound DEF Absent
  <2> QED BY <1>0, <2>1, <2>3, ProcessNextWakes
<1>2. CASE Process \/ Resume \/ RunImmediate
  <2>1. PICK caught \in BOOLEAN : ProcessNext(tasks, frames, fate, caught)
    BY <1>2 DEF Process, Resume, RunImmediate
  <2> QED BY <1>0, <2>1, ProcessNextWakes
<1>3. CASE Pause \/ Clear \/ Shutdown \/ UNCHANGED vars
  <2>1. CASE UNCHANGED vars
    BY <2>1 DEF vars, flags, NoLostWakeup, Swallowed
  <2> QED BY <1>3, <2>1 DEF Pause, Clear, Shutdown, NoLostWakeup
<1>4. ASSUME NEW id \in Id \cup {NoId}, RemoveTask(id) PROVE NoLostWakeup'
  <2>1. \/ UNCHANGED <<flags, frames, immediates, crashed>> /\ tasks # <<>>
        \/ UNCHANGED <<flags, frames, immediates, crashed, tasks, fate>>
    <3>1. \A i \in DOMAIN tasks : tasks # <<>>
      OBVIOUS
    <3> QED BY <1>4, <3>1 DEF RemoveTask, RemovePending, RemoveProcessing
  <2>2. ASSUME NEW t \in Task, fate[t] = "dropped" PROVE fate'[t] = "dropped"
    <3>1. \/ UNCHANGED fate
          \/ \E i \in DOMAIN tasks : fate' = [fate EXCEPT ![tasks[i].task] = "dropped"]
      BY <1>4 DEF RemoveTask, RemovePending, RemoveProcessing
    <3> QED BY <1>0, <2>2, <3>1 DEF Sound
  <2> QED BY <2>1, <2>2 DEF NoLostWakeup, Swallowed, flags
<1>5. ASSUME NEW f \in frames, LeaveSlot(f) PROVE NoLostWakeup'
  BY <1>0, <1>5 DEF LeaveSlot, NoLostWakeup
<1>6. ASSUME NEW f \in frames, NEW p, frames' = MoveFrame(f, p)
      PROVE  NoLostWakeup'
  BY <1>6 DEF MoveFrame, NoLostWakeup
<1>7. ASSUME NEW f \in frames, RetryTimer(f), ~isShutdown PROVE NoLostWakeup'
  <2>1. ProcessNext(Enqueue(tasks, [task |-> f.task,
                                    retryCount |-> f.retryCount + 1]),
                    MoveFrame(f, "ending"), fate, TRUE)
    BY <1>7 DEF RetryTimer
  <2> QED BY <1>7, <2>1, RetryTimerSound, ProcessNextWakes DEF CInv
<1>8. ASSUME NEW f \in frames, FrameStep(f) PROVE NoLostWakeup'
  BY <1>5, <1>6, <1>7, <1>8 DEF FrameStep, Complete, Fail, Finally, RetryTimer
<1> QED BY <1>1, <1>2, <1>3, <1>4, <1>8 DEF Next, ClientCall

(* While a task could be started, an execution is under way or a callback  *)
(* is due, provided there is a slot at all.                                *)
THEOREM WakeupsAreKept ==
  ASSUME Concurrency > 0
  PROVE  Spec => []NoLostWakeup
<1>1. Init => NoLostWakeup
  BY DEF Init, NoLostWakeup
<1>2. CInv /\ NoLostWakeup /\ [Next]_vars => NoLostWakeup'
  BY NextWakes
<1> QED BY <1>1, <1>2, ContractInvariance, PTL DEF Spec

------------------------------------------------------------------------------
(* What starts.                                                            *)

Handles(t, fs) == \E f \in fs : f.phase = "handler" /\ f.task = t

(* A step starts nothing, or the first task of the list that processNext   *)
(* has been called on, the flags allowing it.                              *)
Starts(q) ==
  /\ q # <<>> /\ Sorted(q)
  /\ handler' /\ ~isPaused' /\ ~isShutdown'
  /\ \A f \in Starting : f.task = Head(q).task

(* A call of processNext starts the first task of its list or nothing.     *)
LEMMA ProcessNextStarts ==
  ASSUME NEW q, NEW fs, NEW ft, NEW caught \in BOOLEAN, Sorted(q),
         \A f \in fs : f.phase = "handler" => f \in frames,
         ProcessNext(q, fs, ft, caught)
  PROVE  Starting = {} \/ Starts(q)
<1>1. CASE frames' = fs
  BY <1>1 DEF Starting, Running
<1>2. CASE ~ShouldSkipProcessing(q) /\ Take(q, fs, caught)
  <2> DEFINE g == [task |-> Head(q).task, retryCount |-> Head(q).retryCount,
                   phase |-> "handler", caught |-> caught]
  <2>1. frames' = fs \cup {g} /\ g.task = Head(q).task
    BY <1>2 DEF Take
  <2> HIDE DEF g
  <2>2. \A f \in Starting : f = g
    BY <2>1 DEF Starting, Running
  <2> QED BY <1>2, <2>1, <2>2 DEF ShouldSkipProcessing, Starts
<1> QED BY <1>1, <1>2 DEF ProcessNext, RejectIdless

(* What a step starts was the first of the list, or has just entered it    *)
(* ahead of all others.                                                    *)
LEMMA NextStarts ==
  ASSUME CInv, [Next]_vars
  PROVE  \/ Starting = {}
         \/ Starts(tasks)
         \/ \E e \in Entry : Starts(Enqueue(tasks, e))
<1>0. tasks \in Seq(Entry) /\ Sorted(tasks) /\ frames \subseteq Frame
  BY DEF CInv, IInv, Sound, Good
<1>1. ASSUME NEW t \in Task, Add(t)
      PROVE  Starting = {} \/ \E e \in Entry : Starts(Enqueue(tasks, e))
  <2> DEFINE e == [task |-> t, retryCount |-> 0]
  <2>1. \E ft : ProcessNext(Enqueue(tasks, e), frames, ft, TRUE)
    BY <1>1 DEF Add
  <2>2. e \in Entry
    BY DEF Entry
  <2> HIDE DEF e
  <2>3. Sorted(Enqueue(tasks, e))
    BY <1>0, <2>2, EnqueueSorted
  <2> QED BY <2>1, <2>2, <2>3, ProcessNextStarts
<1>2. CASE Process \/ Resume \/ RunImmediate
  <2>1. PICK caught \in BOOLEAN : ProcessNext(tasks, frames, fate, caught)
    BY <1>2 DEF Process, Resume, RunImmediate
  <2> QED BY <1>0, <2>1, ProcessNextStarts
<1>3. ASSUME frames' \subseteq frames PROVE Starting = {}
  BY <1>3 DEF Starting, Running
<1>4. CASE Pause \/ Clear \/ Shutdown \/ UNCHANGED vars
  BY <1>3, <1>4 DEF Pause, Clear, Shutdown, vars
<1>5. ASSUME NEW id \in Id \cup {NoId}, RemoveTask(id) PROVE Starting = {}
  BY <1>3, <1>5 DEF RemoveTask, RemovePending, RemoveProcessing
<1>6. ASSUME NEW f \in frames, NEW p \in Phase, p # "handler"
      PROVE  \A g \in MoveFrame(f, p) : g.phase = "handler" => g \in frames
  <2>1. f \in Frame /\ [f EXCEPT !.phase = p].phase = p
    BY <1>0 DEF Frame
  <2> QED BY <1>6, <2>1 DEF MoveFrame
<1>7. ASSUME NEW f \in frames, NEW p \in Phase, p # "handler",
             frames' = MoveFrame(f, p)
      PROVE  Starting = {}
  BY <1>6, <1>7 DEF Starting, Running
<1>8. ASSUME NEW f \in frames, RetryTimer(f)
      PROVE  Starting = {} \/ \E e \in Entry : Starts(Enqueue(tasks, e))
  <2>1. CASE isShutdown
    BY <1>7, <1>8, <2>1 DEF RetryTimer, Phase
  <2>2. CASE ~isShutdown
    <3> DEFINE e == [task |-> f.task, retryCount |-> f.retryCount + 1]
    <3>1. ProcessNext(Enqueue(tasks, e), MoveFrame(f, "ending"), fate, TRUE)
      BY <1>8, <2>2 DEF RetryTimer
    <3>2. e \in Entry
      BY <1>0 DEF Entry, Frame
    <3> HIDE DEF e
    <3>3. Sorted(Enqueue(tasks, e))
      BY <1>0, <3>2, EnqueueSorted
    <3>4. \A g \in MoveFrame(f, "ending") : g.phase = "handler" => g \in frames
      BY <1>6 DEF Phase
    <3> QED BY <3>1, <3>2, <3>3, <3>4, ProcessNextStarts
  <2> QED BY <2>1, <2>2
<1>9. ASSUME NEW f \in frames, Fail(f) PROVE Starting = {}
  BY <1>7, <1>9 DEF Fail, Phase
<1>10. ASSUME NEW f \in frames, Complete(f) \/ Finally(f) PROVE Starting = {}
  BY <1>3, <1>10 DEF Complete, Finally, LeaveSlot
<1>11. ASSUME NEW f \in frames, FrameStep(f)
       PROVE  Starting = {} \/ \E e \in Entry : Starts(Enqueue(tasks, e))
  BY <1>8, <1>9, <1>10, <1>11 DEF FrameStep
<1> QED BY <1>1, <1>2, <1>4, <1>5, <1>11 DEF Next, ClientCall

(* Nothing starts once the queue is paused or shut down.                   *)
THEOREM OnlyWhenOpen == Spec => StartsOnlyWhenOpen
<1>1. CInv /\ [Next]_vars =>
        [Starting # {} => handler' /\ ~isPaused' /\ ~isShutdown']_vars
  BY NextStarts DEF Starts
<1> QED BY <1>1, ContractInvariance, PTL DEF Spec, StartsOnlyWhenOpen

(* What starts outranks all that waits, or has waited longest of those of  *)
(* its priority.                                                           *)
THEOREM TheBestStarts == Spec => StartsBest
<1> DEFINE Behind(f, i) ==
             \/ tasks[i].task = f.task
             \/ Priority[tasks[i].task] < Priority[f.task]
             \/ /\ Priority[tasks[i].task] = Priority[f.task]
                /\ \E k \in 1 .. i - 1 : tasks[k].task = f.task
<1>1. ASSUME CInv, [Next]_vars, NEW f \in Starting, NEW i \in DOMAIN tasks
      PROVE  Behind(f, i)
  <2>0. /\ tasks \in Seq(Entry) /\ Sorted(tasks)
        /\ Len(tasks) \in Nat /\ DOMAIN tasks = 1 .. Len(tasks)
    BY <1>1, LenProperties DEF CInv, IInv, Sound, Good
  <2>1. \A x \in Entry : Priority[x.task] \in Nat
    BY QueueAssumption DEF Entry
  <2>2. tasks[1] \in Entry /\ tasks[i] \in Entry /\ 1 \in DOMAIN tasks
    BY <2>0, ElementOfSeq
  <2>3. CASE tasks # <<>> /\ f.task = Head(tasks).task
    <3>1. f.task = tasks[1].task
      BY <2>0, <2>3, HeadTailProperties
    <3>2. CASE i > 1
      <4>1. Priority[tasks[1].task] >= Priority[tasks[i].task]
        BY <2>0, <2>2, <3>2 DEF Sorted
      <4>2. 1 \in 1 .. i - 1
        BY <2>0, <3>2
      <4> QED BY <2>1, <2>2, <3>1, <4>1, <4>2
    <3> QED BY <2>0, <3>1, <3>2
  <2>4. CASE \E e \in Entry : Starts(Enqueue(tasks, e))
    <3>1. PICK e \in Entry : f.task = Head(Enqueue(tasks, e)).task
      BY <1>1, <2>4 DEF Starts
    <3>2. \/ /\ Head(Enqueue(tasks, e)) = e
             /\ \A j \in DOMAIN tasks : Priority[tasks[j].task] < Priority[e.task]
          \/ tasks # <<>> /\ Head(Enqueue(tasks, e)) = Head(tasks)
      BY <2>0, EnqueueSorted
    <3> QED BY <2>3, <3>1, <3>2
  <2> QED BY <1>1, <2>3, <2>4, NextStarts DEF Starts
<1>2. CInv /\ [Next]_vars =>
        [\A f \in Starting, i \in DOMAIN tasks : Behind(f, i)]_vars
  BY <1>1
<1> QED BY <1>2, ContractInvariance, PTL DEF Spec, StartsBest

------------------------------------------------------------------------------
(* The queue implements the Queue interface.                               *)

(* StatusOf of given executions and fates.                                 *)
StatusIn(t, fs, ft) ==
  IF ft[t] # "open" THEN ft[t]
  ELSE IF Handles(t, fs) THEN "active" ELSE "waiting"

(* Every task has a status the interface knows.                            *)
LEMMA StatusType ==
  ASSUME NEW t \in Task, NEW fs, NEW ft \in [Task -> Fate]
  PROVE  /\ StatusIn(t, fs, ft) \in Lifecycle!Status
         /\ StatusIn(t, fs, ft) = "active" <=> ft[t] = "open" /\ Handles(t, fs)
<1>1. ft[t] \in Fate
  OBVIOUS
<1> QED BY <1>1 DEF StatusIn, Lifecycle!Status, Fate

(* The status of a task in the refinement mapping, now and after a step.   *)
LEMMA StatusIs ==
  ASSUME NEW t \in Task
  PROVE  /\ [u \in Task |-> StatusOf(u)][t] = StatusIn(t, frames, fate)
         /\ [u \in Task |-> StatusOf(u)]'[t] = StatusIn(t, frames', fate')
BY DEF StatusOf, StatusIn, Handles, Running

(* A move that the interface allows one task.                              *)
May(x, y) == x = y \/ <<x, y>> \in Lifecycle!Moves

(* A call of processNext starts or drops a waiting task, or does nothing.  *)
LEMMA ProcessNextMoves ==
  ASSUME NEW q, NEW fs, NEW ft, NEW caught \in BOOLEAN, NEW t \in Task,
         Sound(q, fs, ft), Kept(q, fs, ft), ProcessNext(q, fs, ft, caught)
  PROVE  \/ StatusIn(t, frames', fate') = StatusIn(t, fs, ft)
         \/ /\ StatusIn(t, fs, ft) = "waiting"
            /\ StatusIn(t, frames', fate') \in {"active", "dropped"}
<1> DEFINE e == Head(q)
<1>1. CASE frames' = fs /\ fate' = ft
  BY <1>1
<1>2. ASSUME ~ShouldSkipProcessing(q)
      PROVE  /\ e.task \in Task /\ ft \in [Task -> Fate]
             /\ ft[e.task] = "open" /\ ~Handles(e.task, fs)
  <2>1. q # <<>> /\ q \in Seq(Entry)
    BY <1>2 DEF ShouldSkipProcessing, Sound
  <2>2. e \in Entry /\ e = q[1] /\ 1 \in DOMAIN q
    <3>1. Len(q) \in Nat /\ DOMAIN q = 1 .. Len(q) /\ Len(q) # 0
      BY <2>1, LenProperties, EmptySeq
    <3> QED BY <2>1, <3>1, HeadTailProperties
  <2>3. e.task \in Task /\ e.task \in In(q)
    BY <2>2 DEF Entry, In
  <2> QED BY <2>2, <2>3 DEF Kept, Sound, Apart, Handles, Live
<1>3. CASE ~ShouldSkipProcessing(q) /\ Take(q, fs, caught) /\ fate' = ft
  <2> DEFINE g == [task |-> e.task, retryCount |-> e.retryCount,
                   phase |-> "handler", caught |-> caught]
  <2>1. frames' = fs \cup {g}
    BY <1>3 DEF Take
  <2>2. g.task = e.task /\ g.phase = "handler"
    OBVIOUS
  <2> HIDE DEF e, g
  <2>3. CASE t = e.task
    <3>1. Handles(t, frames')
      BY <2>1, <2>2, <2>3 DEF Handles
    <3> QED BY <1>2, <1>3, <2>3, <3>1 DEF StatusIn
  <2>4. CASE t # e.task
    <3>1. Handles(t, frames') <=> Handles(t, fs)
      BY <2>1, <2>2, <2>4 DEF Handles
    <3> QED BY <1>3, <3>1 DEF StatusIn
  <2> QED BY <2>3, <2>4
<1>4. CASE /\ ~ShouldSkipProcessing(q)
           /\ RejectIdless(q, fs, caught)
           /\ fate' = [ft EXCEPT ![e.task] = "dropped"]
  BY <1>2, <1>4 DEF RejectIdless, StatusIn
<1> QED BY <1>1, <1>3, <1>4 DEF ProcessNext

(* Every step takes every task where the interface allows it to go.        *)
LEMMA NextMoves ==
  ASSUME CInv, [Next]_vars, NEW t \in Task
  PROVE  May(StatusIn(t, frames, fate), StatusIn(t, frames', fate'))
<1> DEFINE old == StatusIn(t, frames, fate)
           new == StatusIn(t, frames', fate')
<1>0. /\ Sound(tasks, frames, fate) /\ Good(tasks, frames, fate, processing)
      /\ Kept(tasks, frames, fate) /\ Rest /\ fate \in [Task -> Fate]
      /\ \A f \in frames : f \in Frame /\ f.task \in Task
  BY DEF CInv, IInv, Good, Sound, Frame
<1>1. ASSUME NEW u \in Task, Add(u) PROVE May(old, new)
  <2> DEFINE e == [task |-> u, retryCount |-> 0]
             ft == [fate EXCEPT ![u] = "open"]
             q == Enqueue(tasks, e)
  <2>1. ProcessNext(q, frames, ft, TRUE)
    BY <1>1 DEF Add
  <2>2. /\ e \in Entry /\ e.task = u /\ Absent(u, tasks, frames)
        /\ ft \in [Task -> Fate] /\ ft[u] = "open" /\ fate[u] = "new"
        /\ \A v \in Task \ {u} : ft[v] = fate[v]
        /\ \A v \in Task : ft[v] = "new" => fate[v] = "new"
    BY <1>0, <1>1 DEF Add, Entry, Sound, Fate
  <2> HIDE DEF e, ft
  <2>3. Sound(q, frames, ft)
    BY <1>0, <2>2, EnqueueSound DEF Absent
  <2>4. In(q) = In(tasks) \cup {u}
    BY <1>0, <2>2, EnqueueSorted DEF Sound, Good
  <2> HIDE DEF q
  <2>5. Kept(q, frames, ft)
    BY <1>0, <2>2, <2>4 DEF Kept
  <2>6. \/ new = StatusIn(t, frames, ft)
        \/ /\ StatusIn(t, frames, ft) = "waiting"
           /\ new \in {"active", "dropped"}
    BY <2>1, <2>3, <2>5, ProcessNextMoves
  <2>7. CASE t = u
    <3>1. old = "new" /\ StatusIn(t, frames, ft) = "waiting"
      BY <2>2, <2>7 DEF StatusIn, Handles, Absent
    <3> QED BY <2>6, <3>1 DEF May, Lifecycle!Moves
  <2>8. CASE t # u
    <3>1. StatusIn(t, frames, ft) = old
      BY <2>2, <2>8 DEF StatusIn
    <3> QED BY <2>6, <3>1 DEF May, Lifecycle!Moves
  <2> QED BY <2>7, <2>8
<1>2. CASE Process \/ Resume \/ RunImmediate
  <2>1. PICK caught \in BOOLEAN : ProcessNext(tasks, frames, fate, caught)
    BY <1>2 DEF Process, Resume, RunImmediate
  <2>2. new = old \/ (old = "waiting" /\ new \in {"active", "dropped"})
    BY <1>0, <2>1, ProcessNextMoves
  <2> QED BY <2>2 DEF May, Lifecycle!Moves
<1>3. ASSUME UNCHANGED <<frames, fate>> PROVE May(old, new)
  BY <1>3 DEF May
<1>4. ASSUME frames' = frames,
             fate'[t] = fate[t] \/ (t \in In(tasks) /\ fate'[t] = "dropped")
      PROVE  May(old, new)
  <2>1. CASE fate'[t] = fate[t]
    BY <1>4, <2>1 DEF May, StatusIn, Handles
  <2>2. CASE t \in In(tasks) /\ fate'[t] = "dropped"
    <3>1. fate[t] = "open" /\ ~Handles(t, frames)
      BY <1>0, <2>2 DEF Kept, Sound, Apart, In, Handles, Live
    <3> QED BY <2>2, <3>1 DEF May, Lifecycle!Moves, StatusIn
  <2> QED BY <1>4, <2>1, <2>2
<1>5. CASE Clear \/ Shutdown
  <2>1. frames' = frames /\ fate' = DropWaiting
    BY <1>5 DEF Clear, Shutdown
  <2> QED BY <1>4, <2>1 DEF DropWaiting, Waiting, In
<1>6. ASSUME NEW id \in Id \cup {NoId}, RemoveTask(id) PROVE May(old, new)
  <2>1. CASE RemoveProcessing(id)
    BY <1>3, <2>1 DEF RemoveProcessing
  <2>2. CASE RemovePending(id)
    <3>1. PICK i \in DOMAIN tasks :
            frames' = frames /\ fate' = [fate EXCEPT ![tasks[i].task] = "dropped"]
      BY <2>2 DEF RemovePending
    <3> QED BY <1>0, <1>4, <3>1 DEF In
  <2> QED BY <1>6, <2>1, <2>2 DEF RemoveTask
<1>7. ASSUME NEW f \in frames, NEW p \in Phase, p # "handler", Live(f)
      PROVE  Handles(t, MoveFrame(f, p)) <=> Handles(t, frames) /\ t # f.task
  <2> DEFINE g == [f EXCEPT !.phase = p]
  <2>1. MoveFrame(f, p) = (frames \ {f}) \cup {g} /\ g.phase = p
    BY <1>0 DEF MoveFrame, Frame
  <2>2. \A h \in frames \ {f} : h.task = f.task => h.phase # "handler"
    BY <1>0, <1>7 DEF Sound, Apart, Live
  <2> HIDE DEF g
  <2> QED BY <1>7, <2>1, <2>2 DEF Handles
<1>8. ASSUME NEW f \in frames, Complete(f) \/ Fail(f) PROVE May(old, new)
  <2>1. f.phase = "handler" /\ Live(f) /\ Lives(f.task, frames)
        /\ Handles(f.task, frames) /\ fate[f.task] = "open"
    BY <1>0, <1>8 DEF Complete, Fail, Live, Lives, Handles, Kept
  <2>2. Handles(t, frames') <=> Handles(t, frames) /\ t # f.task
    <3>1. CASE Complete(f)
      BY <1>0, <2>1, <3>1 DEF Complete, LeaveSlot, Handles, Sound, Apart, Live
    <3>2. CASE Fail(f)
      BY <1>7, <2>1, <3>2 DEF Fail, Phase
    <3> QED BY <1>8, <3>1, <3>2
  <2>3. CASE t = f.task
    <3>1. fate'[t] \in {"open", "completed", "failed"} /\ old = "active"
      BY <1>0, <1>8, <2>1, <2>3 DEF Complete, Fail, StatusIn
    <3>2. new \in {"waiting", "completed", "failed"}
      BY <2>2, <2>3, <3>1 DEF StatusIn
    <3> QED BY <3>1, <3>2 DEF May, Lifecycle!Moves
  <2>4. CASE t # f.task
    <3>1. fate'[t] = fate[t]
      BY <1>0, <1>8, <2>4 DEF Complete, Fail
    <3> QED BY <2>2, <2>4, <3>1 DEF May, StatusIn
  <2> QED BY <2>3, <2>4
<1>9. ASSUME NEW f \in frames, RetryTimer(f) PROVE May(old, new)
  <2>1. f.phase = "backoff" /\ Live(f) /\ Lives(f.task, frames)
        /\ fate[f.task] = "open" /\ f.task \in Task
    BY <1>0, <1>9 DEF RetryTimer, Live, Lives, Kept
  <2>2. ~Handles(f.task, frames)
    BY <1>0, <2>1 DEF Sound, Apart, Handles, Live
  <2>3. \A p \in {"ending", "rejecting"} :
          Handles(t, MoveFrame(f, p)) <=> Handles(t, frames)
    BY <1>7, <2>1, <2>2 DEF Phase
  <2>4. CASE isShutdown
    <3>1. frames' = MoveFrame(f, "rejecting")
          /\ fate' = [fate EXCEPT ![f.task] = "dropped"]
      BY <1>9, <2>4 DEF RetryTimer
    <3>2. CASE t = f.task
      <4>1. old = "waiting" /\ new = "dropped"
        BY <1>0, <2>1, <2>2, <3>1, <3>2 DEF StatusIn
      <4> QED BY <4>1 DEF May, Lifecycle!Moves
    <3>3. CASE t # f.task
      BY <1>0, <2>3, <3>1, <3>3 DEF May, StatusIn
    <3> QED BY <3>2, <3>3
  <2>5. CASE ~isShutdown
    <3> DEFINE e == [task |-> f.task, retryCount |-> f.retryCount + 1]
               fs == MoveFrame(f, "ending")
               q == Enqueue(tasks, e)
    <3>1. ProcessNext(q, fs, fate, TRUE)
      BY <1>9, <2>5 DEF RetryTimer
    <3>2. Sound(q, fs, fate)
      BY <1>9, <2>5, RetryTimerSound DEF CInv
    <3>3. e \in Entry /\ e.task = f.task
      BY <1>0 DEF Entry, Frame
    <3>4. In(q) = In(tasks) \cup {f.task}
      <4> HIDE DEF e
      <4> QED BY <1>0, <3>3, EnqueueSorted DEF Sound, Good
    <3>5. \A u \in Task : Lives(u, fs) <=> u # f.task /\ Lives(u, frames)
      BY <2>1, MoveFrameGood DEF CInv, Good, Phase
    <3>6. Kept(q, fs, fate)
      <4> HIDE DEF q, fs
      <4> QED BY <1>0, <2>1, <3>4, <3>5 DEF Kept
    <3>7. StatusIn(t, fs, fate) = old
      BY <2>3 DEF StatusIn
    <3> HIDE DEF q, fs
    <3>8. new = old \/ (old = "waiting" /\ new \in {"active", "dropped"})
      BY <3>1, <3>2, <3>6, <3>7, ProcessNextMoves
    <3> QED BY <3>8 DEF May, Lifecycle!Moves
  <2> QED BY <2>4, <2>5
<1>10. ASSUME NEW f \in frames, Finally(f) PROVE May(old, new)
  <2>1. f.phase # "handler" /\ frames' = frames \ {f} /\ fate' = fate
    BY <1>10 DEF Finally, LeaveSlot
  <2>2. Handles(t, frames') <=> Handles(t, frames)
    BY <2>1 DEF Handles
  <2> QED BY <2>1, <2>2 DEF May, StatusIn
<1>11. ASSUME NEW f \in frames, FrameStep(f) PROVE May(old, new)
  BY <1>8, <1>9, <1>10, <1>11 DEF FrameStep
<1>12. CASE Pause \/ UNCHANGED vars
  BY <1>3, <1>12 DEF Pause, vars
<1> HIDE DEF old, new
<1>13. CASE ClientCall
  BY <1>1, <1>2, <1>5, <1>6, <1>12, <1>13 DEF ClientCall, old, new
<1>14. CASE \E f \in frames : FrameStep(f)
  BY <1>11, <1>14 DEF old, new
<1> QED BY <1>2, <1>12, <1>13, <1>14 DEF Next, old, new

(* A step makes at most one task active: the one that starts.              *)
LEMMA NextActivates ==
  ASSUME CInv, [Next]_vars, NEW t \in Task, NEW u \in Task,
         StatusIn(t, frames', fate') = "active",
         StatusIn(t, frames, fate) # "active",
         StatusIn(u, frames', fate') = "active",
         StatusIn(u, frames, fate) # "active"
  PROVE  t = u
<1>1. ASSUME NEW x \in Task, StatusIn(x, frames', fate') = "active",
             StatusIn(x, frames, fate) # "active"
      PROVE  \E f \in Starting : f.task = x
  <2>1. fate \in [Task -> Fate] /\ Kept(tasks, frames, fate)
    BY DEF CInv, IInv, Sound, Good
  <2>2. fate' \in [Task -> Fate]
    BY NextInv DEF CInv, IInv, Sound
  <2>3. PICK f \in frames' : f.phase = "handler" /\ f.task = x
    BY <1>1, <2>2, StatusType DEF Handles
  <2>4. f \notin frames
    <3>1. SUFFICES ASSUME f \in frames PROVE FALSE
      OBVIOUS
    <3>2. fate[x] = "open" /\ Handles(x, frames)
      BY <2>1, <2>3, <3>1 DEF Kept, Lives, Live, Handles
    <3> QED BY <1>1, <2>1, <3>2, StatusType
  <2> QED BY <2>3, <2>4 DEF Starting, Running
<1>2. \A f, g \in Starting : f.task = g.task
  BY NextStarts DEF Starts
<1> QED BY <1>1, <1>2

(* No more tasks are active than there are slots.                          *)
LEMMA ActiveBounded ==
  ASSUME NEW fs, NEW ft \in [Task -> Fate], IsFiniteSet(fs),
         Cardinality(fs) <= Concurrency
  PROVE  Cardinality({t \in Task : StatusIn(t, fs, ft) = "active"}) <= Concurrency
<1> DEFINE S == {t \in Task : StatusIn(t, fs, ft) = "active"}
           g == [t \in S |-> CHOOSE f \in fs : f.task = t]
<1>1. \A t \in S : \E f \in fs : f.task = t
  BY StatusType DEF Handles
<1>2. \A t \in S : g[t] \in fs /\ g[t].task = t
  BY <1>1
<1>3. g \in Injection(S, fs)
  <2>1. g \in [S -> fs] /\ \A t, u \in S : g[t] = g[u] => t = u
    BY <1>2
  <2> HIDE DEF S, g
  <2> QED BY <2>1 DEF Injection, IsInjective
<1> HIDE DEF S, g
<1>4. Cardinality(S) <= Cardinality(fs) /\ Cardinality(S) \in Nat
  BY <1>3, FS_Injection, FS_CardinalityType
<1>5. Cardinality(fs) \in Nat
  BY FS_CardinalityType
<1>6. Cardinality(S) <= Concurrency
  BY <1>4, <1>5, QueueAssumption
<1> QED BY <1>6 DEF S

(* Every step of the queue is one step, or none, of the interface.         *)
LEMMA NextImplements ==
  ASSUME CInv, [Next]_vars
  PROVE  Lifecycle!Next
<1> DEFINE status == [t \in Task |-> StatusOf(t)]
           old(t) == StatusIn(t, frames, fate)
           new(t) == StatusIn(t, frames', fate')
           starts(t) == new(t) = "active" /\ old(t) # "active"
<1>1. /\ status = [t \in Task |-> old(t)]
      /\ status' = [t \in Task |-> new(t)]
  BY DEF StatusOf, StatusIn, Handles, Running
<1>2. fate' \in [Task -> Fate] /\ IsFiniteSet(frames')
      /\ Cardinality(frames') <= Concurrency
  BY NextInv DEF CInv, IInv, Sound, Slots
<1>3. \A t \in Task : new(t) \in Lifecycle!Status
  BY <1>2, StatusType
<1>4. \A t \in Task : new(t) = old(t) \/ <<old(t), new(t)>> \in Lifecycle!Moves
  BY NextMoves DEF May
<1>5. \A t, u \in Task : starts(t) /\ starts(u) => t = u
  BY NextActivates
<1>6. Cardinality({t \in Task : new(t) = "active"}) <= Concurrency
  BY <1>2, ActiveBounded
<1> HIDE DEF status, old, new
<1>7. status' \in [Task -> Lifecycle!Status]
  BY <1>1, <1>3
<1>8. \A t \in Task : status'[t] = status[t]
                      \/ <<status[t], status'[t]>> \in Lifecycle!Moves
  BY <1>1, <1>4
<1> DEFINE Was == {t \in Task : status[t] = "active"}
           Is == {t \in Task : status'[t] = "active"}
<1>9. \A t, u \in Is \ Was : t = u
  BY <1>1, <1>5
<1>10. Cardinality(Is) <= Concurrency
  <2>1. Is = {t \in Task : new(t) = "active"}
    BY <1>1
  <2> QED BY <1>6, <2>1
<1>11. Is = Lifecycle!Active' /\ Was = Lifecycle!Active
  BY DEF Lifecycle!Active, status
<1>12. Lifecycle!Cardinality(Is) <= Concurrency
  BY <1>10 DEF Lifecycle!Cardinality, Cardinality
<1> HIDE DEF Is, Was
<1> QED BY <1>7, <1>8, <1>9, <1>11, <1>12 DEF Lifecycle!Next, status

(* The queue implements the Queue interface: each task is submitted,       *)
(* waits, is handled, waits again for a retry and ends once, at most one   *)
(* starts at a time and no slot is used twice.                             *)
THEOREM Implements == Spec => ImplementsLifecycle
<1>1. Init => Lifecycle!Init
  <2> SUFFICES ASSUME Init PROVE Lifecycle!Init
    OBVIOUS
  <2>1. \A t \in Task : StatusOf(t) = "new"
    BY DEF Init, StatusOf
  <2> QED BY <2>1 DEF Lifecycle!Init
<1>2. CInv /\ [Next]_vars => [Lifecycle!Next]_([t \in Task |-> StatusOf(t)])
  BY NextImplements
<1> QED BY <1>1, <1>2, ContractInvariance, PTL
        DEF Spec, ImplementsLifecycle, Lifecycle!Spec
==============================================================================
