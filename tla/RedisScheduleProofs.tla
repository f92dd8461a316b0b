-------------------------- MODULE RedisScheduleProofs --------------------------
(***************************************************************************)
(* Proofs about RedisSchedule, for any number of workers and tasks, any    *)
(* delays and retry limits, and priorities up to 100.                      *)
(***************************************************************************)
EXTENDS RedisSchedule, FiniteSetTheorems, WellFoundedInduction, TLAPS

Score100 == {i \in Int : i >= -100}

(* A set of integers from -100 upwards has a least one.                    *)
LEMMA Least ==
  ASSUME NEW S \in SUBSET Score100, S # {}
  PROVE  Min(S) \in S /\ \A i \in S : Min(S) <= i
<1> DEFINE T == {i \in Nat : i - 100 \in S}
           R == OpToRel(<, Nat)
<1>0. \A x, y \in Nat : x < y => <<x, y>> \in R
  BY Zenon DEF OpToRel
<1>1. T # {}
  <2>1. PICK i \in S : TRUE
    OBVIOUS
  <2>2. i + 100 \in Nat /\ (i + 100) - 100 = i
    BY DEF Score100
  <2> QED BY <2>2
<1>2. PICK x \in T : \A y \in T : ~(<<y, x>> \in R)
  <2>1. IsWellFoundedOn(R, Nat)
    BY NatLessThanWellFounded
  <2>2. T \subseteq Nat
    OBVIOUS
  <2> HIDE DEF T, R
  <2> QED BY <1>1, <2>1, <2>2, WFMin
<1> HIDE DEF R
<1>n. T \subseteq Nat /\ x \in Nat
  BY <1>2
<1>3. \A y \in T : x <= y
  <2> TAKE y \in T
  <2>1. y \in Nat
    OBVIOUS
  <2> HIDE DEF T
  <2>2. ~(y < x)
    BY <1>0, <1>2, <1>n, <2>1
  <2> QED BY <1>n, <2>1, <2>2
<1>4. ASSUME NEW i \in S PROVE x - 100 <= i
  <2>1. i + 100 \in Nat /\ (i + 100) - 100 = i
    BY DEF Score100
  <2>2. i + 100 \in T
    BY <2>1
  <2>3. x <= i + 100
    <3> HIDE DEF T
    <3> QED BY <1>3, <2>2
  <2> QED BY <1>n, <2>1, <2>3 DEF Score100
<1>5. x - 100 \in S
  OBVIOUS
<1>6. \E i \in S : \A j \in S : i <= j
  BY <1>4, <1>5
<1> QED BY <1>6 DEF Min

(* A task waits the longer after a failure, and its scores are integers    *)
(* not below those of the highest priority.                                *)
LEMMA Delays ==
  ASSUME NEW t \in Task
  PROVE  /\ FirstDelay(t) \in Nat /\ RetryDelay(t) \in Nat
         /\ FirstDelay(t) <= RetryDelay(t)
         /\ Priority[t] \in 0 .. 100
         /\ Score(t, FirstDelay(t)) \in Int /\ Score(t, RetryDelay(t)) \in Int
         /\ -100 <= Score(t, FirstDelay(t))
<1>1. /\ FirstDelay(t) \in Nat /\ RetryDelay(t) \in Nat
      /\ FirstDelay(t) <= RetryDelay(t) /\ Priority[t] \in 0 .. 100
  BY ScheduleAssumption DEF FirstDelay, RetryDelay, Or
<1> QED BY <1>1 DEF Score

(* The score that overdue tasks are moved up to is an integer.             *)
LEMMA LowestType == Lowest \in Int
<1> DEFINE S == {Score(t, FirstDelay(t)) : t \in Task} \cup {0}
<1>1. S \in SUBSET Score100 /\ S # {}
  BY Delays DEF Score100
<1>2. Min(S) \in S
  <2> HIDE DEF S
  <2> QED BY <1>1, Least
<1>3. S \subseteq Int
  BY <1>1 DEF Score100
<1> QED BY <1>2, <1>3 DEF Lowest

(* Max and Min of two integers.                                            *)
LEMMA OfTwo ==
  ASSUME NEW a \in Int, NEW b \in Int
  PROVE  /\ Max({a, b}) \in Int /\ Max({a, b}) >= a /\ Max({a, b}) >= b
         /\ Min({a, b}) = IF a <= b THEN a ELSE b
<1>1. \E x \in {a, b} : \A y \in {a, b} : x >= y
  OBVIOUS
<1>2. Max({a, b}) \in {a, b} /\ \A y \in {a, b} : Max({a, b}) >= y
  BY <1>1 DEF Max
<1>3. \E x \in {a, b} : \A y \in {a, b} : x =< y
  OBVIOUS
<1>4. Min({a, b}) \in {a, b} /\ \A y \in {a, b} : Min({a, b}) <= y
  BY <1>3 DEF Min
<1> QED BY <1>2, <1>4

------------------------------------------------------------------------------
(* The inductive invariant.                                                *)

(* How long a task is to be kept back, by its delay and its priority.      *)
Due(t) == FirstDelay(t) - Priority[t]
Submitted(t) == age[t] \in 0 .. FirstDelay(t)

Timed ==
  /\ due \in [Task -> Int \cup {None}]
  /\ age \in [Task -> Nat \cup {None}]
  /\ at \in [Worker -> {"poll", "move", "handle", "clean"}]
  /\ task \in [Worker -> Task \cup {None}]
  /\ processing \subseteq Task
  /\ \A t \in Task : age[t] # None => Submitted(t)
  /\ \A t \in processing : Submitted(t)
  /\ \A w \in Worker : at[w] # "poll" => task[w] \in Task /\ Submitted(task[w])

(* The score of a waiting task and its age together never fall below what  *)
(* it is to be kept back, as long as its age is counted; a task is taken   *)
(* when it is old enough.                                                  *)
Kept ==
  /\ \A t \in queue :
       Submitted(t) /\ (due[t] + age[t] >= Due(t) \/ age[t] = FirstDelay(t))
  /\ \A w \in Worker : at[w] = "move" => age[task[w]] >= Due(task[w])

DInv == Timed /\ Kept

(* At first nothing is submitted.                                          *)
LEMMA DInvInit == Init => DInv
BY ScheduleAssumption DEF Init, DInv, Timed, Kept, queue

(* A step of a worker writes scores for submitted tasks only, and as high  *)
(* as their first ones or higher.                                          *)
LEMMA Writes ==
  ASSUME Timed, Kept, UNCHANGED age, due' \in [Task -> Int \cup {None}],
         \A t \in Task : \/ due'[t] = due[t] \/ due'[t] = None
                         \/ /\ Submitted(t)
                            /\ \/ due'[t] = Score(t, FirstDelay(t))
                               \/ due'[t] = Score(t, RetryDelay(t))
  PROVE  \A t \in queue' :
           Submitted(t)' /\ (due'[t] + age'[t] >= Due(t) \/ age'[t] = FirstDelay(t))
<1> TAKE t \in queue'
<1>1. t \in Task /\ due'[t] # None
  BY DEF queue
<1>2. CASE due'[t] = due[t]
  BY <1>1, <1>2 DEF Kept, queue, Submitted
<1>3. CASE /\ Submitted(t)
           /\ \/ due'[t] = Score(t, FirstDelay(t))
              \/ due'[t] = Score(t, RetryDelay(t))
  <2>1. /\ FirstDelay(t) \in Nat /\ RetryDelay(t) \in Nat
        /\ FirstDelay(t) <= RetryDelay(t) /\ Priority[t] \in 0 .. 100
    BY <1>1, Delays
  <2>2. age[t] \in Nat
    BY <1>3, <2>1 DEF Submitted
  <2> QED BY <1>3, <2>1, <2>2 DEF Score, Due, Submitted
<1> QED BY <1>1, <1>2, <1>3

(* No step lets a waiting task be due too early.                           *)
LEMMA DInvNext == DInv /\ [Next]_vars => DInv'
<1> SUFFICES ASSUME DInv, [Next]_vars PROVE DInv'
  OBVIOUS
<1> USE DEF DInv
<1>0. \A t \in Task : /\ FirstDelay(t) \in Nat /\ Priority[t] \in 0 .. 100
                      /\ Score(t, FirstDelay(t)) \in Int
                      /\ Score(t, RetryDelay(t)) \in Int
                      /\ None \notin Int /\ None # t
  BY Delays, ScheduleAssumption
<1>1. ASSUME NEW w \in Worker, NEW t \in Task, Add(w, t) PROVE DInv'
  <2>1. /\ due' = [u \in Task |-> IF u \in {t} THEN Score(u, FirstDelay(u)) ELSE due[u]]
        /\ age' = [age EXCEPT ![t] = 0] /\ age[t] = None
        /\ UNCHANGED <<processing, at, task>>
    BY <1>1 DEF Add, ZAdd, job
  <2>2. Timed'
    <3>1. age' \in [Task -> Nat \cup {None}] /\ due' \in [Task -> Int \cup {None}]
      BY <1>0, <2>1 DEF Timed
    <3>2. \A u \in Task : Submitted(u) => Submitted(u)'
      BY <1>0, <2>1 DEF Timed, Submitted
    <3>3. \A u \in Task : age'[u] # None => Submitted(u)'
      BY <1>0, <2>1 DEF Timed, Submitted
    <3> QED BY <2>1, <3>1, <3>2, <3>3 DEF Timed
  <2>3. \A w1 \in Worker : at[w1] # "poll" => task[w1] # t
    BY <1>0, <2>1 DEF Timed, Submitted
  <2>4. ASSUME NEW u \in queue'
        PROVE  Submitted(u)' /\ (due'[u] + age'[u] >= Due(u) \/ age'[u] = FirstDelay(u))
    <3>1. u \in Task /\ due'[u] # None
      BY DEF queue
    <3>2. CASE u = t
      BY <1>0, <2>1, <3>1, <3>2 DEF Timed, Submitted, Due, Score
    <3>3. CASE u # t
      <4>1. due'[u] = due[u] /\ age'[u] = age[u] /\ u \in queue
        BY <2>1, <3>1, <3>3 DEF Timed, queue
      <4> QED BY <4>1 DEF Kept, Submitted
    <3> QED BY <3>2, <3>3
  <2>5. \A v \in Worker : at'[v] = "move" => age'[task'[v]] >= Due(task'[v])
    BY <2>1, <2>3 DEF Kept, Timed
  <2> QED BY <2>2, <2>4, <2>5 DEF Kept
<1>2. ASSUME NEW w \in Worker, NEW t \in Task, PollFinds(w, t) PROVE DInv'
  <2>1. /\ t \in queue /\ due[t] <= 0
        /\ at' = [at EXCEPT ![w] = "move"] /\ task' = [task EXCEPT ![w] = t]
        /\ UNCHANGED <<due, processing, age>>
    BY <1>2 DEF PollFinds, FirstDue, Moves
  <2>2. Submitted(t) /\ age[t] >= Due(t)
    <3>1. due[t] \in Int /\ due[t] <= 0
      BY <2>1 DEF Timed, queue
    <3>2. Submitted(t) /\ (due[t] + age[t] >= Due(t) \/ age[t] = FirstDelay(t))
      BY <2>1 DEF Kept
    <3> QED BY <1>0, <3>1, <3>2 DEF Due, Submitted
  <2>3. Timed'
    BY <2>1, <2>2 DEF Timed, Submitted
  <2>4. Kept'
    BY <2>1, <2>2 DEF Timed, Kept, queue, Submitted
  <2> QED BY <2>3, <2>4
<1>3. ASSUME NEW w \in Worker, UNCHANGED age,
             due' \in [Task -> Int \cup {None}],
             \A t \in Task : \/ due'[t] = due[t] \/ due'[t] = None
                             \/ /\ Submitted(t)
                                /\ \/ due'[t] = Score(t, FirstDelay(t))
                                   \/ due'[t] = Score(t, RetryDelay(t)),
             \A t \in processing' : t \in processing \/ (t = task[w] /\ at[w] # "poll"),
             \/ at' = at /\ task' = task
             \/ /\ at[w] # "poll"
                /\ \E to \in {"handle", "clean"} : at' = [at EXCEPT ![w] = to]
                /\ task' = [task EXCEPT ![w] = @]
             \/ at' = [at EXCEPT ![w] = "poll"] /\ task' = [task EXCEPT ![w] = None]
      PROVE  DInv'
  <2>1. \A u \in Task : Submitted(u)' <=> Submitted(u)
    BY <1>3 DEF Submitted
  <2>2. at' \in [Worker -> {"poll", "move", "handle", "clean"}]
        /\ task' \in [Worker -> Task \cup {None}]
    BY <1>3 DEF Timed
  <2>3. \A v \in Worker :
          /\ at'[v] # "poll" => task'[v] = task[v] /\ at[v] # "poll"
          /\ at'[v] = "move" => at[v] = "move"
    BY <1>3 DEF Timed
  <2>4. Timed'
    BY <1>3, <2>1, <2>2, <2>3 DEF Timed
  <2>5. \A t \in queue' :
           Submitted(t)' /\ (due'[t] + age'[t] >= Due(t) \/ age'[t] = FirstDelay(t))
    BY <1>3, Writes
  <2>6. \A v \in Worker : at'[v] = "move" => age'[task'[v]] >= Due(task'[v])
    BY <1>3, <2>3 DEF Kept
  <2> QED BY <2>4, <2>5, <2>6 DEF Kept
<1>4. ASSUME NEW t \in Task, NEW d \in [Task -> Int \cup {None}]
      PROVE  /\ FailedTask(t, d) \in [Task -> Int \cup {None}]
             /\ \A u \in Task : \/ FailedTask(t, d)[u] = d[u]
                                \/ u = t /\ FailedTask(t, d)[u] = Score(u, RetryDelay(u))
  BY <1>0 DEF FailedTask
<1>5. ASSUME NEW w \in Worker, Move(w) PROVE DInv'
  <2>1. /\ task[w] \in Task /\ at[w] = "move"
        /\ at' = [at EXCEPT ![w] = "handle"] /\ task' = [task EXCEPT ![w] = @]
        /\ due' = [due EXCEPT ![task[w]] = None]
        /\ processing' = processing \cup {task[w]} /\ UNCHANGED age
    BY <1>5 DEF Move, Moves, queue, Timed
  <2>2. /\ due' \in [Task -> Int \cup {None}]
        /\ \A t \in Task : due'[t] = due[t] \/ due'[t] = None
    BY <2>1 DEF Timed
  <2>3. \A t \in processing' : t \in processing \/ (t = task[w] /\ at[w] # "poll")
    BY <2>1
  <2> HIDE DEF DInv
  <2> QED BY <1>3, <2>1, <2>2, <2>3
<1>6. ASSUME NEW w \in Worker, MoveFails(w) PROVE DInv'
  <2> DEFINE u == task[w]
             d == [due EXCEPT ![u] = None]
  <2>1. /\ at[w] = "move"
        /\ at' = [at EXCEPT ![w] = "clean"] /\ task' = [task EXCEPT ![w] = @]
        /\ due' = FailedTask(u, d)
        /\ processing' = processing \cup {u} /\ UNCHANGED age
    BY <1>6 DEF MoveFails, Moves
  <2>2. u \in Task /\ Submitted(u) /\ d \in [Task -> Int \cup {None}]
        /\ \A t \in Task : d[t] = due[t] \/ d[t] = None
    BY <2>1 DEF Timed
  <2>3. /\ due' \in [Task -> Int \cup {None}]
        /\ \A t \in Task : \/ due'[t] = due[t] \/ due'[t] = None
                           \/ /\ Submitted(t)
                              /\ \/ due'[t] = Score(t, FirstDelay(t))
                                 \/ due'[t] = Score(t, RetryDelay(t))
    <3> HIDE DEF d, u, DInv
    <3> QED BY <1>4, <2>1, <2>2
  <2>4. \A t \in processing' : t \in processing \/ (t = task[w] /\ at[w] # "poll")
    BY <2>1
  <2> HIDE DEF DInv
  <2> QED BY <1>3, <2>1, <2>3, <2>4
<1>7. ASSUME NEW w \in Worker, HandlerResolves(w) \/ HandlerRejects(w) PROVE DInv'
  <2> DEFINE u == task[w]
  <2>1. /\ at[w] = "handle"
        /\ at' = [at EXCEPT ![w] = "clean"] /\ task' = [task EXCEPT ![w] = @]
        /\ due' = due \/ due' = FailedTask(u, due)
        /\ UNCHANGED <<age, processing>>
    BY <1>7 DEF HandlerResolves, HandlerRejects, Moves
  <2>2. u \in Task /\ Submitted(u) /\ due \in [Task -> Int \cup {None}]
    BY <2>1 DEF Timed
  <2>3. /\ due' \in [Task -> Int \cup {None}]
        /\ \A t \in Task : \/ due'[t] = due[t] \/ due'[t] = None
                           \/ /\ Submitted(t)
                              /\ \/ due'[t] = Score(t, FirstDelay(t))
                                 \/ due'[t] = Score(t, RetryDelay(t))
    <3> HIDE DEF u, DInv
    <3> QED BY <1>4, <2>1, <2>2
  <2> HIDE DEF DInv
  <2> QED BY <1>3, <2>1, <2>3
<1>8. ASSUME NEW w \in Worker, Clean(w) PROVE DInv'
  <2>1. /\ at' = [at EXCEPT ![w] = "poll"] /\ task' = [task EXCEPT ![w] = None]
        /\ processing' = processing \ {task[w]} /\ UNCHANGED <<due, age>>
    BY <1>8 DEF Clean, Moves
  <2>2. due' \in [Task -> Int \cup {None}] /\ \A t \in processing' : t \in processing
    BY <2>1 DEF Timed
  <2> HIDE DEF DInv
  <2> QED BY <1>3, <2>1, <2>2
<1>9. ASSUME NEW w \in Worker, Shutdown(w) PROVE DInv'
  <2>1. /\ due' = [t \in Task |-> IF t \in processing THEN Score(t, FirstDelay(t)) ELSE due[t]]
        /\ processing' = {} /\ UNCHANGED <<at, task, age>>
    BY <1>9 DEF Shutdown, ZAdd, job
  <2>2. /\ due' \in [Task -> Int \cup {None}]
        /\ \A t \in Task : \/ due'[t] = due[t]
                           \/ Submitted(t) /\ due'[t] = Score(t, FirstDelay(t))
    BY <1>0, <2>1 DEF Timed
  <2> HIDE DEF DInv
  <2> QED BY <1>3, <2>1, <2>2
<1>10. CASE Tick
  <2>1. ASSUME NEW t \in Task
        PROVE  /\ t \notin queue => due'[t] = None
               /\ t \in queue => due'[t] \in Int /\ due'[t] >= due[t] - 1
    <3>1. due'[t] = IF t \notin queue THEN None
               ELSE Max({due[t] - 1, Lowest - 1 - Cardinality(LaterOverdue(t))})
      BY <1>10 DEF Tick
    <3>2. CASE t \in queue
      <4> DEFINE c == Cardinality(LaterOverdue(t))
      <4>1. due[t] \in Int /\ Lowest \in Int
        BY <3>2, LowestType DEF Timed, queue
      <4>2. c \in Nat
        <5>1. IsFiniteSet(due[t] + 1 .. Lowest)
          BY <4>1, FS_Interval
        <5>2. IsFiniteSet(LaterOverdue(t))
          BY <5>1, FS_Subset DEF LaterOverdue
        <5> QED BY <5>2, FS_CardinalityType
      <4> DEFINE a == due[t] - 1
                 b == Lowest - 1 - c
      <4>3. a \in Int /\ b \in Int /\ due'[t] = Max({a, b})
        BY <3>1, <3>2, <4>1, <4>2
      <4> HIDE DEF a, b
      <4>4. due'[t] \in Int /\ due'[t] >= a
        BY <4>3, OfTwo
      <4> QED BY <3>2, <4>4 DEF a
    <3> QED BY <3>1, <3>2
  <2>2. ASSUME NEW t \in Task
        PROVE  /\ age[t] = None => age'[t] = None
               /\ age[t] # None => age'[t] = IF age[t] + 1 <= FirstDelay(t)
                                             THEN age[t] + 1 ELSE FirstDelay(t)
    <3>1. age'[t] = IF age[t] = None THEN None ELSE Min({age[t] + 1, FirstDelay(t)})
      BY <1>10 DEF Tick
    <3>2. age[t] # None => age[t] + 1 \in Int /\ FirstDelay(t) \in Int
      BY <1>0 DEF Timed
    <3> QED BY <3>1, <3>2, OfTwo
  <2>3. /\ due' = [t \in Task |-> due'[t]] /\ age' = [t \in Task |-> age'[t]]
        /\ UNCHANGED <<processing, at, task>>
    BY <1>10 DEF Tick, job
  <2>4. due' \in [Task -> Int \cup {None}]
    BY <2>1, <2>3
  <2>5. \A t \in Task : /\ age'[t] \in Nat \cup {None}
                        /\ age'[t] # None => Submitted(t)'
                        /\ Submitted(t) => Submitted(t)' /\ age'[t] >= age[t]
    BY <1>0, <2>2 DEF Timed, Submitted
  <2>6. age' \in [Task -> Nat \cup {None}]
    BY <2>3, <2>5
  <2>7. Timed'
    BY <2>3, <2>4, <2>5, <2>6 DEF Timed
  <2>8. ASSUME NEW t \in queue'
        PROVE  Submitted(t)' /\ (due'[t] + age'[t] >= Due(t) \/ age'[t] = FirstDelay(t))
    <3>1. t \in Task /\ t \in queue /\ due'[t] \in Int /\ due'[t] >= due[t] - 1
      BY <2>1 DEF queue
    <3>2. Submitted(t) /\ (due[t] + age[t] >= Due(t) \/ age[t] = FirstDelay(t))
          /\ due[t] \in Int
      BY <3>1 DEF Kept, Timed, queue
    <3>3. age[t] \in Nat /\ age[t] <= FirstDelay(t) /\ age[t] # None /\ Due(t) \in Int
      BY <1>0, <3>1, <3>2 DEF Submitted, Due
    <3> QED BY <1>0, <2>2, <2>5, <3>1, <3>2, <3>3
  <2>9. ASSUME NEW v \in Worker, at'[v] = "move"
        PROVE  age'[task'[v]] >= Due(task'[v])
    <3>0. PICK u : u = task[v]
      OBVIOUS
    <3>1. at[v] = "move" /\ task'[v] = u
      BY <2>3, <2>9, <3>0
    <3>2. u \in Task /\ Submitted(u) /\ age[u] >= Due(u)
      BY <3>0, <3>1 DEF Timed, Kept
    <3>3. age'[u] >= age[u] /\ age[u] \in Int /\ Due(u) \in Int /\ Submitted(u)'
      BY <1>0, <2>5, <3>2 DEF Submitted, Due
    <3>4. age'[u] \in Int
      BY <1>0, <3>2, <3>3 DEF Submitted
    <3> QED BY <3>1, <3>2, <3>3, <3>4
  <2> QED BY <2>7, <2>8, <2>9 DEF Kept
<1>11. CASE UNCHANGED vars
  BY <1>11 DEF vars, job, Timed, Kept, queue, Submitted
<1> HIDE DEF DInv
<1> QED BY <1>1, <1>2, <1>5, <1>6, <1>7, <1>8, <1>9, <1>10, <1>11 DEF Next, Step

(* In every reachable state a waiting task is kept back long enough.       *)
THEOREM DueInvariance == Spec => []DInv
BY DInvInit, DInvNext, PTL DEF Spec

(* No task is handled before its delay, less a second for each point of    *)
(* its priority, is over, whatever failures, lost races and shutdowns put  *)
(* it back before.                                                         *)
THEOREM DelaysAreKept == Spec => NotBeforeDue
<1>1. DInv /\ [Next]_vars =>
        [\A w \in Worker, t \in Task :
           Starts(w, t) => age[t] >= FirstDelay(t) - Priority[t]]_vars
  <2> SUFFICES ASSUME DInv, Next, NEW w \in Worker, NEW t \in Task, Starts(w, t)
               PROVE  age[t] >= FirstDelay(t) - Priority[t]
    OBVIOUS
  <2>1. Move(w) /\ task[w] = t
    <3>1. PICK v \in Worker : Step(v)
      BY DEF Next, Add, Shutdown, Tick, job, Starts
    <3>2. v = w
      BY <3>1 DEF Step, PollFinds, Move, MoveFails, HandlerResolves, HandlerRejects,
             Clean, Moves, Starts, DInv, Timed
    <3>3. at'[w] = "handle" /\ task'[w] = t
      BY DEF Starts
    <3> QED BY <3>1, <3>2, <3>3 DEF Step, PollFinds, Move, MoveFails, HandlerResolves,
             HandlerRejects, Clean, Moves, DInv, Timed
  <2>2. at[w] = "move"
    BY <2>1 DEF Move, Moves
  <2> QED BY <2>1, <2>2 DEF DInv, Kept, Due
<1> QED BY <1>1, DueInvariance, PTL DEF Spec, NotBeforeDue
==============================================================================
