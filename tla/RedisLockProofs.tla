---------------------------- MODULE RedisLockProofs ----------------------------
(***************************************************************************)
(* Proofs about RedisLock: for any number of sessions, times to live and   *)
(* attempts, a session may rely on the lock for as long as it has counted, *)
(* and nobody but its owner or the clock takes a lock away.                *)
(*                                                                         *)
(* LeaseHolds is not inductive: that the key holds a session's id says     *)
(* nothing about the next tick.  LockInv adds that the key outlives what   *)
(* the session counts on, and that a command under way cannot shorten it   *)
(* below that.                                                             *)
(***************************************************************************)
EXTENDS RedisLock, TLAPS

KeyInv == holder # None => left > 0

CallInv(s) ==
  /\ phase[s] = "idle" => attempts[s] = 0
  /\ phase[s] = "setting" => attempts[s] < MaxAttempts
  /\ phase[s] = "working" => cmd[s] \in {"none", "extend"}

CommandInv(s) ==
  /\ hope[s] <= asked[s]
  /\ cmd[s] \in {"set", "extend"} => asked[s] > 0

LeaseInv(s) ==
  sure[s] > 0 =>
    /\ phase[s] = "working" /\ holder = s /\ sure[s] <= left
    /\ cmd[s] = "extend" => sure[s] <= asked[s]

LockInv ==
  /\ TypeOK /\ KeyInv
  /\ \A s \in Session : CallInv(s) /\ CommandInv(s) /\ LeaseInv(s)

(* At the start there is no key and nobody counts on it.                   *)
LEMMA InitInv == Init => LockInv
BY LockAssumption
DEF Init, LockInv, TypeOK, KeyInv, CallInv, CommandInv, LeaseInv, Phase, Cmd

------------------------------------------------------------------------------
(* Steps of the caller.                                                    *)

(* A first attempt.                                                        *)
LEMMA AcquireInv == ASSUME LockInv, NEW s \in Session, Acquire(s) PROVE LockInv'
BY LockAssumption
DEF Acquire, Send, LockInv, TypeOK, KeyInv, CallInv, CommandInv, LeaseInv,
    Phase, Cmd

(* A later attempt, or none when there have been enough.                   *)
LEMMA WakeUpInv == ASSUME LockInv, NEW s \in Session, WakeUp(s) PROVE LockInv'
<1>1. CASE /\ attempts[s] < MaxAttempts
           /\ phase' = [phase EXCEPT ![s] = "setting"]
           /\ Send(s, "set", Ttl)
  BY <1>1, LockAssumption
  DEF WakeUp, Send, LockInv, TypeOK, KeyInv, CallInv, CommandInv, LeaseInv,
      Phase, Cmd
<1>2. CASE /\ phase' = [phase EXCEPT ![s] = "ended"]
           /\ UNCHANGED <<cmd, asked, hope>>
  BY <1>2
  DEF WakeUp, LockInv, TypeOK, KeyInv, CallInv, CommandInv, LeaseInv,
      Phase, Cmd
<1> QED BY <1>1, <1>2 DEF WakeUp

(* From the moment a shorter time to live is asked for, no more than that  *)
(* is counted on.                                                          *)
LEMMA ExtendLockInv ==
  ASSUME LockInv, NEW s \in Session, NEW ttl \in ExtendTtls,
         ExtendLock(s, ttl)
  PROVE  LockInv'
<1>1. ttl \in Nat /\ ttl > 0
  BY LockAssumption
<1> QED
  BY <1>1 DEF ExtendLock, Send, Least, LockInv, TypeOK, KeyInv, CallInv,
              CommandInv, LeaseInv, Phase, Cmd

(* Whoever releases no longer counts on the lock.                          *)
LEMMA ReleaseInv == ASSUME LockInv, NEW s \in Session, Release(s) PROVE LockInv'
BY DEF Release, Send, LockInv, TypeOK, KeyInv, CallInv, CommandInv, LeaseInv,
       Phase, Cmd

(* A session that crashes counts on nothing.                               *)
LEMMA CrashInv == ASSUME LockInv, NEW s \in Session, Crash(s) PROVE LockInv'
BY DEF Crash, LockInv, TypeOK, KeyInv, CallInv, CommandInv, LeaseInv, Phase, Cmd

------------------------------------------------------------------------------
(* Steps of Redis.                                                         *)

(* Whatever command is executed, and whoever sent it, the key keeps its    *)
(* type, and those who count on it, other than the sender, lose nothing.   *)
LEMMA EffectKeepsKey ==
  ASSUME LockInv, NEW s \in Session, Effect(s)
  PROVE  /\ holder' \in Session \cup {None} /\ left' \in Nat /\ KeyInv'
         /\ \A u \in Session : sure[u] > 0 => holder' = u /\ sure[u] <= left'
<1>1. /\ holder \in Session \cup {None} /\ left \in Nat /\ KeyInv
      /\ asked[s] \in Nat /\ (cmd[s] \in {"set", "extend"} => asked[s] > 0)
      /\ \A u \in Session : sure[u] > 0 =>
           /\ holder = u /\ sure[u] <= left /\ u # None
           /\ u = s => cmd[s] # "release"
           /\ u = s /\ cmd[s] = "extend" => sure[u] <= asked[s]
  BY LockAssumption
  DEF LockInv, TypeOK, CallInv, CommandInv, LeaseInv
<1>2. CASE cmd[s] = "set" /\ SetEffect(s)
  BY <1>1, <1>2 DEF SetEffect, KeyInv
<1>3. CASE cmd[s] = "extend" /\ ExtendEffect(s)
  BY <1>1, <1>3 DEF ExtendEffect, Owns, KeyInv
<1>4. CASE cmd[s] = "release" /\ ReleaseEffect(s)
  BY <1>1, <1>4 DEF ReleaseEffect, Owns, KeyInv
<1> QED BY <1>2, <1>3, <1>4 DEF Effect

(* The lock is got, and counted on from the sending of the command, or it  *)
(* is not and one more attempt has been made.                              *)
LEMMA SetReplyInv == ASSUME LockInv, NEW s \in Session, SetReply(s) PROVE LockInv'
<1>1. /\ holder' \in Session \cup {None} /\ left' \in Nat /\ KeyInv'
      /\ \A u \in Session : sure[u] > 0 => holder' = u /\ sure[u] <= left'
  BY EffectKeepsKey DEF SetReply
<1>2. CASE /\ holder = None
           /\ phase' = [phase EXCEPT ![s] = "working"]
           /\ sure' = [sure EXCEPT ![s] = hope[s]]
           /\ UNCHANGED attempts
  <2>1. holder' = s /\ left' = asked[s]
    BY <1>2 DEF SetReply, Effect, SetEffect
  <2>2. \A u \in Session : ~(sure[u] > 0)
    BY <1>2, LockAssumption DEF LockInv, LeaseInv
  <2> QED
    BY <1>1, <1>2, <2>1, <2>2
    DEF SetReply, Answered, LockInv, TypeOK, CallInv, CommandInv, LeaseInv,
        Phase, Cmd
<1>3. CASE /\ phase' = [phase EXCEPT ![s] = "sleeping"]
           /\ attempts' = [attempts EXCEPT ![s] = @ + 1]
           /\ UNCHANGED sure
  BY <1>1, <1>3, LockAssumption
  DEF SetReply, Answered, LockInv, TypeOK, CallInv, CommandInv, LeaseInv,
      Phase, Cmd
<1> QED BY <1>2, <1>3 DEF SetReply

(* What an owner counts on after an extension is what it asked for.        *)
LEMMA ExtendReplyInv ==
  ASSUME LockInv, NEW s \in Session, ExtendReply(s)
  PROVE  LockInv'
<1>1. /\ holder' \in Session \cup {None} /\ left' \in Nat /\ KeyInv'
      /\ \A u \in Session : sure[u] > 0 => holder' = u /\ sure[u] <= left'
  BY EffectKeepsKey DEF ExtendReply
<1>2. Owns(s) => left' = asked[s] /\ holder' = s
  BY DEF ExtendReply, Effect, ExtendEffect, Owns
<1>3. \A u \in Session \ {s} : Owns(s) => ~(sure[u] > 0)
  BY DEF LockInv, LeaseInv, Owns
<1> QED
  BY <1>1, <1>2, <1>3
  DEF ExtendReply, Answered, LockInv, TypeOK, CallInv, CommandInv, LeaseInv,
      Phase, Cmd

(* The replies after which the command is over and nothing else changes    *)
(* but perhaps the phase of the call.                                      *)
LEMMA AnsweredInv ==
  ASSUME LockInv, NEW s \in Session, Effect(s) \/ UNCHANGED <<holder, left>>,
         Answered(s), NEW p \in {phase[s], "ended"},
         phase' = [phase EXCEPT ![s] = p],
         p = "ended" => phase[s] # "working",
         UNCHANGED <<attempts, asked, hope, sure>>
  PROVE  LockInv'
<1>1. /\ holder' \in Session \cup {None} /\ left' \in Nat /\ KeyInv'
      /\ \A u \in Session : sure[u] > 0 => holder' = u /\ sure[u] <= left'
  BY EffectKeepsKey DEF LockInv, TypeOK, KeyInv, LeaseInv
<1> QED
  BY <1>1
  DEF Answered, LockInv, TypeOK, CallInv, CommandInv, LeaseInv, Phase, Cmd

(* The release is answered.                                                *)
LEMMA ReleaseReplyInv ==
  ASSUME LockInv, NEW s \in Session, ReleaseReply(s)
  PROVE  LockInv'
BY AnsweredInv DEF ReleaseReply

(* A command fails: only a function at work goes on.                       *)
LEMMA CommandFailsInv ==
  ASSUME LockInv, NEW s \in Session, CommandFails(s)
  PROVE  LockInv'
<1> DEFINE p == IF phase[s] = "working" THEN phase[s] ELSE "ended"
<1>1. phase' = [phase EXCEPT ![s] = p]
  BY DEF CommandFails, LockInv, TypeOK
<1>2. p \in {phase[s], "ended"} /\ (p = "ended" => phase[s] # "working")
  OBVIOUS
<1> HIDE DEF p
<1> QED BY <1>1, <1>2, AnsweredInv DEF CommandFails

(* A command of a crashed caller arrives.                                  *)
LEMMA LateCommandInv ==
  ASSUME LockInv, NEW s \in Session, LateCommand(s)
  PROVE  LockInv'
<1>1. phase' = [phase EXCEPT ![s] = phase[s]] /\ phase[s] = "ended"
  BY DEF LateCommand, LockInv, TypeOK
<1> QED BY <1>1, AnsweredInv DEF LateCommand

(* A tick takes as much from what is counted on as from the key.           *)
LEMMA TickInv == ASSUME LockInv, Tick PROVE LockInv'
<1>1. \A n \in Nat : Down(n) \in Nat /\ (n > 0 => Down(n) = n - 1)
                     /\ (n = 0 => Down(n) = 0) /\ Down(n) <= n
  BY DEF Down
<1>2. TypeOK' /\ KeyInv'
  BY <1>1 DEF Tick, LockInv, TypeOK, KeyInv
<1>3. ASSUME NEW s \in Session
      PROVE  CallInv(s)' /\ CommandInv(s)' /\ LeaseInv(s)'
  BY <1>1 DEF Tick, LockInv, TypeOK, CallInv, CommandInv, LeaseInv
<1> QED BY <1>2, <1>3 DEF LockInv

------------------------------------------------------------------------------
(* LockInv holds in every reachable state, whatever the constants.         *)
THEOREM Invariance == Spec => []LockInv
<1>1. LockInv /\ [Next]_vars => LockInv'
  <2> SUFFICES ASSUME LockInv, [Next]_vars PROVE LockInv'
    OBVIOUS
  <2>1. CASE Tick
    BY <2>1, TickInv
  <2>2. ASSUME NEW s \in Session, Step(s) PROVE LockInv'
    BY <2>2, AcquireInv, WakeUpInv, ReleaseInv, ExtendLockInv, SetReplyInv,
       ExtendReplyInv, ReleaseReplyInv, CommandFailsInv, CrashInv,
       LateCommandInv
    DEF Step
  <2>3. CASE UNCHANGED vars
    BY <2>3 DEF vars, LockInv, TypeOK, KeyInv, CallInv, CommandInv, LeaseInv
  <2> QED BY <2>1, <2>2, <2>3 DEF Next
<1> QED BY InitInv, <1>1, PTL DEF Spec

(* Every variable keeps its type; acquire never makes more attempts than   *)
(* its option allows.                                                      *)
THEOREM TypeCorrect == Spec => []TypeOK
BY Invariance, PTL DEF LockInv

(* A session that counts its time from the sending of the command is       *)
(* right: while that time lasts the key holds its id.                      *)
THEOREM LeasesHold == Spec => []LeaseHolds
<1>1. LockInv => LeaseHolds
  BY DEF LockInv, LeaseInv, LeaseHolds
<1> QED BY Invariance, <1>1, PTL

(* Two sessions never both count on the lock: mutual exclusion.            *)
MutualExclusion == \A s, u \in Session : sure[s] > 0 /\ sure[u] > 0 => s = u

(* No two sessions rely on the lock at the same time.                      *)
THEOREM Exclusion == Spec => []MutualExclusion
<1>1. LeaseHolds => MutualExclusion
  BY DEF LeaseHolds, MutualExclusion
<1> QED BY LeasesHold, <1>1, PTL

(* A lock ends by its own session's release or by its time.                *)
THEOREM NobodyElseUnlocks == Spec => OthersUntouched
<1> DEFINE Untouched ==
      \A s \in Session : holder = s /\ holder' # s =>
        (left = 1 /\ left' = 0) \/ cmd[s] = "release"
<1>1. [Next]_vars => [Untouched]_vars
  <2> SUFFICES ASSUME Next, NEW s \in Session, holder = s, holder' # s
               PROVE  (left = 1 /\ left' = 0) \/ cmd[s] = "release"
    OBVIOUS
  <2>1. CASE Tick
    BY <2>1 DEF Tick, Down
  <2>2. ASSUME NEW u \in Session, Step(u) PROVE cmd[s] = "release"
    <3>1. Effect(u)
      BY <2>2 DEF Step, Acquire, WakeUp, Release, ExtendLock, SetReply,
         ExtendReply, ReleaseReply, CommandFails, Crash, LateCommand
    <3>2. s # None
      BY LockAssumption
    <3> QED
      BY <3>1, <3>2 DEF Effect, SetEffect, ExtendEffect, ReleaseEffect, Owns
  <2> QED BY <2>1, <2>2 DEF Next
<1> QED BY <1>1, PTL DEF Spec, OthersUntouched

(* A lock that ran out comes back by a new acquire only.                   *)
NoRevival ==
  [][\A s \in Session : holder # s /\ holder' = s => cmd[s] = "set"]_vars

(* A session whose lock ran out holds it again only by its own acquire.    *)
THEOREM NothingRevives == Spec => NoRevival
<1> DEFINE Revived ==
      \A s \in Session : holder # s /\ holder' = s => cmd[s] = "set"
<1>1. [Next]_vars => [Revived]_vars
  <2> SUFFICES ASSUME Next, NEW s \in Session, holder # s, holder' = s
               PROVE  cmd[s] = "set"
    OBVIOUS
  <2>1. s # None
    BY LockAssumption
  <2>2. CASE Tick
    BY <2>1, <2>2 DEF Tick
  <2>3. ASSUME NEW u \in Session, Step(u) PROVE cmd[s] = "set"
    <3>1. Effect(u)
      BY <2>3 DEF Step, Acquire, WakeUp, Release, ExtendLock, SetReply,
         ExtendReply, ReleaseReply, CommandFails, Crash, LateCommand
    <3> QED
      BY <2>1, <3>1 DEF Effect, SetEffect, ExtendEffect, ReleaseEffect, Owns
  <2> QED BY <2>2, <2>3 DEF Next
<1> QED BY <1>1, PTL DEF Spec, NoRevival

------------------------------------------------------------------------------
(* The lock implements Lease.                                              *)

(* A session that owns the lock will not set it again, so it owns it once. *)
OwnerInv == \A s \in Session : holder = s => ~MayStillSet(s)

(* OwnerInv holds in every reachable state of the lock: once the key has   *)
(* held a session's id, no SET of that session is under way or to come.    *)
LEMMA OwnerInvariance == Spec => []OwnerInv
<1>1. Init => OwnerInv
  BY LockAssumption DEF Init, OwnerInv
<1>2. LockInv /\ OwnerInv /\ [Next]_vars => OwnerInv'
  <2> SUFFICES ASSUME LockInv, OwnerInv, [Next]_vars,
                      NEW u \in Session, holder' = u
               PROVE  ~MayStillSet(u)'
    BY DEF OwnerInv
  <2>1. CASE Tick \/ UNCHANGED vars
    BY <2>1, LockAssumption DEF Tick, vars, OwnerInv, MayStillSet
  <2>2. ASSUME NEW s \in Session, Step(s) PROVE ~MayStillSet(u)'
    <3>1. CASE Acquire(s) \/ WakeUp(s) \/ Release(s)
               \/ \E ttl \in ExtendTtls : ExtendLock(s, ttl)
      BY <3>1 DEF Acquire, WakeUp, Release, ExtendLock, Send, OwnerInv,
                  MayStillSet, LockInv, TypeOK
    <3>2. CASE SetReply(s) \/ ExtendReply(s) \/ ReleaseReply(s)
      BY <3>2, LockAssumption
      DEF SetReply, ExtendReply, ReleaseReply, Effect, SetEffect, ExtendEffect,
          ReleaseEffect, Owns, Answered, OwnerInv, MayStillSet, LockInv, TypeOK
    <3>3. CASE CommandFails(s) \/ LateCommand(s) \/ Crash(s)
      BY <3>3, LockAssumption
      DEF CommandFails, LateCommand, Crash, Effect, SetEffect, ExtendEffect,
          ReleaseEffect, Owns, Answered, OwnerInv, MayStillSet, LockInv, TypeOK
    <3> QED BY <2>2, <3>1, <3>2, <3>3 DEF Step
  <2> QED BY <2>1, <2>2 DEF Next
<1> QED BY Invariance, <1>1, <1>2, PTL DEF Spec

(* The steps of Lease, in terms of the lock.                               *)
Relying == {s \in Session : sure[s] > 0}
Others(s) == \A u \in Session \ {s} : StatusOf(u)' = StatusOf(u)

(* A change of one session's status or reliance is a step of Lease.        *)
LEMMA LeaseStep ==
  ASSUME NEW s \in Session, Others(s),
         \/ /\ StatusOf(s)' = StatusOf(s)
            /\ \/ Relying' = Relying
               \/ StatusOf(s) = "owner" /\ Relying' \in {{}, {s}}
         \/ /\ StatusOf(s) = "waiting" /\ StatusOf(s)' = "done"
            /\ Relying' = Relying
         \/ /\ StatusOf(s) = "waiting" /\ StatusOf(s)' = "owner"
            /\ holder = None
            /\ Relying' \in {Relying, {s}}
         \/ /\ StatusOf(s) = "owner" /\ StatusOf(s)' = "done"
            /\ Relying' = {}
  PROVE  [Abstract!Next]_(Abstract!vars)
<1> DEFINE st == [u \in Session |-> StatusOf(u)]
<1>1. st' = [st EXCEPT ![s] = StatusOf(s)']
  BY DEF Others
<1>2. holder = None => \A u \in Session : st[u] # "owner"
  BY LockAssumption DEF StatusOf
<1> QED
  BY <1>1, <1>2
  DEF Relying, Abstract!Next, Abstract!vars, Abstract!Take, Abstract!GiveUp,
      Abstract!Trust, Abstract!Leave, Abstract!Turns

(* Who relies on the lock is its owner and nobody else.                    *)
LEMMA ReliesAlone ==
  ASSUME LockInv, NEW s \in Session
  PROVE  /\ Relying \in {{}, {holder}}
         /\ sure[s] > 0 => holder = s /\ phase[s] = "working" /\ Relying = {s}
         /\ sure[s] \in Nat
BY DEF LockInv, TypeOK, LeaseInv, Relying

(* A command executed for s changes nobody else's standing.                *)
LEMMA EffectStep ==
  ASSUME LockInv, OwnerInv, NEW s \in Session,
         Effect(s) \/ UNCHANGED <<holder, left>>,
         Answered(s), NEW p, phase' = [phase EXCEPT ![s] = p],
         p \in {phase[s], "ended"},
         phase[s] \in {"working", "ended"} \/ p = "ended",
         UNCHANGED sure
  PROVE  [Abstract!Next]_(Abstract!vars)
<1>1. Others(s)
  BY LockAssumption
  DEF Others, StatusOf, MayStillSet, Effect, SetEffect, ExtendEffect,
      ReleaseEffect, Owns, Answered, LockInv, TypeOK
<1>2. Relying' = Relying /\ ~MayStillSet(s)'
  BY DEF Relying, MayStillSet, Answered, LockInv, TypeOK
<1>3. holder = s /\ holder' # s => cmd[s] = "release"
  BY LockAssumption
  DEF Effect, SetEffect, ExtendEffect, ReleaseEffect, Owns
<1>4. holder = s /\ cmd[s] = "release" => Relying = {}
  BY ReliesAlone DEF LockInv, CallInv, Relying
<1>5. holder # s /\ holder' = s => cmd[s] = "set" /\ holder = None
  BY LockAssumption
  DEF Effect, SetEffect, ExtendEffect, ReleaseEffect, Owns
<1> QED
  BY <1>1, <1>2, <1>3, <1>4, <1>5, LeaseStep
  DEF StatusOf, OwnerInv, MayStillSet

(* Steps of the caller and answers to it.                                  *)
LEMMA CallerStep ==
  ASSUME LockInv, OwnerInv, NEW s \in Session,
         \/ Acquire(s) \/ WakeUp(s) \/ Release(s) \/ Crash(s)
         \/ \E ttl \in ExtendTtls : ExtendLock(s, ttl)
  PROVE  [Abstract!Next]_(Abstract!vars)
<1>1. UNCHANGED holder /\ Others(s)
  BY DEF Acquire, WakeUp, Release, Crash, ExtendLock, Send, Others, StatusOf,
         MayStillSet, LockInv, TypeOK
<1>2. CASE Acquire(s) \/ WakeUp(s)
  <2>1. Relying' = Relying
    BY <1>2 DEF Acquire, WakeUp, Relying
  <2>2. \/ StatusOf(s)' = StatusOf(s)
        \/ StatusOf(s) = "waiting" /\ StatusOf(s)' = "done"
    BY <1>2 DEF Acquire, WakeUp, Send, StatusOf, MayStillSet, OwnerInv,
                LockInv, TypeOK
  <2> QED BY <1>1, <2>1, <2>2, LeaseStep
<1>3. CASE Release(s) \/ Crash(s)
  <2>1. Relying' = Relying \ {s}
    BY <1>3 DEF Release, Crash, Relying, LockInv, TypeOK
  <2>2. \/ StatusOf(s)' = StatusOf(s)
        \/ StatusOf(s) = "waiting" /\ StatusOf(s)' = "done"
    BY <1>3 DEF Release, Crash, Send, StatusOf, MayStillSet, OwnerInv,
                LockInv, TypeOK
  <2>3. \/ Relying' = Relying
        \/ StatusOf(s) = "owner" /\ Relying' = {}
    BY <2>1, ReliesAlone DEF StatusOf, Relying
  <2>4. StatusOf(s) = "waiting" => Relying' = Relying
    BY <2>3
  <2> QED BY <1>1, <2>2, <2>3, <2>4, LeaseStep
<1>4. ASSUME NEW ttl \in ExtendTtls, ExtendLock(s, ttl)
      PROVE  [Abstract!Next]_(Abstract!vars)
  <2>1. ttl \in Nat /\ ttl > 0
    BY LockAssumption
  <2>2. Relying' = Relying
    BY <1>4, <2>1 DEF ExtendLock, Least, Relying, LockInv, TypeOK
  <2>3. StatusOf(s)' = StatusOf(s)
    BY <1>4 DEF ExtendLock, Send, StatusOf, MayStillSet, LockInv, TypeOK
  <2> QED BY <1>1, <2>2, <2>3, LeaseStep
<1> QED BY <1>2, <1>3, <1>4

(* The lock is got, or not; an extension is or is not.                     *)
LEMMA ReplyStep ==
  ASSUME LockInv, OwnerInv, NEW s \in Session, SetReply(s) \/ ExtendReply(s)
  PROVE  [Abstract!Next]_(Abstract!vars)
<1>1. Others(s)
  BY LockAssumption
  DEF Others, StatusOf, MayStillSet, SetReply, ExtendReply, Effect, SetEffect,
      ExtendEffect, ReleaseEffect, Owns, Answered, LockInv, TypeOK
<1>2. CASE SetReply(s) /\ holder = None
  <2>1. Relying = {} /\ s # None
    BY <1>2, ReliesAlone, LockAssumption DEF Relying
  <2>2. StatusOf(s) = "waiting" /\ StatusOf(s)' = "owner"
    BY <1>2, <2>1 DEF SetReply, StatusOf, MayStillSet, Effect, SetEffect
  <2>3. Relying' \in {{}, {s}}
    BY <1>2, <2>1 DEF SetReply, Relying, LockInv, TypeOK
  <2> QED BY <1>1, <1>2, <2>1, <2>2, <2>3, LeaseStep
<1>3. CASE SetReply(s) /\ holder # None
  <2>1. StatusOf(s)' = StatusOf(s) /\ Relying' = Relying
    BY <1>3 DEF SetReply, StatusOf, MayStillSet, Effect, SetEffect, Answered,
                Relying, OwnerInv, LockInv, TypeOK
  <2> QED BY <1>1, <2>1, LeaseStep
<1>4. CASE ExtendReply(s)
  <2>1. StatusOf(s)' = StatusOf(s)
    BY <1>4 DEF ExtendReply, StatusOf, MayStillSet, Effect, ExtendEffect, Owns,
                Answered, LockInv, TypeOK
  <2>2. CASE Owns(s)
    <3>1. StatusOf(s) = "owner" /\ Relying \in {{}, {s}}
      BY <2>2, ReliesAlone DEF Owns, StatusOf
    <3>2. Relying' \in {{}, {s}}
      BY <1>4, <3>1 DEF ExtendReply, Relying, LockInv, TypeOK
    <3> QED BY <1>1, <2>1, <3>1, <3>2, LeaseStep
  <2>3. CASE ~Owns(s)
    <3>1. Relying' = Relying
      BY <1>4, <2>3 DEF ExtendReply, Relying, LockInv, TypeOK
    <3> QED BY <1>1, <2>1, <3>1, LeaseStep
  <2> QED BY <2>2, <2>3
<1> QED BY <1>2, <1>3, <1>4

(* Time takes the lock from its owner, or the owner's trust in it, or      *)
(* neither.                                                                *)
LEMMA TickStep ==
  ASSUME LockInv, OwnerInv, Tick
  PROVE  [Abstract!Next]_(Abstract!vars)
<1>1. Relying' \subseteq Relying /\ UNCHANGED <<phase, cmd>>
  BY DEF Tick, Down, Relying, LockInv, TypeOK
<1>2. CASE holder = None
  <2>1. Relying = {} /\ Relying' = {} /\ holder' = None
    BY <1>1, <1>2, ReliesAlone, LockAssumption DEF Tick, Relying
  <2>2. \A u \in Session : StatusOf(u)' = StatusOf(u)
    BY <1>1, <1>2, <2>1 DEF StatusOf, MayStillSet
  <2> QED BY <2>1, <2>2 DEF Relying, Abstract!vars
<1>3. ASSUME NEW s \in Session, holder = s
      PROVE  [Abstract!Next]_(Abstract!vars)
  <2>1. Relying' \in {{}, {s}} /\ StatusOf(s) = "owner"
    BY <1>1, <1>3, ReliesAlone DEF StatusOf
  <2>2. Others(s)
    BY <1>1, <1>3, LockAssumption DEF Tick, Others, StatusOf, MayStillSet
  <2>3. CASE left = 1
    <3>1. Relying' = {}
      BY <1>3, <2>3 DEF Tick, Down, Relying, LockInv, TypeOK, LeaseInv
    <3>2. StatusOf(s)' = "done"
      BY <1>1, <1>3, <2>3, LockAssumption
      DEF Tick, StatusOf, MayStillSet, OwnerInv
    <3> QED BY <2>1, <2>2, <3>1, <3>2, LeaseStep
  <2>4. CASE left # 1
    <3>1. StatusOf(s)' = "owner"
      BY <1>3, <2>4 DEF Tick, StatusOf
    <3> QED BY <2>1, <2>2, <3>1, LeaseStep
  <2> QED BY <2>3, <2>4
<1> QED BY <1>2, <1>3 DEF LockInv, TypeOK

(* The lock keeps the promise of Lease, for any number of sessions, times  *)
(* to live and attempts.                                                   *)
THEOREM LockImplementsLease == Spec => ImplementsLease
<1>1. Init => Abstract!Init
  BY LockAssumption DEF Init, Abstract!Init, StatusOf, MayStillSet
<1>2. LockInv /\ OwnerInv /\ [Next]_vars => [Abstract!Next]_(Abstract!vars)
  <2> SUFFICES ASSUME LockInv, OwnerInv, [Next]_vars
               PROVE  [Abstract!Next]_(Abstract!vars)
    OBVIOUS
  <2>1. CASE UNCHANGED vars
    BY <2>1 DEF vars, Abstract!vars, StatusOf, MayStillSet
  <2>2. ASSUME NEW s \in Session,
               ReleaseReply(s) \/ CommandFails(s) \/ LateCommand(s)
        PROVE  [Abstract!Next]_(Abstract!vars)
    <3>1. CASE ReleaseReply(s)
      BY <3>1, EffectStep DEF ReleaseReply
    <3>2. CASE CommandFails(s)
      <4> DEFINE p == IF phase[s] = "working" THEN phase[s] ELSE "ended"
      <4>1. phase' = [phase EXCEPT ![s] = p]
        BY <3>2 DEF CommandFails, LockInv, TypeOK
      <4>2. /\ p \in {phase[s], "ended"}
            /\ phase[s] \in {"working", "ended"} \/ p = "ended"
        OBVIOUS
      <4> HIDE DEF p
      <4> QED BY <3>2, <4>1, <4>2, EffectStep DEF CommandFails
    <3>3. CASE LateCommand(s)
      <4>1. phase' = [phase EXCEPT ![s] = phase[s]] /\ phase[s] = "ended"
        BY <3>3 DEF LateCommand, LockInv, TypeOK
      <4> QED BY <3>3, <4>1, EffectStep DEF LateCommand
    <3> QED BY <2>2, <3>1, <3>2, <3>3
  <2> QED
    BY <2>1, <2>2, TickStep, CallerStep, ReplyStep DEF Next, Step
<1> QED
  BY Invariance, OwnerInvariance, <1>1, <1>2, PTL
  DEF Spec, ImplementsLease, Abstract!Spec
==============================================================================
