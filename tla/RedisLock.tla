------------------------------ MODULE RedisLock ------------------------------
(***************************************************************************)
(* The lock of src/utils/redis-lock.util.ts: a Redis key that expires,     *)
(* holds the random id of whoever set it, and is deleted or prolonged only *)
(* by a script that compares that id.                                      *)
(*                                                                         *)
(* One key is modelled; others are independent of it.  A session is one    *)
(* call of acquire or withLock with its id, up to its release.  A command  *)
(* is executed by Redis, and answered, at some moment after it is sent.    *)
(*                                                                         *)
(* Time is a countdown: left is the key's remaining time to live, and a    *)
(* Tick takes one unit of every countdown.  A key with nothing left to     *)
(* count would stay for ever; the code never sets one like that.           *)
(*                                                                         *)
(* As in MemoryQueue, a definition whose name ends in Slip is a likely     *)
(* mistake in the definition below it.                                     *)
(***************************************************************************)
EXTENDS Integers

CONSTANTS
  Session,
  Ttl,          \* the time to live acquire asks for
  ExtendTtls,   \* those that extendLock may ask for
  MaxAttempts,  \* retryOptions.maxAttempts
  None          \* no session: the key does not exist

ASSUME LockAssumption ==
  /\ Ttl \in Nat \ {0}
  /\ ExtendTtls \subseteq Nat \ {0}
  /\ MaxAttempts \in Nat \ {0}
  /\ None \notin Session

VARIABLES
  holder,       \* the session whose id the key holds, or None
  left,         \* the key's remaining time to live
  phase,        \* Session -> where the call stands
  attempts,     \* Session -> attempts made by acquire
  cmd,          \* Session -> the command sent and not yet executed
  asked,        \* Session -> the time to live of that command
  hope,         \* history: what is left of asked, counted from the sending
  sure          \* history: how long the session may count on its lock

vars == <<holder, left, phase, attempts, cmd, asked, hope, sure>>

Phase == {"idle", "setting", "sleeping", "working", "releasing", "ended"}
Cmd == {"none", "set", "extend", "release"}

TypeOK ==
  /\ holder \in Session \cup {None}
  /\ left \in Nat
  /\ phase \in [Session -> Phase]
  /\ attempts \in [Session -> 0 .. MaxAttempts]
  /\ cmd \in [Session -> Cmd]
  /\ asked \in [Session -> Nat]
  /\ hope \in [Session -> Nat]
  /\ sure \in [Session -> Nat]

Init ==
  /\ holder = None /\ left = 0
  /\ phase = [s \in Session |-> "idle"]
  /\ attempts = [s \in Session |-> 0]
  /\ cmd = [s \in Session |-> "none"]
  /\ asked = [s \in Session |-> 0]
  /\ hope = [s \in Session |-> 0]
  /\ sure = [s \in Session |-> 0]

------------------------------------------------------------------------------
(* The caller's side.                                                      *)

Send(s, c, ttl) ==
  /\ cmd' = [cmd EXCEPT ![s] = c]
  /\ asked' = [asked EXCEPT ![s] = ttl]
  /\ hope' = [hope EXCEPT ![s] = ttl]

Acquire(s) ==
  /\ phase[s] = "idle"
  /\ phase' = [phase EXCEPT ![s] = "setting"]
  /\ Send(s, "set", Ttl)
  /\ UNCHANGED <<holder, left, attempts, sure>>

(* After the delay acquire tries again or gives up and returns null.       *)
WakeUpSlip(s) ==
  /\ phase[s] = "sleeping"
  /\ phase' = [phase EXCEPT ![s] = "setting"]
  /\ Send(s, "set", Ttl)
  /\ UNCHANGED <<holder, left, attempts, sure>>
WakeUp(s) ==
  /\ phase[s] = "sleeping"
  /\ \/ /\ attempts[s] < MaxAttempts
        /\ phase' = [phase EXCEPT ![s] = "setting"]
        /\ Send(s, "set", Ttl)
     \/ /\ attempts[s] = MaxAttempts
        /\ phase' = [phase EXCEPT ![s] = "ended"]
        /\ UNCHANGED <<cmd, asked, hope>>
  /\ UNCHANGED <<holder, left, attempts, sure>>

Least(a, b) == IF a < b THEN a ELSE b

(* A shorter time to live than what is left may take effect from now on.   *)
ExtendLock(s, ttl) ==
  /\ phase[s] = "working" /\ cmd[s] = "none"
  /\ Send(s, "extend", ttl)
  /\ sure' = [sure EXCEPT ![s] = Least(@, ttl)]
  /\ UNCHANGED <<holder, left, phase, attempts>>

(* fn has settled, one way or the other: the finally block of withLock.    *)
Release(s) ==
  /\ phase[s] = "working" /\ cmd[s] = "none"
  /\ phase' = [phase EXCEPT ![s] = "releasing"]
  /\ Send(s, "release", 0)
  /\ sure' = [sure EXCEPT ![s] = 0]
  /\ UNCHANGED <<holder, left, attempts>>

------------------------------------------------------------------------------
(* Redis executes a command.                                               *)

(* The script only asks whether the key is there.                          *)
OwnsSlip(s) == holder # None
(* What both scripts ask before they do anything.                          *)
Owns(s) == holder = s

SetEffectSlip(s) ==
  IF holder = None THEN holder' = s /\ left' = 0
                   ELSE UNCHANGED <<holder, left>>
SetEffect(s) ==
  IF holder = None THEN holder' = s /\ left' = asked[s]
                   ELSE UNCHANGED <<holder, left>>

(* A key that has expired is set again.                                    *)
ExtendEffectSlip(s) ==
  IF holder \in {s, None} THEN holder' = s /\ left' = asked[s]
                          ELSE UNCHANGED <<holder, left>>
ExtendEffect(s) ==
  IF Owns(s) THEN left' = asked[s] /\ UNCHANGED holder
             ELSE UNCHANGED <<holder, left>>

(* The key is deleted without a look at its value.                         *)
ReleaseEffectSlip(s) == holder' = None /\ left' = 0
ReleaseEffect(s) ==
  IF Owns(s) THEN holder' = None /\ left' = 0
             ELSE UNCHANGED <<holder, left>>

Effect(s) ==
  \/ cmd[s] = "set" /\ SetEffect(s)
  \/ cmd[s] = "extend" /\ ExtendEffect(s)
  \/ cmd[s] = "release" /\ ReleaseEffect(s)

Answered(s) == cmd' = [cmd EXCEPT ![s] = "none"]

SetReply(s) ==
  /\ phase[s] = "setting" /\ cmd[s] = "set"
  /\ Effect(s) /\ Answered(s)
  /\ \/ /\ holder = None
        /\ phase' = [phase EXCEPT ![s] = "working"]
        /\ sure' = [sure EXCEPT ![s] = hope[s]]
        /\ UNCHANGED attempts
     \/ /\ holder # None
        /\ phase' = [phase EXCEPT ![s] = "sleeping"]
        /\ attempts' = [attempts EXCEPT ![s] = @ + 1]
        /\ UNCHANGED sure
  /\ UNCHANGED <<asked, hope>>

(* The caller is told whether the lock is still its own.                   *)
ExtendReply(s) ==
  /\ phase[s] = "working" /\ cmd[s] = "extend"
  /\ Effect(s) /\ Answered(s)
  /\ sure' = [sure EXCEPT ![s] = IF Owns(s) THEN hope[s] ELSE @]
  /\ UNCHANGED <<phase, attempts, asked, hope>>

ReleaseReply(s) ==
  /\ phase[s] = "releasing" /\ cmd[s] = "release"
  /\ Effect(s) /\ Answered(s)
  /\ phase' = [phase EXCEPT ![s] = "ended"]
  /\ UNCHANGED <<attempts, asked, hope, sure>>

------------------------------------------------------------------------------
(* Failures and time.                                                      *)

(* A command fails, executed or not.  acquire and release throw; when      *)
(* extendLock throws the function goes on, or withLock releases.           *)
CommandFails(s) ==
  /\ phase[s] # "ended" /\ cmd[s] # "none"
  /\ Effect(s) \/ UNCHANGED <<holder, left>>
  /\ Answered(s)
  /\ phase' = [phase EXCEPT ![s] = IF @ = "working" THEN @ ELSE "ended"]
  /\ UNCHANGED <<attempts, asked, hope, sure>>

(* The caller's process ends; a command it has sent may still be executed. *)
Crash(s) ==
  /\ phase[s] \notin {"idle", "ended"}
  /\ phase' = [phase EXCEPT ![s] = "ended"]
  /\ sure' = [sure EXCEPT ![s] = 0]
  /\ UNCHANGED <<holder, left, attempts, cmd, asked, hope>>

LateCommand(s) ==
  /\ phase[s] = "ended" /\ cmd[s] # "none"
  /\ Effect(s) \/ UNCHANGED <<holder, left>>
  /\ Answered(s)
  /\ UNCHANGED <<phase, attempts, asked, hope, sure>>

Down(n) == IF n = 0 THEN 0 ELSE n - 1

Tick ==
  /\ left' = Down(left)
  /\ holder' = IF left = 1 THEN None ELSE holder
  /\ hope' = [s \in Session |-> Down(hope[s])]
  /\ sure' = [s \in Session |-> Down(sure[s])]
  /\ UNCHANGED <<phase, attempts, cmd, asked>>

------------------------------------------------------------------------------
Step(s) ==
  \/ Acquire(s) \/ WakeUp(s) \/ Release(s)
  \/ \E ttl \in ExtendTtls : ExtendLock(s, ttl)
  \/ SetReply(s) \/ ExtendReply(s) \/ ReleaseReply(s)
  \/ CommandFails(s) \/ Crash(s) \/ LateCommand(s)

Next == Tick \/ \E s \in Session : Step(s)

Spec == Init /\ [][Next]_vars
------------------------------------------------------------------------------
(* Safety.                                                                 *)

(* A session that counts its time from the sending of the command that got *)
(* it the lock is right: as long as that time is not over, and whatever    *)
(* other sessions release, extend, retry or leave behind late, the key     *)
(* holds its id.                                                           *)
LeaseHolds == \A s \in Session : sure[s] > 0 => holder = s

(* A lock ends by its own session's release or by its time: no release, in *)
(* particular none of a session that lost the lock without noticing,       *)
(* unlocks somebody else's.                                                *)
OthersUntouched ==
  [][\A s \in Session : holder = s /\ holder' # s =>
       (left = 1 /\ left' = 0) \/ cmd[s] = "release"]_vars

(* A session that does not own the lock may still come to own it by the    *)
(* SET it has sent or will send, and by nothing else.                      *)
MayStillSet(s) ==
  phase[s] \in {"idle", "setting", "sleeping"} \/ cmd[s] = "set"

StatusOf(s) ==
  IF holder = s THEN "owner" ELSE IF MayStillSet(s) THEN "waiting" ELSE "done"

(* The promise of the lock as a whole: see Lease.  In particular a lock    *)
(* that ran out does not come back to life by a late extension, and is     *)
(* never handed over without a moment in which nobody relies on it.        *)
Abstract == INSTANCE Lease
  WITH status <- [s \in Session |-> StatusOf(s)],
       sure <- {s \in Session : sure[s] > 0}
ImplementsLease == Abstract!Spec

------------------------------------------------------------------------------
(* Liveness.  Time passes, Redis executes what it is sent, timers fire,    *)
(* and the function given to withLock ends, though it may extend the lock. *)

Fairness ==
  /\ WF_vars(Tick)
  /\ \A s \in Session :
       /\ WF_vars(SetReply(s) \/ ExtendReply(s) \/ ReleaseReply(s))
       /\ WF_vars(LateCommand(s)) /\ WF_vars(WakeUp(s)) /\ SF_vars(Release(s))

FairSpec == Spec /\ Fairness

(* Whatever crashes, the key does not stay locked by one session.          *)
LockEnds == \A s \in Session : holder = s ~> holder # s
==============================================================================
