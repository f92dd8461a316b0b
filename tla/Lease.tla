--------------------------------- MODULE Lease ---------------------------------
(***************************************************************************)
(* What src/utils/redis-lock.util.ts promises about one lock.  A session   *)
(* waits for it, owns it at most once, and is then done with it; there is  *)
(* one owner at a time; and nobody but the owner ever believes to be it.   *)
(* An owner may well not know: its answer was lost, or it counts its time  *)
(* from earlier than Redis does.                                           *)
(***************************************************************************)
CONSTANT Session
VARIABLES
  status,  \* Session -> "waiting", "owner" or "done"
  sure     \* the sessions that rely on the lock
vars == <<status, sure>>

Init == status = [s \in Session |-> "waiting"] /\ sure = {}

Turns(s, from, to) ==
  /\ status[s] = from
  /\ status' = [status EXCEPT ![s] = to]

Take(s) ==
  /\ \A u \in Session : status[u] # "owner"
  /\ Turns(s, "waiting", "owner")
  /\ sure' \in {sure, {s}}

GiveUp(s) == Turns(s, "waiting", "done") /\ UNCHANGED sure

Trust(s) ==
  /\ status[s] = "owner"
  /\ sure' \in {{}, {s}}
  /\ UNCHANGED status

Leave(s) == Turns(s, "owner", "done") /\ sure' = {}

Next == \E s \in Session : Take(s) \/ GiveUp(s) \/ Trust(s) \/ Leave(s)

Spec == Init /\ [][Next]_vars
==============================================================================
