---------------------------- MODULE MCRabbitMQQueue ----------------------------
(* Small instances of RabbitMQQueue for TLC.                               *)
EXTENDS RabbitMQQueue

CONSTANTS w1, w2, x

(* One retry, fewer than the default allows.                               *)
Limits == [t \in Task |-> 2]

(* One worker serves the clients and may crash, the other may be paused.   *)
CallsOf ==
  [w \in Worker |-> IF w \in Producers
                    THEN {"crash", "shutdown", "remove", "list", "again"}
                    ELSE {"pause", "shutdown", "clear"}]
PauseOnly == [w \in Worker |-> {"pause"}]
==============================================================================
