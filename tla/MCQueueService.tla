---------------------------- MODULE MCQueueService ----------------------------
(* A small instance of QueueService for TLC.                               *)
EXTENDS QueueService

CONSTANTS n1, n2, c1, c2

(* One queue of every type; handlers may use the first one too.            *)
AskedFor == {<<"redis", n1>>, <<"rabbitmq", n1>>, <<"memory", n1>>}
==============================================================================
