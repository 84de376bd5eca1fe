---------------------------- MODULE MCDeliveries ----------------------------
(* The Kafka consumers with their retry relay and the Redis workers for TLC  *)
(* in one state graph: a behaviour runs one of them, chosen at the start,    *)
(* and the other rests.                                                      *)
EXTENDS KafkaRetry, RedisJobs, TLC

CONSTANTS g1, j1, j2

VARIABLE part

OneGroup == [m \in Member |-> g1]

\* Two deliveries, then the dead-letter stream.
TwoDeliveries == [max |-> 2, initial |-> 1, cap |-> 2]

WorkerSymmetry == Permutations(Worker)

DeliveriesInit ==
  /\ part \in {"kafka", "redis"}
  /\ part # "kafka" => router = [g \in Group |-> "delayed"]
  /\ KafkaInit /\ RedisInit

DeliveriesNext ==
  \/ part = "kafka" /\ KafkaNext /\ UNCHANGED <<part, redisVars>>
  \/ part = "redis" /\ RedisNext /\ UNCHANGED <<part, kvars>>

DeliveriesSpec == DeliveriesInit /\ [][DeliveriesNext]_<<part, kvars, redisVars>>

=============================================================================
