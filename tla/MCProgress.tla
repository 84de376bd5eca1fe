----------------------------- MODULE MCProgress -----------------------------
(* What the consumers of the durable parts get done, for TLC in one state   *)
(* graph: an initial state chooses the part that runs, and the others stay  *)
(* as they are.                                                             *)
EXTENDS Inbox

CONSTANTS c1, c2, w1, w2, w3, MaxU16, MaxU32, MaxDuration

VARIABLES
  part,
  \* RedisJobs
  stream, pel, owner, count, idle, retry, dead, acked, rpc, claimed, counted,
  tasks, errors, succeeded,
  \* KafkaRetry
  router, log, offset, assigned, position, step, held, handled, failures,
  terminal, rows, rstep, batch, current, faults, relayFaults,
  \* HttpServer
  phase, hconn, connPermits, reqPermits

\* Two workers of the first consumer and one of the second.
MCConsumerOf == [w \in Worker |-> IF w = w3 THEN c2 ELSE c1]

\* One worker, one job, two deliveries.
Redis == INSTANCE RedisJobs WITH
  RedisJob <- {"j1"}, Malformed <- {}, Worker <- {w1}, Concurrency <- 2, MaxCount <- 2,
  Policy <- [max |-> 2, initial |-> 1, cap |-> 2], wpc <- rpc, consumer <- owner, deadLetters <- dead

\* Two members of a group, two relays, one fault.
Kafka == INSTANCE KafkaRetry WITH
  Events <- 1, Group <- {"g1"}, Member <- {w1, w2}, GroupOf <- [m \in {w1, w2} |-> "g1"],
  MaxDeliveries <- 2, Relay <- {"r1", "r2"}, BatchSize <- 2, MaxFaults <- 1, Nobody <- None,
  owner <- assigned, dead <- terminal

\* Two connections that share one request permit.
Server == INSTANCE HttpServer WITH
  HttpConns <- {w1, w2}, MaxConnections <- 2, MaxInFlight <- 1, MaxBodyBytes <- 1,
  BodySizes <- {1, 2}, MaxAsked <- 2

redisVars == <<stream, pel, owner, count, idle, retry, dead, acked, rpc, claimed, counted,
               tasks, errors, succeeded>>
kafkaVars == <<router, log, offset, assigned, position, step, held, handled, failures,
               terminal, rows, rstep, batch, current, faults, relayFaults>>
httpVars == <<phase, hconn, connPermits, reqPermits>>
all == <<part, ivars, redisVars, kafkaVars, httpVars>>

Init ==
  /\ part \in {"inbox", "redis", "kafka", "http"}
  /\ InboxInit /\ Redis!RedisInit /\ Kafka!KafkaInit /\ Server!HttpInit
  /\ part # "kafka" => router["g1"] = "delayed"

\* serve has returned and the process goes on without it.
Returned == phase \in {"stopped", "failed"} /\ UNCHANGED httpVars

Next ==
  \/ part = "inbox" /\ InboxNext /\ UNCHANGED <<part, redisVars, kafkaVars, httpVars>>
  \/ part = "redis" /\ Redis!RedisNext /\ UNCHANGED <<part, ivars, kafkaVars, httpVars>>
  \/ part = "kafka" /\ Kafka!KafkaNext /\ UNCHANGED <<part, ivars, redisVars, httpVars>>
  \/ part = "http" /\ (Server!HttpNext \/ Returned) /\ UNCHANGED <<part, ivars, redisVars, kafkaVars>>

FairSpec ==
  /\ Init /\ [][Next]_all
  /\ \/ part = "inbox" /\ InboxFairness
     \/ part = "redis" /\ Redis!RedisFairness
     \/ part = "kafka" /\ Kafka!KafkaFairness
     \/ part = "http" /\ Server!HttpFairness

-----------------------------------------------------------------------------
\* Every message takes effect at every consumer, every Redis job is acknowledged
\* or dead-lettered, every Kafka event is handled or dead-lettered, and serve
\* returns once shutdown is requested (see the modules for each).
EverythingSettles ==
  /\ EffectForEveryConsumer
  /\ Redis!EveryJobSettles
  /\ Kafka!EventSettles
  /\ Server!ShutdownCompletes
=============================================================================
