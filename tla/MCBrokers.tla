----------------------------- MODULE MCBrokers -----------------------------
(* The queue workers for TLC: a deployment runs on one of the brokers.  A   *)
(* JetStream consumer may have no delivery limit ("nats") or one            *)
(* ("nats_limited").                                                        *)
EXTENDS QueueWorker

CONSTANT Native

VARIABLES provider, buffer, unacked, orphans, lost

Nats == INSTANCE NatsJobs WITH BrokerLimit <- 0
NatsLimited == INSTANCE NatsJobs
Rabbit == INSTANCE RabbitJobs
Sqs == INSTANCE SqsJobs

ThreeDeliveries == [max |-> 3, initial |-> 1, cap |-> 3]
NativeRetry == [minimum |-> 1, maximum |-> 3]

all == <<shared, provider, buffer, unacked, orphans, lost>>
unusedByNats == <<provider, unacked, orphans, lost>>
unusedBySqs == <<provider, buffer, unacked, orphans, lost>>

Init ==
  /\ provider \in {"nats", "nats_limited", "rabbit", "sqs"}
  /\ Rabbit!Init

Next ==
  \/ provider = "nats" /\ Nats!Next /\ UNCHANGED unusedByNats
  \/ provider = "nats_limited" /\ NatsLimited!Next /\ UNCHANGED unusedByNats
  \/ provider = "rabbit" /\ Rabbit!Next /\ UNCHANGED provider
  \/ provider = "sqs" /\ Sqs!Next /\ UNCHANGED unusedBySqs

Spec == Init /\ [][Next]_all

-----------------------------------------------------------------------------
(* Fairness, in the same terms for every broker.                           *)

Starts(w) ==
  \/ provider \in {"nats", "nats_limited"} /\ Nats!Start(w) /\ UNCHANGED unusedByNats
  \/ provider = "rabbit" /\ Rabbit!Start(w) /\ UNCHANGED provider
  \/ provider = "sqs" /\ Sqs!Start(w) /\ UNCHANGED unusedBySqs

Stops(w) ==
  /\ loop[w] = "drain" \/ w \in lost \/ w \in errors
  /\ \/ provider \in {"nats", "nats_limited"} /\ Nats!Stop(w) /\ UNCHANGED unusedByNats
     \/ provider = "rabbit" /\ Rabbit!Stop(w) /\ UNCHANGED provider
     \/ provider = "sqs" /\ Sqs!Stop(w) /\ UNCHANGED unusedBySqs

ComesBack(j) ==
  \/ provider \in {"nats", "nats_limited"} /\ Nats!AckWaitExpires(j) /\ UNCHANGED unusedByNats
  \/ provider = "rabbit" /\ Rabbit!ChannelClosed(j) /\ UNCHANGED provider
  \/ provider = "sqs" /\ (Sqs!VisibilityExpires(j) \/ Sqs!Redrive(j)) /\ UNCHANGED unusedBySqs

Received(j) ==
  \E w \in Worker :
    /\ loop[w] = "select"
    /\ \/ provider = "nats" /\ Nats!Pull(w, j) /\ UNCHANGED unusedByNats
       \/ provider = "nats_limited" /\ NatsLimited!Pull(w, j) /\ UNCHANGED unusedByNats
       \/ provider = "rabbit" /\ Rabbit!Deliver(w, j) /\ UNCHANGED provider
       \/ /\ provider = "sqs" /\ Sqs!Receive(w) /\ UNCHANGED unusedBySqs
          /\ \E t \in tasks'[w] \ tasks[w] : t.delivery[1] = j

Spawned(j) ==
  \E w \in Worker : \E d \in buffer[w] :
    /\ d[1] = j
    /\ \/ provider \in {"nats", "nats_limited"} /\ Nats!Spawn(w, d) /\ UNCHANGED unusedByNats
       \/ provider = "rabbit" /\ Rabbit!Spawn(w, d) /\ UNCHANGED provider

Handled(j) ==
  \E w \in Worker : \E t \in tasks[w] :
    t.delivery[1] = j /\ Handle(w, t) /\ UNCHANGED unusedBySqs

DeadLettered(j) ==
  \E w \in Worker \ lost : \E t \in tasks[w] :
    t.delivery[1] = j /\ PublishDead(w, t) /\ UNCHANGED unusedBySqs

Settled(j) ==
  \E w \in Worker : \E t \in tasks[w] :
    /\ t.delivery[1] = j
    /\ \/ provider \in {"nats", "nats_limited"} /\ Nats!Settle(w, t) /\ UNCHANGED unusedByNats
       \/ provider = "rabbit" /\ Rabbit!Settle(w, t) /\ UNCHANGED provider
       \/ provider = "sqs" /\ Sqs!Settle(w, t) /\ UNCHANGED unusedBySqs
    /\ queue'[j] = "gone" \/ t.step = "retry"

\* Timers run, and not always while every worker drains; a worker that stopped
\* is restarted, one that met an error or drains ends, and a step on a job that
\* is possible again and again is once completed without a fault.
Fairness ==
  /\ \A w \in Worker : WF_all(Starts(w)) /\ WF_all(Stops(w))
  /\ \A j \in Job :
       /\ WF_all(ComesBack(j))
       /\ SF_all(ComesBack(j) /\ \E w \in Worker : loop[w] = "select")
       /\ SF_all(Received(j)) /\ SF_all(Spawned(j)) /\ SF_all(Handled(j))
       /\ SF_all(DeadLettered(j)) /\ SF_all(Settled(j))

FairSpec == Spec /\ Fairness

-----------------------------------------------------------------------------

\* With RabbitMQ, a message belongs to one channel, and no retry meets a delay
\* that the queue cannot give it (RabbitJobs!ChannelsAndDelaysAgree).
ChannelsAndDelaysAgree == provider = "rabbit" => Rabbit!ChannelsAndDelaysAgree

\* Every message leaves the source queue in the end, settled by a worker or by
\* the broker's own dead-letter route; only a JetStream consumer with a
\* delivery limit can keep one that was lost in every delivery.
EveryMessageLeaves ==
  \A j \in Job :
    <>(\/ queue[j] = "gone"
       \/ provider = "nats_limited" /\ count[j] = BrokerLimit)
=============================================================================
