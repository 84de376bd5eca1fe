------------------------------ MODULE NatsJobs ------------------------------
(***************************************************************************)
(* The JetStream worker of crates/rustee-jobs-nats.  The client pulls      *)
(* ahead: up to one batch of messages waits in the stream of run_with      *)
(* while the slots are taken, and the server's acknowledgement timer runs  *)
(* for them too.  ack and nak are published without an answer, so they may *)
(* get lost with no error.                                                 *)
(***************************************************************************)
EXTENDS QueueWorker

VARIABLE buffer   \* deliveries pulled and not started

vars == <<shared, buffer>>

Init ==
  /\ QueueInit
  /\ buffer = [w \in Worker |-> {}]

\* validate_runtime_config refuses a consumer whose max_deliver is below
\* max_deliveries.
Start(w) ==
  /\ loop[w] = "stopped"
  /\ BrokerLimit = 0 \/ BrokerLimit >= Policy.max
  /\ loop' = [loop EXCEPT ![w] = "select"]
  /\ UNCHANGED <<malformed, queue, count, dead, tasks, errors, succeeded, buffer>>

\* The pull requests of the stream are answered as long as it lives.  The
\* server stops at max_deliver.
Pull(w, j) ==
  /\ loop[w] # "stopped"
  /\ queue[j] = "ready"
  /\ BrokerLimit = 0 \/ count[j] < BrokerLimit
  /\ Cardinality(buffer[w]) < Concurrency
  /\ HandOut({j})
  /\ buffer' = [buffer EXCEPT ![w] = @ \cup {<<j, NextNumber(j)>>}]
  /\ UNCHANGED <<malformed, dead, loop, tasks, errors, succeeded>>

\* messages.next() yields a delivery while a slot is free.
Spawn(w, d) ==
  /\ loop[w] = "select"
  /\ Running(w) < Concurrency
  /\ d \in buffer[w]
  /\ buffer' = [buffer EXCEPT ![w] = @ \ {d}]
  /\ tasks' = [tasks EXCEPT ![w] = @ \cup {NewTask(d)}]
  /\ UNCHANGED <<malformed, queue, count, dead, loop, errors, succeeded>>

\* The server's ack_wait runs out.
AckWaitExpires(j) ==
  /\ queue[j] = "held"
  /\ queue' = [queue EXCEPT ![j] = "ready"]
  /\ UNCHANGED <<malformed, count, dead, loop, tasks, errors, succeeded, buffer>>

Drain(w) ==
  /\ BeginDrain(w)
  /\ UNCHANGED <<malformed, queue, count, dead, tasks, errors, succeeded, buffer>>

\* Drained, drain timeout, an error while draining, a failed pull, a crash.
Stop(w) ==
  /\ loop[w] # "stopped"
  /\ EndLoop(w)
  /\ buffer' = [buffer EXCEPT ![w] = {}]
  /\ UNCHANGED <<malformed, queue, count, dead, succeeded>>

\* Fire and forget.  A message that is gone stays gone; a late answer for an
\* older delivery still settles the message.
Settle(w, t) ==
  /\ Settling(t)
  /\ Finish(w, t)
  /\ \/ queue[t.delivery[1]] # "gone" /\ Applied(t)
     \/ UNCHANGED queue
  /\ UNCHANGED <<malformed, count, dead, loop, errors, succeeded, buffer>>

TaskStep(w, t) ==
  \/ /\ Handle(w, t) \/ PublishDead(w, t) \/ PublishDeadUnknown(w, t) \/ SettleError(w, t)
     /\ UNCHANGED buffer
  \/ Settle(w, t)

Next ==
  \/ \E w \in Worker : Start(w) \/ Drain(w) \/ Stop(w)
  \/ \E j \in Job : AckWaitExpires(j) \/ \E w \in Worker : Pull(w, j)
  \/ \E w \in Worker : \E d \in buffer[w] : Spawn(w, d)
  \/ \E w \in Worker : \E t \in tasks[w] : TaskStep(w, t)

Spec == Init /\ [][Next]_vars
=============================================================================
