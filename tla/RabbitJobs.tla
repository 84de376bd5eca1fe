----------------------------- MODULE RabbitJobs -----------------------------
(***************************************************************************)
(* The quorum-queue worker of crates/rustee-jobs-rabbitmq.  Deliveries are *)
(* pushed to the consumer channel up to the prefetch, which is the         *)
(* concurrency, and belong to that channel: they return to the queue when  *)
(* it closes and can be settled only on it.  A retry is a reject whose     *)
(* delay the queue's native policy chooses, so the worker insists that     *)
(* both policies agree.                                                    *)
(***************************************************************************)
EXTENDS QueueWorker

CONSTANT Native   \* RabbitMqNativeRetryConfig: minimum and maximum delay

VARIABLES
  buffer,    \* deliveries the client has and has not started
  unacked,   \* deliveries the broker counts for the open channel of a worker
  orphans,   \* jobs held by channels of loops that ended
  lost       \* running workers whose connection is broken

channels == <<buffer, unacked, orphans, lost>>
vars == <<shared, channels>>

Init ==
  /\ QueueInit
  /\ buffer = [w \in Worker |-> {}]
  /\ unacked = [w \in Worker |-> {}]
  /\ orphans = {} /\ lost = {}

Matches ==
  /\ IsValid(Policy)
  /\ Policy.initial = Native.minimum
  /\ Policy.cap = Native.maximum
  /\ Native.maximum <= 3 * Native.minimum

DelayFor(attempt) == Lesser(Native.minimum * (attempt - 1), Native.maximum)

Start(w) ==
  /\ loop[w] = "stopped"
  /\ Matches
  /\ loop' = [loop EXCEPT ![w] = "select"]
  /\ UNCHANGED <<malformed, queue, count, dead, tasks, errors, succeeded, channels>>

Deliver(w, j) ==
  /\ loop[w] = "select" /\ w \notin lost
  /\ queue[j] = "ready"
  /\ Cardinality(unacked[w]) < Concurrency
  /\ HandOut({j})
  /\ buffer' = [buffer EXCEPT ![w] = @ \cup {<<j, NextNumber(j)>>}]
  /\ unacked' = [unacked EXCEPT ![w] = @ \cup {<<j, NextNumber(j)>>}]
  /\ UNCHANGED <<malformed, dead, loop, tasks, errors, succeeded, orphans, lost>>

Spawn(w, d) ==
  /\ loop[w] = "select"
  /\ Running(w) < Concurrency
  /\ d \in buffer[w]
  /\ buffer' = [buffer EXCEPT ![w] = @ \ {d}]
  /\ tasks' = [tasks EXCEPT ![w] = @ \cup {NewTask(d)}]
  /\ UNCHANGED <<malformed, queue, count, dead, loop, errors, succeeded, unacked, orphans, lost>>

\* A message that comes back: to the queue or, at the delivery limit, through
\* the queue's dead-letter exchange.
Exhausted(j) == BrokerLimit # 0 /\ count[j] >= BrokerLimit

Returned(jobs) ==
  /\ queue' = [j \in Job |-> CASE j \notin jobs -> queue[j]
                               [] j \in jobs /\ Exhausted(j) -> "gone"
                               [] OTHER -> "ready"]
  /\ dead' = dead \cup {j \in jobs : Exhausted(j)}

\* The connection breaks while the loop runs: the broker takes everything
\* back, the tasks go on until the loop notices.
ConnectionLost(w) ==
  /\ loop[w] # "stopped" /\ w \notin lost
  /\ lost' = lost \cup {w}
  /\ Returned({d[1] : d \in unacked[w]})
  /\ unacked' = [unacked EXCEPT ![w] = {}]
  /\ UNCHANGED <<malformed, count, loop, tasks, errors, succeeded, buffer, orphans>>

\* basic_cancel, then drain_tasks.
Drain(w) ==
  /\ BeginDrain(w)
  /\ UNCHANGED <<malformed, queue, count, dead, tasks, errors, succeeded, channels>>

\* The channel is closed after the drain, dropped with an early return, or
\* lost in a crash; sooner or later the broker sees it.
Stop(w) ==
  /\ loop[w] # "stopped"
  /\ EndLoop(w)
  /\ buffer' = [buffer EXCEPT ![w] = {}]
  /\ unacked' = [unacked EXCEPT ![w] = {}]
  /\ orphans' = orphans \cup {d[1] : d \in unacked[w]}
  /\ lost' = lost \ {w}
  /\ UNCHANGED <<malformed, queue, count, dead, succeeded>>

ChannelClosed(j) ==
  /\ j \in orphans
  /\ Returned({j})
  /\ orphans' = orphans \ {j}
  /\ UNCHANGED <<malformed, count, loop, tasks, errors, succeeded, buffer, unacked, lost>>

\* retry_and_return insists on the delay of the native policy.
RetryAgrees(t) ==
  t.step = "retry" =>
    DelayFor(t.delivery[2] + 1) = AfterFailure(Policy, t.delivery[2]).delay

\* Mutant of Settle: a settlement reaches the message through any channel.
SettleAnywhere(w, t) ==
  /\ Settling(t) /\ RetryAgrees(t)
  /\ Finish(w, t)
  /\ IF t.step = "retry"
     THEN Returned({t.delivery[1]})
     ELSE Applied(t) /\ UNCHANGED dead
  /\ unacked' = [unacked EXCEPT ![w] = @ \ {t.delivery}]
  /\ UNCHANGED <<malformed, count, loop, errors, succeeded, buffer, orphans, lost>>

\* Mutant of Settle: a delivery to retry is not rejected.
SettleForgetsRetry(w, t) ==
  /\ Settling(t) /\ RetryAgrees(t)
  /\ t.delivery \in unacked[w]
  /\ Finish(w, t)
  /\ IF t.step = "retry"
     THEN UNCHANGED <<queue, unacked>>
     ELSE Applied(t) /\ unacked' = [unacked EXCEPT ![w] = @ \ {t.delivery}]
  /\ UNCHANGED <<malformed, count, dead, loop, errors, succeeded, buffer, orphans, lost>>

\* ack, or reject with requeue, on the channel of the delivery.
Settle(w, t) ==
  /\ Settling(t) /\ RetryAgrees(t)
  /\ t.delivery \in unacked[w]
  /\ Finish(w, t)
  /\ IF t.step = "retry"
     THEN Returned({t.delivery[1]})
     ELSE Applied(t) /\ UNCHANGED dead
  /\ unacked' = [unacked EXCEPT ![w] = @ \ {t.delivery}]
  /\ UNCHANGED <<malformed, count, loop, errors, succeeded, buffer, orphans, lost>>

\* The frame is written and the task ends well, but the connection breaks
\* before the broker reads it.
SettleUnread(w, t) ==
  /\ Settling(t) /\ RetryAgrees(t)
  /\ w \notin lost
  /\ lost' = lost \cup {w}
  /\ Finish(w, t)
  /\ Returned({d[1] : d \in unacked[w]})
  /\ unacked' = [unacked EXCEPT ![w] = {}]
  /\ UNCHANGED <<malformed, count, loop, errors, succeeded, buffer, orphans>>

TaskStep(w, t) ==
  \/ /\ \/ Handle(w, t) \/ SettleError(w, t)
        \/ w \notin lost /\ (PublishDead(w, t) \/ PublishDeadUnknown(w, t))
     /\ UNCHANGED channels
  \/ Settle(w, t) \/ SettleUnread(w, t)

Next ==
  \/ \E w \in Worker : Start(w) \/ Drain(w) \/ Stop(w) \/ ConnectionLost(w)
  \/ \E j \in orphans : ChannelClosed(j)
  \/ \E w \in Worker : \E j \in Job : Deliver(w, j)
  \/ \E w \in Worker : \E d \in buffer[w] : Spawn(w, d)
  \/ \E w \in Worker : \E t \in tasks[w] : TaskStep(w, t)

Spec == Init /\ [][Next]_vars

-----------------------------------------------------------------------------
(* Properties.                                                             *)

\* A message belongs to one channel: what one worker still has to settle, no
\* other worker, no other task and no closed channel can settle as well.
OneChannel ==
  /\ \A v, w \in Worker : \A c \in unacked[v], d \in unacked[w] :
       c[1] = d[1] => v = w /\ c = d
  /\ \A w \in Worker : \A d \in unacked[w] :
       queue[d[1]] = "held" /\ d[1] \notin orphans /\ d[2] = count[d[1]]

\* A worker that passed the check at start never meets RetryPolicyMismatch:
\* the linear delays of the queue are the capped exponential ones of the
\* policy, at every attempt (RabbitMqNativeRetryConfig).
NativeDelayAgrees ==
  \A w \in Worker : \A t \in tasks[w] : RetryAgrees(t)

\* A message belongs to one channel, open or closed, and the delay of the queue
\* is that of the retry policy whenever a delivery is returned.
ChannelsAndDelaysAgree == OneChannel /\ NativeDelayAgrees
=============================================================================
