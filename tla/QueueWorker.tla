----------------------------- MODULE QueueWorker -----------------------------
(***************************************************************************)
(* What the workers of crates/rustee-jobs-nats, -rabbitmq and -sqs share.  *)
(* The broker keeps one message per job and counts its deliveries; a       *)
(* worker is a select loop that starts a task per delivery; a task runs    *)
(* the handler (rustee-jobs dispatch) and then settles the delivery with   *)
(* separate requests to the broker.  In particular a dead letter is        *)
(* published, and confirmed, before the source message is removed.         *)
(*                                                                         *)
(* The modules NatsJobs, RabbitJobs and SqsJobs add how a delivery gets    *)
(* from the broker to a task and what a settlement does to the message.    *)
(* A delivery is <<job, delivery number>>.                                 *)
(***************************************************************************)
EXTENDS Integers, FiniteSets, JobRetry

CONSTANTS
  Job,          \* published jobs
  Worker,
  Policy,       \* the RetryPolicy of every worker
  Concurrency,  \* WorkerConfig::concurrency
  BrokerLimit,  \* the broker's own delivery limit, 0 if it has none
  MaxCount      \* bound: the delivery number saturates here

ASSUME QueueAssumption ==
  /\ Policy \in [max : Nat, initial : Nat, cap : Nat] /\ IsValid(Policy) /\ Policy.cap <= MaxDuration
  /\ Concurrency \in Nat \ {0}
  /\ BrokerLimit \in Nat
  /\ MaxCount \in Nat /\ MaxCount >= Policy.max /\ MaxCount >= BrokerLimit

Delivery == Job \X (1..MaxCount)
Step == {"handle", "acknowledge", "retry", "dead_letter", "remove"}
Task == [delivery : Delivery, step : Step]

VARIABLES
  malformed,  \* jobs whose envelope no worker can decode; never changes
  queue,      \* the message of each job: ready, held by a consumer, or gone
  count,      \* how often the broker has delivered it
  dead,       \* jobs on the dead-letter route
  loop,       \* the select loop of each worker
  tasks,      \* running delivery tasks of each worker
  errors,     \* workers with a finished task whose error is not joined yet
  succeeded   \* history: jobs whose handler succeeded

shared == <<malformed, queue, count, dead, loop, tasks, errors, succeeded>>

QueueTypeOK ==
  /\ malformed \subseteq Job
  /\ queue \in [Job -> {"ready", "held", "gone"}]
  /\ count \in [Job -> 0..MaxCount]
  /\ dead \subseteq Job
  /\ loop \in [Worker -> {"stopped", "select", "drain"}]
  /\ tasks \in [Worker -> SUBSET Task]
  /\ errors \subseteq Worker
  /\ succeeded \subseteq Job

\* Every job has been published once.
QueueInit ==
  /\ malformed \in SUBSET Job
  /\ queue = [j \in Job |-> "ready"]
  /\ count = [j \in Job |-> 0]
  /\ dead = {}
  /\ loop = [w \in Worker |-> "stopped"]
  /\ tasks = [w \in Worker |-> {}]
  /\ errors = {}
  /\ succeeded = {}

-----------------------------------------------------------------------------
(* The select loop.                                                        *)

\* A finished task counts until its result is joined.
Running(w) == Cardinality(tasks[w]) + (IF w \in errors THEN 1 ELSE 0)

\* The broker hands out the message: this is delivery number n.
NextNumber(j) == Lesser(count[j] + 1, MaxCount)

HandOut(jobs) ==
  /\ queue' = [j \in Job |-> IF j \in jobs THEN "held" ELSE queue[j]]
  /\ count' = [j \in Job |-> IF j \in jobs THEN NextNumber(j) ELSE count[j]]

NewTask(d) == [delivery |-> d, step |-> "handle"]

\* Shutdown, or the error of a joined task: intake stops, the tasks go on.
BeginDrain(w) ==
  /\ loop[w] = "select"
  /\ loop' = [loop EXCEPT ![w] = "drain"]

\* The loop returns and its tasks are aborted.
EndLoop(w) ==
  /\ loop' = [loop EXCEPT ![w] = "stopped"]
  /\ tasks' = [tasks EXCEPT ![w] = {}]
  /\ errors' = errors \ {w}

-----------------------------------------------------------------------------
(* A delivery task.                                                        *)

Replace(w, t, step) ==
  tasks' = [tasks EXCEPT ![w] = (@ \ {t}) \cup {[t EXCEPT !.step = step]}]

Finish(w, t) == tasks' = [tasks EXCEPT ![w] = @ \ {t}]

\* The handler succeeds, and only then the action is Acknowledge.
HandleOk(w, t) ==
  /\ t.step = "handle"
  /\ t.delivery[1] \notin malformed
  /\ succeeded' = succeeded \cup {t.delivery[1]}
  /\ Replace(w, t, "acknowledge")
  /\ UNCHANGED <<malformed, queue, count, dead, loop, errors>>

\* Mutant of HandleError: the delivery budget is one too small.
HandleErrorEarly(w, t) ==
  /\ t.step = "handle"
  /\ t.delivery[1] \notin malformed
  /\ Replace(w, t, AfterFailure(Policy, t.delivery[2] + 1).kind)
  /\ UNCHANGED <<malformed, queue, count, dead, loop, errors, succeeded>>

\* It fails or, with SQS, times out: after_failure decides on the attempt the
\* broker reports.
HandleError(w, t) ==
  /\ t.step = "handle"
  /\ t.delivery[1] \notin malformed
  /\ Replace(w, t, AfterFailure(Policy, t.delivery[2]).kind)
  /\ UNCHANGED <<malformed, queue, count, dead, loop, errors, succeeded>>

HandleMalformed(w, t) ==
  /\ t.step = "handle"
  /\ t.delivery[1] \in malformed
  /\ Replace(w, t, "dead_letter")
  /\ UNCHANGED <<malformed, queue, count, dead, loop, errors, succeeded>>

Handle(w, t) == HandleOk(w, t) \/ HandleError(w, t) \/ HandleMalformed(w, t)

\* Mutant of PublishDead: the source is removed whatever the answer is.
PublishDeadUnconfirmed(w, t) ==
  /\ t.step = "dead_letter"
  /\ Replace(w, t, "remove")
  /\ \/ dead' = dead \cup {t.delivery[1]}
     \/ UNCHANGED dead
  /\ UNCHANGED <<malformed, queue, count, loop, errors, succeeded>>

\* The dead letter is stored and confirmed.
PublishDead(w, t) ==
  /\ t.step = "dead_letter"
  /\ dead' = dead \cup {t.delivery[1]}
  /\ Replace(w, t, "remove")
  /\ UNCHANGED <<malformed, queue, count, loop, errors, succeeded>>

\* It is stored and the confirmation is lost: the task ends with an error.
PublishDeadUnknown(w, t) ==
  /\ t.step = "dead_letter"
  /\ dead' = dead \cup {t.delivery[1]}
  /\ Finish(w, t)
  /\ errors' = errors \cup {w}
  /\ UNCHANGED <<malformed, queue, count, loop, succeeded>>

\* A request fails without effect; the delivery is left unsettled.
SettleError(w, t) ==
  /\ t.step # "handle"
  /\ Finish(w, t)
  /\ errors' = errors \cup {w}
  /\ UNCHANGED <<malformed, queue, count, dead, loop, succeeded>>

\* A settlement request is applied: the message is removed or made ready.
Applied(t) ==
  queue' = [queue EXCEPT ![t.delivery[1]] =
              IF t.step = "retry" THEN "ready" ELSE "gone"]

Settling(t) == t.step \in {"acknowledge", "retry", "remove"}

-----------------------------------------------------------------------------
(* Properties.                                                             *)

\* No job is lost: a message leaves the source queue only when its handler
\* succeeded or the job is on the dead-letter route, whichever of several
\* overlapping deliveries removed it (settle_action of the three workers).
RemovedIsAccountedFor ==
  \A j \in Job : queue[j] = "gone" => j \in succeeded \cup dead

\* A well-formed job is dead-lettered only when the broker has delivered it at
\* least max_deliveries times, so no retry is cut short.
DeadLetterIsExhausted ==
  \A j \in dead \ malformed : count[j] >= Policy.max

\* A worker never runs more deliveries than its concurrency.
WithinConcurrency == \A w \in Worker : Cardinality(tasks[w]) <= Concurrency
=============================================================================
