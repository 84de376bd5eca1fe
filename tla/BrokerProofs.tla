---------------------------- MODULE BrokerProofs ----------------------------
(* Proofs about the queue workers, for any sets of jobs and workers, any     *)
(* retry policy, concurrency and delivery limit.                             *)
EXTENDS QueueWorker, WellFoundedInduction, TLAPS

CONSTANT Native

VARIABLES buffer, unacked, orphans, lost

Nats == INSTANCE NatsJobs
Rabbit == INSTANCE RabbitJobs
Sqs == INSTANCE SqsJobs

\* A task that will remove the source has the reason for it.
TaskHasReason ==
  \A w \in Worker : \A t \in tasks[w] :
    /\ t.step = "acknowledge" => t.delivery[1] \in succeeded
    /\ t.step = "remove" => t.delivery[1] \in dead

Accounted == QueueTypeOK /\ TaskHasReason /\ RemovedIsAccountedFor

\* After a failure a delivery is retried or dead-lettered (RetryPolicy).
LEMMA FailureKinds ==
  ASSUME NEW policy, NEW attempt
  PROVE  AfterFailure(policy, attempt).kind \in {"retry", "dead_letter"}
BY Zenon DEF AfterFailure, DeadLetter

\* A delivery number stays within its bound (NextNumber).
LEMMA NumberInRange ==
  ASSUME QueueTypeOK, NEW j \in Job
  PROVE  NextNumber(j) \in 1..MaxCount
BY QueueAssumption DEF QueueTypeOK, NextNumber, Lesser, QueueAssumption, IsValid

\* A handler run that ends keeps the account (dispatch, after_failure).
LEMMA HandleKeeps ==
  ASSUME Accounted, NEW w \in Worker, NEW t \in tasks[w], Handle(w, t)
  PROVE  Accounted'
<1>t. t \in Task
  BY Zenon DEF Accounted, QueueTypeOK
<1>1. CASE HandleOk(w, t)
  <2>1. [t EXCEPT !.step = "acknowledge"] \in Task
    BY <1>t, Zenon DEF Task, Step
  <2>j. t.delivery[1] \in Job
    BY <1>t, Zenon DEF Task, Delivery
  <2>2. QueueTypeOK'
    BY <1>1, <2>1, <2>j, Zenon DEF Accounted, QueueTypeOK, HandleOk, Replace
  <2>3. TaskHasReason'
    BY <1>1, <1>t, Zenon DEF Accounted, QueueTypeOK, TaskHasReason, HandleOk, Replace, Task
  <2>4. RemovedIsAccountedFor'
    BY <1>1, Zenon DEF Accounted, RemovedIsAccountedFor, HandleOk
  <2> QED BY <2>2, <2>3, <2>4, Zenon DEF Accounted
<1>2. CASE HandleError(w, t)
  <2> DEFINE kind == AfterFailure(Policy, t.delivery[2]).kind
  <2>0. kind \in {"retry", "dead_letter"}
    BY FailureKinds, Zenon
  <2>1. [t EXCEPT !.step = kind] \in Task
    BY <1>t, <2>0, Zenon DEF Task, Step
  <2>c. tasks' = [tasks EXCEPT ![w] = (@ \ {t}) \cup {[t EXCEPT !.step = kind]}]
    BY <1>2, Zenon DEF HandleError, Replace
  <2> HIDE DEF kind
  <2>2. QueueTypeOK'
    BY <1>2, <2>c, <2>1, Zenon DEF Accounted, QueueTypeOK, HandleError
  <2>3. TaskHasReason'
    BY <1>2, <1>t, <2>c, <2>0, Zenon DEF Accounted, QueueTypeOK, TaskHasReason, HandleError, Task
  <2>4. RemovedIsAccountedFor'
    BY <1>2, Zenon DEF Accounted, RemovedIsAccountedFor, HandleError
  <2> QED BY <2>2, <2>3, <2>4, Zenon DEF Accounted
<1>3. CASE HandleMalformed(w, t)
  <2>1. [t EXCEPT !.step = "dead_letter"] \in Task
    BY <1>t, Zenon DEF Task, Step
  <2>2. QueueTypeOK'
    BY <1>3, <2>1, Zenon DEF Accounted, QueueTypeOK, HandleMalformed, Replace
  <2>3. TaskHasReason'
    BY <1>3, <1>t, Zenon DEF Accounted, QueueTypeOK, TaskHasReason, HandleMalformed, Replace, Task
  <2>4. RemovedIsAccountedFor'
    BY <1>3, Zenon DEF Accounted, RemovedIsAccountedFor, HandleMalformed
  <2> QED BY <2>2, <2>3, <2>4, Zenon DEF Accounted
<1> QED BY <1>1, <1>2, <1>3, Zenon DEF Handle

\* Tasks that end or have just been started need no reason, and reasons do not
\* go away: the general step of the account.
LEMMA StepKeeps ==
  ASSUME Accounted, QueueTypeOK',
         \A w \in Worker : \A t \in tasks'[w] : t \in tasks[w] \/ t.step = "handle",
         succeeded \subseteq succeeded', dead \subseteq dead',
         \A j \in Job : queue'[j] = "gone" => queue[j] = "gone" \/ j \in succeeded' \cup dead'
  PROVE  Accounted'
<1>1. TaskHasReason'
  BY Zenon DEF Accounted, TaskHasReason
<1>2. RemovedIsAccountedFor'
  BY Zenon DEF Accounted, RemovedIsAccountedFor
<1> QED BY <1>1, <1>2, Zenon DEF Accounted

\* A confirmed dead letter is the reason to remove the source; an unconfirmed
\* one, or a failed request, ends the task (dead_letter_and_acknowledge).
LEMMA PublishKeeps ==
  ASSUME Accounted, NEW w \in Worker, NEW t \in tasks[w],
         PublishDead(w, t) \/ PublishDeadUnknown(w, t) \/ SettleError(w, t)
  PROVE  Accounted'
<1>t. t \in Task /\ t.delivery[1] \in Job
  BY DEF Accounted, QueueTypeOK, Task, Delivery
<1>1. CASE PublishDead(w, t)
  <2>1. [t EXCEPT !.step = "remove"] \in Task
    BY <1>t, Zenon DEF Task, Step
  <2>2. QueueTypeOK'
    BY <1>1, <1>t, <2>1, Zenon DEF Accounted, QueueTypeOK, PublishDead, Replace
  <2>3. TaskHasReason'
    BY <1>1, <1>t DEF Accounted, QueueTypeOK, TaskHasReason, PublishDead, Replace, Task
  <2>4. RemovedIsAccountedFor'
    BY <1>1, Zenon DEF Accounted, RemovedIsAccountedFor, PublishDead
  <2> QED BY <2>2, <2>3, <2>4, Zenon DEF Accounted
<1>2. CASE PublishDeadUnknown(w, t)
  <2>1. QueueTypeOK'
    BY <1>2, <1>t, Zenon DEF Accounted, QueueTypeOK, PublishDeadUnknown, Finish
  <2> QED BY <1>2, <2>1, StepKeeps, Zenon DEF Accounted, QueueTypeOK, PublishDeadUnknown, Finish
<1>3. CASE SettleError(w, t)
  <2>1. QueueTypeOK'
    BY <1>3, Zenon DEF Accounted, QueueTypeOK, SettleError, Finish
  <2> QED BY <1>3, <2>1, StepKeeps, Zenon DEF Accounted, QueueTypeOK, SettleError, Finish
<1> QED BY <1>1, <1>2, <1>3, Zenon

\* Handing out messages touches only the ones that are handed out (external).
LEMMA HandOutTypes ==
  ASSUME QueueTypeOK, NEW jobs, HandOut(jobs)
  PROVE  /\ queue' \in [Job -> {"ready", "held", "gone"}]
         /\ count' \in [Job -> 0..MaxCount]
         /\ \A j \in Job : queue'[j] = "gone" => queue[j] = "gone"
BY NumberInRange DEF QueueTypeOK, HandOut

\* A delivery that a broker hands out starts as a task at its handler.
LEMMA NewTaskType ==
  ASSUME NEW d \in Delivery
  PROVE  NewTask(d) \in Task /\ NewTask(d).step = "handle"
BY Zenon DEF NewTask, Task, Step

\* Removing the source, or making it ready, is accounted for by the task.
LEMMA AppliedTypes ==
  ASSUME Accounted, NEW w \in Worker, NEW t \in tasks[w], Settling(t), Applied(t)
  PROVE  /\ queue' \in [Job -> {"ready", "held", "gone"}]
         /\ \A j \in Job : queue'[j] = "gone" => queue[j] = "gone" \/ j \in succeeded \cup dead
<1>t. t \in Task /\ t.delivery[1] \in Job
  BY DEF Accounted, QueueTypeOK, Task, Delivery
<1>1. t.step # "retry" => t.delivery[1] \in succeeded \cup dead
  BY Zenon DEF Accounted, TaskHasReason, Settling
<1> QED BY <1>t, <1>1, Zenon DEF Accounted, QueueTypeOK, Applied

\* A worker that only changes its loop, hands out messages, gives them back or
\* drops its tasks keeps the account.
LEMMA LoopKeeps ==
  ASSUME Accounted,
         UNCHANGED <<malformed, dead, succeeded>>,
         loop' \in [Worker -> {"stopped", "select", "drain"}],
         errors' \subseteq Worker,
         tasks' \in [Worker -> SUBSET Task],
         \A w \in Worker : \A t \in tasks'[w] : t \in tasks[w] \/ t.step = "handle",
         queue' \in [Job -> {"ready", "held", "gone"}],
         count' \in [Job -> 0..MaxCount],
         \A j \in Job : queue'[j] = "gone" => queue[j] = "gone" \/ j \in succeeded \cup dead
  PROVE  Accounted'
<1>1. QueueTypeOK'
  BY Zenon DEF Accounted, QueueTypeOK
<1> QED BY <1>1, StepKeeps, Zenon

-----------------------------------------------------------------------------
(* JetStream.                                                              *)

NatsAccounted == Accounted /\ buffer \in [Worker -> SUBSET Delivery]

\* The JetStream worker uses the shared task steps as they are.
LEMMA NatsShared ==
  ASSUME NEW w, NEW t
  PROVE  /\ Nats!Handle(w, t) => Handle(w, t)
         /\ Nats!PublishDead(w, t) => PublishDead(w, t)
         /\ Nats!PublishDeadUnknown(w, t) => PublishDeadUnknown(w, t)
         /\ Nats!SettleError(w, t) => SettleError(w, t)
         /\ Nats!Settling(t) => Settling(t)
         /\ Nats!Applied(t) => Applied(t)
<1>1. Nats!AfterFailure(Policy, t.delivery[2]).kind = AfterFailure(Policy, t.delivery[2]).kind
  BY Zenon DEF Nats!AfterFailure, Nats!DeadLetter, Nats!IsValid, AfterFailure, DeadLetter, IsValid
<1>2. Nats!Handle(w, t) => Handle(w, t)
  BY <1>1, Zenon DEF Nats!Handle, Nats!HandleOk, Nats!HandleError, Nats!HandleMalformed, Nats!Replace,
              Handle, HandleOk, HandleError, HandleMalformed, Replace
<1>3. Nats!PublishDead(w, t) => PublishDead(w, t)
  BY Zenon DEF Nats!PublishDead, Nats!Replace, PublishDead, Replace
<1>4. Nats!PublishDeadUnknown(w, t) => PublishDeadUnknown(w, t)
  BY Zenon DEF Nats!PublishDeadUnknown, Nats!Finish, PublishDeadUnknown, Finish
<1>5. Nats!SettleError(w, t) => SettleError(w, t)
  BY Zenon DEF Nats!SettleError, Nats!Finish, SettleError, Finish
<1>6. Nats!Settling(t) => Settling(t)
  BY Zenon DEF Nats!Settling, Settling
<1>7. Nats!Applied(t) => Applied(t)
  BY Zenon DEF Nats!Applied, Applied
<1> QED BY <1>2, <1>3, <1>4, <1>5, <1>6, <1>7, Zenon

\* A task step of the JetStream worker keeps the account.
LEMMA NatsTaskKeeps ==
  ASSUME NatsAccounted, NEW w \in Worker, NEW t \in tasks[w], Nats!TaskStep(w, t)
  PROVE  NatsAccounted'
<1>1. CASE Handle(w, t) /\ UNCHANGED buffer
  BY <1>1, HandleKeeps, Zenon DEF NatsAccounted
<1>2. CASE (PublishDead(w, t) \/ PublishDeadUnknown(w, t) \/ SettleError(w, t)) /\ UNCHANGED buffer
  BY <1>2, PublishKeeps, Zenon DEF NatsAccounted
<1>3. CASE Nats!Settle(w, t)
  <2>1. tasks' \in [Worker -> SUBSET Task] /\ \A v \in Worker : tasks'[v] \subseteq tasks[v]
    BY <1>3, Zenon DEF NatsAccounted, Accounted, QueueTypeOK, Nats!Settle, Nats!Finish
  <2>2. Settling(t) /\ (Applied(t) \/ UNCHANGED queue)
    BY <1>3, NatsShared, Zenon DEF Nats!Settle
  <2>3. UNCHANGED <<malformed, count, dead, loop, errors, succeeded, buffer>>
    BY <1>3, Zenon DEF Nats!Settle
  <2>4. /\ queue' \in [Job -> {"ready", "held", "gone"}]
        /\ \A j \in Job : queue'[j] = "gone" => queue[j] = "gone" \/ j \in succeeded \cup dead
    BY <2>2, AppliedTypes, Zenon DEF NatsAccounted, Accounted, QueueTypeOK
  <2> QED BY <2>1, <2>3, <2>4, LoopKeeps, Zenon DEF NatsAccounted, Accounted, QueueTypeOK
<1> QED BY <1>1, <1>2, <1>3, NatsShared, Zenon DEF Nats!TaskStep

\* The initial state is accounted for.
LEMMA InitAccounted ==
  ASSUME QueueInit
  PROVE  Accounted
BY QueueAssumption DEF QueueAssumption, QueueInit, Accounted, QueueTypeOK, TaskHasReason, RemovedIsAccountedFor

\* NatsAccounted is inductive.
LEMMA NatsInductive == Nats!Spec => []NatsAccounted
<1>1. Nats!Init => NatsAccounted
  BY InitAccounted, Zenon DEF Nats!Init, Nats!QueueInit, QueueInit, NatsAccounted
<1>2. NatsAccounted /\ [Nats!Next]_(Nats!vars) => NatsAccounted'
  <2> SUFFICES ASSUME NatsAccounted, [Nats!Next]_(Nats!vars)
               PROVE  NatsAccounted'
    BY Zenon
  <2>t. Accounted /\ QueueTypeOK /\ buffer \in [Worker -> SUBSET Delivery]
    BY Zenon DEF NatsAccounted, Accounted
  <2>1. ASSUME NEW w \in Worker, Nats!Start(w) PROVE NatsAccounted'
    BY <2>1, <2>t, LoopKeeps, Zenon DEF NatsAccounted, QueueTypeOK, Nats!Start
  <2>2. ASSUME NEW w \in Worker, Nats!Drain(w) PROVE NatsAccounted'
    BY <2>2, <2>t, LoopKeeps, Zenon DEF NatsAccounted, QueueTypeOK, Nats!Drain, Nats!BeginDrain
  <2>3. ASSUME NEW w \in Worker, Nats!Stop(w) PROVE NatsAccounted'
    <3>1. /\ tasks' \in [Worker -> SUBSET Task] /\ \A v \in Worker : tasks'[v] \subseteq tasks[v]
          /\ loop' \in [Worker -> {"stopped", "select", "drain"}]
          /\ errors' \subseteq Worker /\ buffer' \in [Worker -> SUBSET Delivery]
      BY <2>3, <2>t, Zenon DEF QueueTypeOK, Nats!Stop, Nats!EndLoop
    <3> QED BY <2>3, <2>t, <3>1, LoopKeeps, Zenon DEF NatsAccounted, QueueTypeOK, Nats!Stop
  <2>4. ASSUME NEW j \in Job, Nats!AckWaitExpires(j) PROVE NatsAccounted'
    BY <2>4, <2>t, LoopKeeps, Zenon DEF NatsAccounted, QueueTypeOK, Nats!AckWaitExpires
  <2>5. ASSUME NEW w \in Worker, NEW j \in Job, Nats!Pull(w, j) PROVE NatsAccounted'
    <3>1. HandOut({j})
      BY <2>5, Zenon DEF Nats!Pull, Nats!HandOut, HandOut, Nats!NextNumber, NextNumber, Nats!Lesser, Lesser
    <3>2. <<j, NextNumber(j)>> \in Delivery
      BY <2>t, NumberInRange, Zenon DEF Delivery
    <3>3. buffer' \in [Worker -> SUBSET Delivery]
      BY <2>5, <2>t, <3>2, Zenon DEF Nats!Pull, Nats!NextNumber, NextNumber, Nats!Lesser, Lesser
    <3> QED BY <2>5, <2>t, <3>1, <3>3, HandOutTypes, LoopKeeps, Zenon DEF NatsAccounted, QueueTypeOK, Nats!Pull
  <2>6. ASSUME NEW w \in Worker, NEW d \in buffer[w], Nats!Spawn(w, d) PROVE NatsAccounted'
    <3>1. NewTask(d) \in Task /\ NewTask(d).step = "handle"
      BY <2>t, NewTaskType, Zenon
    <3>2. tasks' = [tasks EXCEPT ![w] = @ \cup {NewTask(d)}]
      BY <2>6, Zenon DEF Nats!Spawn, Nats!NewTask, NewTask
    <3>3. /\ tasks' \in [Worker -> SUBSET Task]
          /\ \A v \in Worker : \A t \in tasks'[v] : t \in tasks[v] \/ t.step = "handle"
      BY <2>t, <3>1, <3>2, Zenon DEF QueueTypeOK
    <3> QED BY <2>6, <2>t, <3>3, LoopKeeps, Zenon DEF NatsAccounted, QueueTypeOK, Nats!Spawn
  <2>7. ASSUME NEW w \in Worker, NEW t \in tasks[w], Nats!TaskStep(w, t) PROVE NatsAccounted'
    BY <2>7, NatsTaskKeeps, Zenon
  <2>8. CASE UNCHANGED Nats!vars
    BY <2>8, <2>t, LoopKeeps, Zenon DEF NatsAccounted, QueueTypeOK, Nats!vars, Nats!shared
  <2> QED BY <2>1, <2>2, <2>3, <2>4, <2>5, <2>6, <2>7, <2>8, Zenon DEF Nats!Next
<1> QED BY <1>1, <1>2, PTL DEF Nats!Spec

\* JetStream loses no job: whatever is lost, repeated or stopped, a message
\* leaves the stream only after its handler succeeded or it was dead-lettered
\* (settle_action of crates/rustee-jobs-nats).
THEOREM NatsLosesNoJob == Nats!Spec => []RemovedIsAccountedFor
<1>1. NatsAccounted => RemovedIsAccountedFor
  BY Zenon DEF NatsAccounted, Accounted
<1> QED BY <1>1, NatsInductive, PTL

-----------------------------------------------------------------------------
(* SQS.                                                                    *)

\* The SQS worker uses the shared task steps as they are.
LEMMA SqsShared ==
  ASSUME NEW w, NEW t
  PROVE  /\ Sqs!Handle(w, t) => Handle(w, t)
         /\ Sqs!PublishDead(w, t) => PublishDead(w, t)
         /\ Sqs!PublishDeadUnknown(w, t) => PublishDeadUnknown(w, t)
         /\ Sqs!SettleError(w, t) => SettleError(w, t)
         /\ Sqs!Settling(t) => Settling(t)
         /\ Sqs!Applied(t) => Applied(t)
<1>1. Sqs!AfterFailure(Policy, t.delivery[2]).kind = AfterFailure(Policy, t.delivery[2]).kind
  BY Zenon DEF Sqs!AfterFailure, Sqs!DeadLetter, Sqs!IsValid, AfterFailure, DeadLetter, IsValid
<1>2. Sqs!Handle(w, t) => Handle(w, t)
  BY <1>1, Zenon DEF Sqs!Handle, Sqs!HandleOk, Sqs!HandleError, Sqs!HandleMalformed, Sqs!Replace,
              Handle, HandleOk, HandleError, HandleMalformed, Replace
<1>3. Sqs!PublishDead(w, t) => PublishDead(w, t)
  BY Zenon DEF Sqs!PublishDead, Sqs!Replace, PublishDead, Replace
<1>4. Sqs!PublishDeadUnknown(w, t) => PublishDeadUnknown(w, t)
  BY Zenon DEF Sqs!PublishDeadUnknown, Sqs!Finish, PublishDeadUnknown, Finish
<1>5. Sqs!SettleError(w, t) => SettleError(w, t)
  BY Zenon DEF Sqs!SettleError, Sqs!Finish, SettleError, Finish
<1>6. Sqs!Settling(t) => Settling(t)
  BY Zenon DEF Sqs!Settling, Settling
<1>7. Sqs!Applied(t) => Applied(t)
  BY Zenon DEF Sqs!Applied, Applied
<1> QED BY <1>2, <1>3, <1>4, <1>5, <1>6, <1>7, Zenon

\* A task step of the SQS worker keeps the account.
LEMMA SqsTaskKeeps ==
  ASSUME Accounted, NEW w \in Worker, NEW t \in tasks[w], Sqs!TaskStep(w, t)
  PROVE  Accounted'
<1>t. QueueTypeOK /\ t.delivery[1] \in Job
  BY DEF Accounted, QueueTypeOK, Task, Delivery
<1>1. CASE Handle(w, t)
  BY <1>1, HandleKeeps, Zenon
<1>2. CASE PublishDead(w, t) \/ PublishDeadUnknown(w, t) \/ SettleError(w, t)
  BY <1>2, PublishKeeps, Zenon
<1>3. CASE Sqs!RenewVisibility(w, t)
  BY <1>3, <1>t, LoopKeeps, Zenon DEF QueueTypeOK, Sqs!RenewVisibility
<1>4. CASE Sqs!Settle(w, t)
  <2>1. tasks' \in [Worker -> SUBSET Task] /\ \A v \in Worker : tasks'[v] \subseteq tasks[v]
    BY <1>4, <1>t, Zenon DEF QueueTypeOK, Sqs!Settle, Sqs!Finish
  <2>2. Settling(t) /\ (Applied(t) \/ UNCHANGED queue)
    BY <1>4, SqsShared, Zenon DEF Sqs!Settle
  <2>3. UNCHANGED <<malformed, count, dead, loop, succeeded>> /\ errors' \subseteq Worker
    BY <1>4, <1>t, Zenon DEF Sqs!Settle, QueueTypeOK
  <2>4. /\ queue' \in [Job -> {"ready", "held", "gone"}]
        /\ \A j \in Job : queue'[j] = "gone" => queue[j] = "gone" \/ j \in succeeded \cup dead
    BY <1>t, <2>2, AppliedTypes, Zenon DEF QueueTypeOK
  <2> QED BY <1>t, <2>1, <2>3, <2>4, LoopKeeps, Zenon DEF QueueTypeOK
<1> QED BY <1>1, <1>2, <1>3, <1>4, SqsShared, Zenon DEF Sqs!TaskStep

\* A receive keeps the account, whether or not its answer arrives.
LEMMA SqsReceiveKeeps ==
  ASSUME Accounted, NEW w \in Worker, Sqs!Receive(w)
  PROVE  Accounted'
<1>t. QueueTypeOK
  BY Zenon DEF Accounted
<1>p. PICK jobs \in SUBSET {j \in Job : queue[j] = "ready" /\ count[j] < BrokerLimit} :
        /\ Sqs!HandOut(jobs)
        /\ \/ tasks' = [tasks EXCEPT ![w] = @ \cup {Sqs!NewTask(<<j, Sqs!NextNumber(j)>>) : j \in jobs}]
           \/ UNCHANGED tasks
  BY Zenon DEF Sqs!Receive
<1>1. /\ jobs \subseteq Job
      /\ HandOut(jobs)
      /\ \/ tasks' = [tasks EXCEPT ![w] = @ \cup {NewTask(<<j, NextNumber(j)>>) : j \in jobs}]
         \/ UNCHANGED tasks
  <2>1. \A j : Sqs!NextNumber(j) = NextNumber(j)
    BY Zenon DEF Sqs!NextNumber, NextNumber, Sqs!Lesser, Lesser
  <2>2. \A d : Sqs!NewTask(d) = NewTask(d)
    BY Zenon DEF Sqs!NewTask, NewTask
  <2>3. HandOut(jobs)
    BY <1>p, <2>1, Zenon DEF Sqs!HandOut, HandOut
  <2>4. {Sqs!NewTask(<<j, Sqs!NextNumber(j)>>) : j \in jobs} = {NewTask(<<j, NextNumber(j)>>) : j \in jobs}
    BY <2>1, <2>2, Zenon
  <2>5. jobs \subseteq Job
    BY <1>p, Zenon
  <2>6. \/ tasks' = [tasks EXCEPT ![w] = @ \cup {NewTask(<<j, NextNumber(j)>>) : j \in jobs}]
        \/ UNCHANGED tasks
    BY <1>p, <2>4, Zenon
  <2> QED BY <2>3, <2>5, <2>6, Zenon
<1>2. \A j \in jobs : NewTask(<<j, NextNumber(j)>>) \in Task /\ NewTask(<<j, NextNumber(j)>>).step = "handle"
  BY <1>t, NumberInRange, NewTaskType, Zenon DEF Delivery
<1> DEFINE started == {NewTask(<<j, NextNumber(j)>>) : j \in jobs}
<1>s. started \subseteq Task /\ \A t \in started : t.step = "handle"
  BY <1>2, Zenon
<1>e. tasks' = [tasks EXCEPT ![w] = @ \cup started] \/ UNCHANGED tasks
  BY <1>1, Zenon
<1> HIDE DEF started
<1>3. /\ tasks' \in [Worker -> SUBSET Task]
      /\ \A v \in Worker : \A t \in tasks'[v] : t \in tasks[v] \/ t.step = "handle"
  BY <1>t, <1>s, <1>e, Zenon DEF QueueTypeOK
<1> QED BY <1>t, <1>1, <1>3, HandOutTypes, LoopKeeps, Zenon DEF QueueTypeOK, Sqs!Receive

\* With SQS, too, the account is inductive.
LEMMA SqsInductive == Sqs!Spec => []Accounted
<1>1. Sqs!Init => Accounted
  BY InitAccounted, Zenon DEF Sqs!Init, Sqs!QueueInit, QueueInit
<1>2. Accounted /\ [Sqs!Next]_(Sqs!vars) => Accounted'
  <2> SUFFICES ASSUME Accounted, [Sqs!Next]_(Sqs!vars)
               PROVE  Accounted'
    BY Zenon
  <2>t. QueueTypeOK
    BY Zenon DEF Accounted
  <2>1. ASSUME NEW w \in Worker, Sqs!Start(w) PROVE Accounted'
    BY <2>1, <2>t, LoopKeeps, Zenon DEF QueueTypeOK, Sqs!Start
  <2>2. ASSUME NEW w \in Worker, Sqs!Drain(w) PROVE Accounted'
    BY <2>2, <2>t, LoopKeeps, Zenon DEF QueueTypeOK, Sqs!Drain, Sqs!BeginDrain
  <2>3. ASSUME NEW w \in Worker, Sqs!Stop(w) PROVE Accounted'
    <3>1. /\ tasks' \in [Worker -> SUBSET Task] /\ \A v \in Worker : tasks'[v] \subseteq tasks[v]
          /\ loop' \in [Worker -> {"stopped", "select", "drain"}]
          /\ errors' \subseteq Worker
      BY <2>3, <2>t, Zenon DEF QueueTypeOK, Sqs!Stop, Sqs!EndLoop
    <3> QED BY <2>3, <2>t, <3>1, LoopKeeps, Zenon DEF QueueTypeOK, Sqs!Stop
  <2>4. ASSUME NEW w \in Worker, Sqs!Receive(w) PROVE Accounted'
    BY <2>4, SqsReceiveKeeps, Zenon
  <2>5. ASSUME NEW j \in Job, Sqs!Redrive(j) PROVE Accounted'
    <3>1. QueueTypeOK'
      BY <2>5, <2>t, Zenon DEF QueueTypeOK, Sqs!Redrive
    <3> QED BY <2>5, <2>t, <3>1, StepKeeps, Zenon DEF QueueTypeOK, Sqs!Redrive
  <2>6. ASSUME NEW j \in Job, Sqs!VisibilityExpires(j) PROVE Accounted'
    BY <2>6, <2>t, LoopKeeps, Zenon DEF QueueTypeOK, Sqs!VisibilityExpires
  <2>7. ASSUME NEW w \in Worker, NEW t \in tasks[w], Sqs!TaskStep(w, t) PROVE Accounted'
    BY <2>7, SqsTaskKeeps, Zenon
  <2>8. CASE UNCHANGED Sqs!vars
    BY <2>8, <2>t, LoopKeeps, Zenon DEF QueueTypeOK, Sqs!vars, Sqs!shared
  <2> QED BY <2>1, <2>2, <2>3, <2>4, <2>5, <2>6, <2>7, <2>8, Zenon DEF Sqs!Next
<1> QED BY <1>1, <1>2, PTL DEF Sqs!Spec

\* SQS loses no job: expired visibility, lost answers, late receipts and the
\* queue's own redrive leave every removed message handled or dead-lettered
\* (settle_action of crates/rustee-jobs-sqs).
THEOREM SqsLosesNoJob == Sqs!Spec => []RemovedIsAccountedFor
<1>1. Accounted => RemovedIsAccountedFor
  BY Zenon DEF Accounted
<1> QED BY <1>1, SqsInductive, PTL

-----------------------------------------------------------------------------
(* RabbitMQ.                                                               *)

RabbitTypes ==
  /\ buffer \in [Worker -> SUBSET Delivery]
  /\ unacked \in [Worker -> SUBSET Delivery]
  /\ orphans \subseteq Job

\* The inductive form of OneChannel: closed channels hold messages, too.
Held == Rabbit!OneChannel /\ \A j \in orphans : queue[j] = "held"

RabbitInv == Accounted /\ RabbitTypes /\ Held

\* The RabbitMQ worker uses the shared task steps as they are.
LEMMA RabbitShared ==
  ASSUME NEW w, NEW t
  PROVE  /\ Rabbit!Handle(w, t) => Handle(w, t)
         /\ Rabbit!PublishDead(w, t) => PublishDead(w, t)
         /\ Rabbit!PublishDeadUnknown(w, t) => PublishDeadUnknown(w, t)
         /\ Rabbit!SettleError(w, t) => SettleError(w, t)
         /\ Rabbit!Settling(t) => Settling(t)
         /\ Rabbit!Applied(t) => Applied(t)
<1>1. Rabbit!AfterFailure(Policy, t.delivery[2]).kind = AfterFailure(Policy, t.delivery[2]).kind
  BY Zenon DEF Rabbit!AfterFailure, Rabbit!DeadLetter, Rabbit!IsValid, AfterFailure, DeadLetter, IsValid
<1>2. Rabbit!Handle(w, t) => Handle(w, t)
  BY <1>1, Zenon DEF Rabbit!Handle, Rabbit!HandleOk, Rabbit!HandleError, Rabbit!HandleMalformed, Rabbit!Replace,
              Handle, HandleOk, HandleError, HandleMalformed, Replace
<1>3. Rabbit!PublishDead(w, t) => PublishDead(w, t)
  BY Zenon DEF Rabbit!PublishDead, Rabbit!Replace, PublishDead, Replace
<1>4. Rabbit!PublishDeadUnknown(w, t) => PublishDeadUnknown(w, t)
  BY Zenon DEF Rabbit!PublishDeadUnknown, Rabbit!Finish, PublishDeadUnknown, Finish
<1>5. Rabbit!SettleError(w, t) => SettleError(w, t)
  BY Zenon DEF Rabbit!SettleError, Rabbit!Finish, SettleError, Finish
<1>6. Rabbit!Settling(t) => Settling(t)
  BY Zenon DEF Rabbit!Settling, Settling
<1>7. Rabbit!Applied(t) => Applied(t)
  BY Zenon DEF Rabbit!Applied, Applied
<1> QED BY <1>2, <1>3, <1>4, <1>5, <1>6, <1>7, Zenon

\* Messages that return are ready or, at the delivery limit, dead-lettered;
\* the others are not touched (external: quorum queue).
LEMMA ReturnedTypes ==
  ASSUME QueueTypeOK, NEW jobs \in SUBSET Job, Rabbit!Returned(jobs)
  PROVE  /\ queue' \in [Job -> {"ready", "held", "gone"}]
         /\ dead \subseteq dead' /\ dead' \subseteq Job
         /\ \A j \in Job : queue'[j] = "gone" => queue[j] = "gone" \/ j \in dead'
         /\ \A j \in Job \ jobs : queue'[j] = queue[j]
<1> DEFINE Out(j) == CASE j \notin jobs -> queue[j]
                       [] j \in jobs /\ Rabbit!Exhausted(j) -> "gone"
                       [] OTHER -> "ready"
<1>1. queue' = [j \in Job |-> Out(j)] /\ dead' = dead \cup {j \in jobs : Rabbit!Exhausted(j)}
  BY Zenon DEF Rabbit!Returned
<1>2. \A j \in Job : /\ Out(j) \in {"ready", "held", "gone"}
                     /\ Out(j) = "gone" => queue[j] = "gone" \/ j \in dead'
                     /\ j \notin jobs => Out(j) = queue[j]
  BY <1>1, Zenon DEF QueueTypeOK
<1> HIDE DEF Out
<1>3. dead \subseteq dead' /\ dead' \subseteq Job
  BY <1>1, Zenon DEF QueueTypeOK
<1> QED BY <1>1, <1>2, <1>3, Zenon

\* Taking back what a worker has not settled keeps the account, whatever
\* happens to its tasks.
LEMMA ReturnedKeeps ==
  ASSUME Accounted, NEW jobs \in SUBSET Job, Rabbit!Returned(jobs),
         UNCHANGED <<malformed, count, loop, succeeded>>,
         errors' \subseteq Worker,
         tasks' \in [Worker -> SUBSET Task],
         \A w \in Worker : tasks'[w] \subseteq tasks[w]
  PROVE  Accounted'
<1>1. /\ queue' \in [Job -> {"ready", "held", "gone"}]
      /\ dead \subseteq dead' /\ dead' \subseteq Job
      /\ \A j \in Job : queue'[j] = "gone" => queue[j] = "gone" \/ j \in dead'
  BY ReturnedTypes, Zenon DEF Accounted
<1>2. QueueTypeOK'
  BY <1>1, Zenon DEF Accounted, QueueTypeOK
<1> QED BY <1>1, <1>2, StepKeeps, Zenon

\* When a worker's channel is gone, its messages may come back or be held by
\* the closed channel: no other channel has them.
LEMMA ChannelGoneKeeps ==
  ASSUME QueueTypeOK, RabbitTypes, Held, NEW w \in Worker,
         unacked' = [unacked EXCEPT ![w] = {}],
         UNCHANGED count,
         \/ UNCHANGED orphans /\ Rabbit!Returned({d[1] : d \in unacked[w]})
         \/ UNCHANGED queue /\ orphans' = orphans \cup {d[1] : d \in unacked[w]}
  PROVE  orphans' \subseteq Job /\ Held'
<1> DEFINE mine == {d[1] : d \in unacked[w]}
<1>1. mine \subseteq Job
  BY DEF RabbitTypes, Delivery
<1>2. \A v \in Worker \ {w} : \A d \in unacked[v] : d[1] \in Job \ mine
  BY DEF RabbitTypes, Delivery, Held, Rabbit!OneChannel
<1>3. \A j \in orphans : j \in Job \ mine
  BY DEF RabbitTypes, Held, Rabbit!OneChannel
<1>4. \A j \in mine : queue[j] = "held"
  BY Zenon DEF Held, Rabbit!OneChannel
<1>5. \A v \in Worker : unacked'[v] = IF v = w THEN {} ELSE unacked[v]
  BY Zenon DEF RabbitTypes
<1>c. \/ UNCHANGED orphans /\ Rabbit!Returned(mine)
      \/ UNCHANGED queue /\ orphans' = orphans \cup mine
  BY Zenon
<1> HIDE DEF mine
<1>6. CASE UNCHANGED orphans /\ Rabbit!Returned(mine)
  <2>1. \A j \in Job \ mine : queue'[j] = queue[j]
    BY <1>1, <1>6, ReturnedTypes, Zenon
  <2> QED BY <1>2, <1>3, <1>5, <1>6, <2>1 DEF RabbitTypes, Held, Rabbit!OneChannel
<1>7. CASE UNCHANGED queue /\ orphans' = orphans \cup mine
  BY <1>1, <1>2, <1>4, <1>5, <1>7 DEF RabbitTypes, Held, Rabbit!OneChannel
<1> QED BY <1>6, <1>7, <1>c, Zenon

\* A settlement the broker reads: it names a delivery of the open channel.
LEMMA RabbitSettleKeeps ==
  ASSUME RabbitInv, NEW w \in Worker, NEW t \in tasks[w], Rabbit!Settle(w, t)
  PROVE  RabbitInv'
<1> DEFINE job == t.delivery[1]
<1>t. QueueTypeOK /\ RabbitTypes /\ Held /\ Accounted /\ job \in Job
  BY DEF RabbitInv, Accounted, QueueTypeOK, Task, Delivery
<1>1. /\ tasks' \in [Worker -> SUBSET Task] /\ \A v \in Worker : tasks'[v] \subseteq tasks[v]
      /\ UNCHANGED <<malformed, count, loop, errors, succeeded, buffer, orphans, lost>>
      /\ t.delivery \in unacked[w] /\ unacked' = [unacked EXCEPT ![w] = @ \ {t.delivery}]
      /\ Settling(t)
  BY <1>t, RabbitShared, Zenon DEF QueueTypeOK, Rabbit!Settle, Rabbit!Finish
<1>2. Rabbit!Returned({job}) \/ (Applied(t) /\ UNCHANGED dead)
  BY RabbitShared, Zenon DEF Rabbit!Settle
<1>3. Accounted' /\ \A j \in Job \ {job} : queue'[j] = queue[j]
  <2>1. CASE Rabbit!Returned({job})
    BY <1>t, <1>1, <2>1, ReturnedKeeps, ReturnedTypes, Zenon DEF QueueTypeOK
  <2>2. CASE Applied(t) /\ UNCHANGED dead
    <3>1. /\ queue' \in [Job -> {"ready", "held", "gone"}]
          /\ \A j \in Job : queue'[j] = "gone" => queue[j] = "gone" \/ j \in succeeded \cup dead
      BY <1>t, <1>1, <2>2, AppliedTypes, Zenon
    <3>2. \A j \in Job \ {job} : queue'[j] = queue[j]
      BY <1>t, <2>2, Zenon DEF Applied, QueueTypeOK
    <3> QED BY <1>t, <1>1, <2>2, <3>1, <3>2, LoopKeeps, Zenon DEF QueueTypeOK
  <2> QED BY <1>2, <2>1, <2>2, Zenon
<1>4. RabbitTypes'
  BY <1>t, <1>1, Zenon DEF RabbitTypes
<1>5. \A v \in Worker : unacked'[v] \subseteq unacked[v] /\ \A d \in unacked'[v] : d[1] \in Job \ {job}
  BY <1>t, <1>1 DEF RabbitTypes, Delivery, Held, Rabbit!OneChannel
<1>6. job \notin orphans
  BY <1>t, <1>1, Zenon DEF Held, Rabbit!OneChannel
<1> HIDE DEF job
<1>7. Held'
  BY <1>t, <1>1, <1>3, <1>5, <1>6 DEF RabbitTypes, Held, Rabbit!OneChannel
<1> QED BY <1>3, <1>4, <1>7, Zenon DEF RabbitInv

\* The steps of a task on its channel.
LEMMA RabbitTaskKeeps ==
  ASSUME RabbitInv, NEW w \in Worker, NEW t \in tasks[w], Rabbit!TaskStep(w, t)
  PROVE  RabbitInv'
<1>t. QueueTypeOK /\ RabbitTypes /\ Held /\ Accounted
  BY Zenon DEF RabbitInv, Accounted
<1>1. CASE Handle(w, t) /\ UNCHANGED Rabbit!channels
  <2>1. UNCHANGED <<queue, count>>
    BY <1>1, Zenon DEF Handle, HandleOk, HandleError, HandleMalformed
  <2> QED BY <1>1, <1>t, <2>1, HandleKeeps
          DEF RabbitInv, RabbitTypes, Held, Rabbit!OneChannel, Rabbit!channels
<1>2. CASE /\ PublishDead(w, t) \/ PublishDeadUnknown(w, t) \/ SettleError(w, t)
           /\ UNCHANGED Rabbit!channels
  <2>1. UNCHANGED <<queue, count>>
    BY <1>2, Zenon DEF PublishDead, PublishDeadUnknown, SettleError
  <2> QED BY <1>2, <1>t, <2>1, PublishKeeps
          DEF RabbitInv, RabbitTypes, Held, Rabbit!OneChannel, Rabbit!channels
<1>3. CASE Rabbit!Settle(w, t)
  BY <1>3, RabbitSettleKeeps, Zenon
<1>4. CASE Rabbit!SettleUnread(w, t)
  <2>1. /\ tasks' \in [Worker -> SUBSET Task] /\ \A v \in Worker : tasks'[v] \subseteq tasks[v]
        /\ UNCHANGED <<malformed, count, loop, errors, succeeded, buffer, orphans>>
        /\ unacked' = [unacked EXCEPT ![w] = {}]
        /\ Rabbit!Returned({d[1] : d \in unacked[w]})
    BY <1>4, <1>t, Zenon DEF QueueTypeOK, Rabbit!SettleUnread, Rabbit!Finish
  <2>2. {d[1] : d \in unacked[w]} \in SUBSET Job
    BY <1>t DEF RabbitTypes, Delivery
  <2>3. Accounted'
    BY <1>t, <2>1, <2>2, ReturnedKeeps, Zenon DEF QueueTypeOK
  <2>4. Held'
    BY <1>t, <2>1, ChannelGoneKeeps, Zenon
  <2> QED BY <1>t, <2>1, <2>3, <2>4, Zenon DEF RabbitInv, RabbitTypes
<1> QED BY <1>1, <1>2, <1>3, <1>4, RabbitShared, Zenon DEF Rabbit!TaskStep

\* A delivery puts a ready message on exactly one channel.
LEMMA RabbitDeliverKeeps ==
  ASSUME RabbitInv, NEW w \in Worker, NEW j \in Job, Rabbit!Deliver(w, j)
  PROVE  RabbitInv'
<1>t. QueueTypeOK /\ RabbitTypes /\ Held /\ Accounted
  BY Zenon DEF RabbitInv, Accounted
<1> DEFINE d == <<j, NextNumber(j)>>
<1>1. HandOut({j}) /\ queue[j] = "ready"
  BY Zenon DEF Rabbit!Deliver, Rabbit!HandOut, HandOut, Rabbit!NextNumber, NextNumber, Rabbit!Lesser, Lesser
<1>2. /\ buffer' = [buffer EXCEPT ![w] = @ \cup {d}]
      /\ unacked' = [unacked EXCEPT ![w] = @ \cup {d}]
      /\ UNCHANGED <<malformed, dead, loop, tasks, errors, succeeded, orphans, lost>>
  BY Zenon DEF Rabbit!Deliver, Rabbit!NextNumber, NextNumber, Rabbit!Lesser, Lesser
<1>3. d \in Delivery /\ d[1] = j /\ d[2] = NextNumber(j)
  BY <1>t, NumberInRange, Zenon DEF Delivery
<1>4. Accounted'
  BY <1>t, <1>1, <1>2, HandOutTypes, LoopKeeps, Zenon DEF QueueTypeOK
<1>5. /\ queue'[j] = "held" /\ count'[j] = NextNumber(j)
      /\ \A i \in Job \ {j} : queue'[i] = queue[i] /\ count'[i] = count[i]
  BY <1>1, Zenon DEF HandOut
<1>6. \A v \in Worker : \A c \in unacked[v] : c[1] \in Job \ {j}
  BY <1>t, <1>1 DEF RabbitTypes, Delivery, Held, Rabbit!OneChannel
<1>7. j \notin orphans
  BY <1>t, <1>1, Zenon DEF Held
<1> HIDE DEF d
<1>8. RabbitTypes'
  BY <1>t, <1>2, <1>3, Zenon DEF RabbitTypes
<1>9. \A v \in Worker : unacked'[v] = IF v = w THEN unacked[v] \cup {d} ELSE unacked[v]
  BY <1>t, <1>2, Zenon DEF RabbitTypes
<1>10. Held'
  BY <1>t, <1>2, <1>3, <1>5, <1>6, <1>7, <1>9 DEF RabbitTypes, Held, Rabbit!OneChannel
<1> QED BY <1>4, <1>8, <1>10, Zenon DEF RabbitInv

\* RabbitInv is inductive.
LEMMA RabbitInductive == Rabbit!Spec => []RabbitInv
<1>1. Rabbit!Init => RabbitInv
  BY InitAccounted, Zenon DEF Rabbit!Init, Rabbit!QueueInit, QueueInit, RabbitInv, RabbitTypes, Held, Rabbit!OneChannel
<1>2. RabbitInv /\ [Rabbit!Next]_(Rabbit!vars) => RabbitInv'
  <2> SUFFICES ASSUME RabbitInv, [Rabbit!Next]_(Rabbit!vars)
               PROVE  RabbitInv'
    BY Zenon
  <2>t. QueueTypeOK /\ RabbitTypes /\ Held /\ Accounted
    BY Zenon DEF RabbitInv, Accounted
  <2>m. \A w \in Worker : {d[1] : d \in unacked[w]} \in SUBSET Job
    BY <2>t DEF RabbitTypes, Delivery
  <2>1. ASSUME NEW w \in Worker, Rabbit!Start(w) PROVE RabbitInv'
    BY <2>1, <2>t, LoopKeeps
       DEF RabbitInv, RabbitTypes, Held, QueueTypeOK, Rabbit!Start, Rabbit!channels, Rabbit!OneChannel
  <2>2. ASSUME NEW w \in Worker, Rabbit!Drain(w) PROVE RabbitInv'
    BY <2>2, <2>t, LoopKeeps
       DEF RabbitInv, RabbitTypes, Held, QueueTypeOK, Rabbit!Drain, Rabbit!BeginDrain, Rabbit!channels, Rabbit!OneChannel
  <2>3. ASSUME NEW w \in Worker, Rabbit!Stop(w) PROVE RabbitInv'
    <3>1. /\ tasks' \in [Worker -> SUBSET Task] /\ \A v \in Worker : tasks'[v] \subseteq tasks[v]
          /\ loop' \in [Worker -> {"stopped", "select", "drain"}]
          /\ errors' \subseteq Worker
          /\ buffer' \in [Worker -> SUBSET Delivery] /\ unacked' \in [Worker -> SUBSET Delivery]
      BY <2>3, <2>t, Zenon DEF QueueTypeOK, RabbitTypes, Rabbit!Stop, Rabbit!EndLoop
    <3>2. /\ unacked' = [unacked EXCEPT ![w] = {}]
          /\ UNCHANGED <<malformed, queue, count, dead, succeeded>>
          /\ orphans' = orphans \cup {d[1] : d \in unacked[w]}
      BY <2>3, Zenon DEF Rabbit!Stop
    <3>3. Accounted'
      BY <2>t, <3>1, <3>2, LoopKeeps, Zenon DEF QueueTypeOK
    <3>4. orphans' \subseteq Job /\ Held'
      BY <2>t, <3>2, ChannelGoneKeeps, Zenon
    <3> QED BY <3>1, <3>3, <3>4, Zenon DEF RabbitInv, RabbitTypes
  <2>4. ASSUME NEW w \in Worker, Rabbit!ConnectionLost(w) PROVE RabbitInv'
    <3>1. /\ unacked' = [unacked EXCEPT ![w] = {}]
          /\ UNCHANGED <<malformed, count, loop, tasks, errors, succeeded, buffer, orphans>>
          /\ Rabbit!Returned({d[1] : d \in unacked[w]})
      BY <2>4, Zenon DEF Rabbit!ConnectionLost
    <3>2. Accounted'
      BY <2>t, <2>m, <3>1, ReturnedKeeps, Zenon DEF QueueTypeOK
    <3>3. Held'
      BY <2>t, <3>1, ChannelGoneKeeps, Zenon
    <3> QED BY <2>t, <3>1, <3>2, <3>3, Zenon DEF RabbitInv, RabbitTypes
  <2>5. ASSUME NEW j \in orphans, Rabbit!ChannelClosed(j) PROVE RabbitInv'
    <3>1. /\ UNCHANGED <<malformed, count, loop, tasks, errors, succeeded, buffer, unacked, lost>>
          /\ Rabbit!Returned({j}) /\ orphans' = orphans \ {j}
      BY <2>5, Zenon DEF Rabbit!ChannelClosed
    <3>2. {j} \in SUBSET Job
      BY <2>t, Zenon DEF RabbitTypes
    <3>3. Accounted'
      BY <2>t, <3>1, <3>2, ReturnedKeeps, Zenon DEF QueueTypeOK
    <3>4. \A i \in Job \ {j} : queue'[i] = queue[i]
      BY <2>t, <3>1, <3>2, ReturnedTypes, Zenon
    <3>5. \A w \in Worker : \A d \in unacked[w] : d[1] \in Job \ {j}
      BY <2>t DEF RabbitTypes, Delivery, Held, Rabbit!OneChannel
    <3>6. Held'
      BY <2>t, <3>1, <3>4, <3>5 DEF RabbitTypes, Held, Rabbit!OneChannel
    <3> QED BY <2>t, <3>1, <3>3, <3>6, Zenon DEF RabbitInv, RabbitTypes
  <2>6. ASSUME NEW w \in Worker, NEW j \in Job, Rabbit!Deliver(w, j) PROVE RabbitInv'
    BY <2>6, RabbitDeliverKeeps, Zenon
  <2>7. ASSUME NEW w \in Worker, NEW d \in buffer[w], Rabbit!Spawn(w, d) PROVE RabbitInv'
    <3>1. NewTask(d) \in Task /\ NewTask(d).step = "handle"
      BY <2>t, NewTaskType, Zenon DEF RabbitTypes
    <3>2. tasks' = [tasks EXCEPT ![w] = @ \cup {NewTask(d)}]
      BY <2>7, Zenon DEF Rabbit!Spawn, Rabbit!NewTask, NewTask
    <3>3. /\ tasks' \in [Worker -> SUBSET Task]
          /\ \A v \in Worker : \A t \in tasks'[v] : t \in tasks[v] \/ t.step = "handle"
      BY <2>t, <3>1, <3>2, Zenon DEF QueueTypeOK
    <3>4. /\ UNCHANGED <<malformed, queue, count, dead, loop, errors, succeeded, unacked, orphans, lost>>
          /\ buffer' = [buffer EXCEPT ![w] = @ \ {d}]
      BY <2>7, Zenon DEF Rabbit!Spawn
    <3>5. Accounted'
      BY <2>t, <3>3, <3>4, LoopKeeps, Zenon DEF QueueTypeOK
    <3> QED BY <2>t, <3>4, <3>5 DEF RabbitInv, RabbitTypes, Held, Rabbit!OneChannel
  <2>8. ASSUME NEW w \in Worker, NEW t \in tasks[w], Rabbit!TaskStep(w, t) PROVE RabbitInv'
    BY <2>8, RabbitTaskKeeps, Zenon
  <2>9. CASE UNCHANGED Rabbit!vars
    BY <2>9, <2>t, LoopKeeps
       DEF RabbitInv, RabbitTypes, Held, QueueTypeOK, Rabbit!vars, Rabbit!shared, Rabbit!channels, Rabbit!OneChannel
  <2> QED BY <2>1, <2>2, <2>3, <2>4, <2>5, <2>6, <2>7, <2>8, <2>9, Zenon DEF Rabbit!Next
<1> QED BY <1>1, <1>2, PTL DEF Rabbit!Spec

\* RabbitMQ loses no job, with lost connections, frames the broker never reads
\* and messages the queue dead-letters itself (settle_action of
\* crates/rustee-jobs-rabbitmq).
THEOREM RabbitLosesNoJob == Rabbit!Spec => []RemovedIsAccountedFor
<1>1. RabbitInv => RemovedIsAccountedFor
  BY Zenon DEF RabbitInv, Accounted
<1> QED BY <1>1, RabbitInductive, PTL

\* At any time one channel at most can settle a message, so a worker never
\* removes or retries what another one is handling (RabbitMqWorker::run_until).
THEOREM RabbitOneChannel == Rabbit!Spec => []Rabbit!OneChannel
<1>1. RabbitInv => Rabbit!OneChannel
  BY Zenon DEF RabbitInv, Held
<1> QED BY <1>1, RabbitInductive, PTL

-----------------------------------------------------------------------------
(* The delivery budget.                                                     *)

\* No task is ahead of the broker's count, and the step a failed delivery took
\* is the one its number allows.
TaskInBudget(t) ==
  /\ t.delivery[2] <= count[t.delivery[1]]
  /\ t.step = "retry" => t.delivery[2] < Policy.max
  /\ t.step \in {"dead_letter", "remove"} => t.delivery[1] \in malformed \/ t.delivery[2] >= Policy.max

Budget ==
  /\ \A w \in Worker : \A t \in tasks[w] : TaskInBudget(t)
  /\ DeadLetterIsExhausted

Buffered == \A w \in Worker : \A d \in buffer[w] : d[2] <= count[d[1]]

\* after_failure gives up at the last delivery and not before.
LEMMA FailureInBudget ==
  ASSUME NEW n \in 1..MaxCount
  PROVE  /\ AfterFailure(Policy, n).kind = "retry" => n < Policy.max
         /\ AfterFailure(Policy, n).kind = "dead_letter" => n >= Policy.max
BY QueueAssumption DEF QueueAssumption, AfterFailure, DeadLetter

\* The parts of a task.
LEMMA TaskParts ==
  ASSUME QueueTypeOK, NEW w \in Worker, NEW t \in tasks[w]
  PROVE  t \in Task /\ t.delivery[1] \in Job /\ t.delivery[2] \in 1..MaxCount
BY DEF QueueTypeOK, Task, Delivery

\* A handler run that ends keeps the budget (dispatch, after_failure).
LEMMA HandleInBudget ==
  ASSUME QueueTypeOK, Budget, NEW w \in Worker, NEW t \in tasks[w], Handle(w, t)
  PROVE  Budget'
<1>t. t \in Task /\ t.delivery[1] \in Job /\ t.delivery[2] \in 1..MaxCount
  BY TaskParts, Zenon
<1>1. PICK step : /\ step \in {"acknowledge", "retry", "dead_letter"}
                  /\ step = "retry" => t.delivery[2] < Policy.max
                  /\ step = "dead_letter" => t.delivery[1] \in malformed \/ t.delivery[2] >= Policy.max
                  /\ tasks' = [tasks EXCEPT ![w] = (@ \ {t}) \cup {[t EXCEPT !.step = step]}]
  <2>1. CASE HandleOk(w, t)
    BY <2>1, Zenon DEF HandleOk, Replace
  <2>2. CASE HandleError(w, t)
    BY <1>t, <2>2, FailureInBudget, FailureKinds, Zenon DEF HandleError, Replace
  <2>3. CASE HandleMalformed(w, t)
    BY <2>3, Zenon DEF HandleMalformed, Replace
  <2> QED BY <2>1, <2>2, <2>3, Zenon DEF Handle
<1>2. UNCHANGED <<malformed, count, dead>>
  BY Zenon DEF Handle, HandleOk, HandleError, HandleMalformed
<1>3. TaskInBudget([t EXCEPT !.step = step])
  BY <1>t, <1>1, Zenon DEF Budget, TaskInBudget, Task
<1>4. \A v \in Worker : \A u \in tasks'[v] : u \in tasks[v] \/ u = [t EXCEPT !.step = step]
  BY <1>1, Zenon DEF QueueTypeOK
<1>5. \A u : TaskInBudget(u) => TaskInBudget(u)'
  BY <1>2, Zenon DEF TaskInBudget
<1> QED BY <1>2, <1>3, <1>4, <1>5, Zenon DEF Budget, DeadLetterIsExhausted

\* A task dead-letters only what has used up its deliveries.
LEMMA PublishInBudget ==
  ASSUME QueueTypeOK, Budget, NEW w \in Worker, NEW t \in tasks[w],
         PublishDead(w, t) \/ PublishDeadUnknown(w, t) \/ SettleError(w, t)
  PROVE  Budget'
<1>t. t \in Task /\ t.delivery[1] \in Job /\ t.delivery[2] \in 1..MaxCount /\ TaskInBudget(t)
  BY TaskParts, Zenon DEF Budget
<1>c. count[t.delivery[1]] \in Nat /\ Policy.max \in Nat
  BY <1>t, QueueAssumption DEF QueueTypeOK, QueueAssumption
<1>1. UNCHANGED <<malformed, count>>
  BY Zenon DEF PublishDead, PublishDeadUnknown, SettleError
<1>2. dead' = dead \/ (dead' = dead \cup {t.delivery[1]} /\ t.step = "dead_letter")
  BY Zenon DEF PublishDead, PublishDeadUnknown, SettleError
<1>3. t.step = "dead_letter" => t.delivery[1] \in malformed \/ count[t.delivery[1]] >= Policy.max
  BY <1>t, <1>c DEF TaskInBudget
<1>4. DeadLetterIsExhausted'
  BY <1>1, <1>2, <1>3, Zenon DEF Budget, DeadLetterIsExhausted
<1>5. \A v \in Worker : \A u \in tasks'[v] :
        u \in tasks[v] \/ (t.step = "dead_letter" /\ u = [t EXCEPT !.step = "remove"])
  BY DEF QueueTypeOK, PublishDead, PublishDeadUnknown, SettleError, Replace, Finish
<1>6. t.step = "dead_letter" => TaskInBudget([t EXCEPT !.step = "remove"])
  BY <1>t, Zenon DEF TaskInBudget, Task
<1>7. \A u : TaskInBudget(u) => TaskInBudget(u)'
  BY <1>1, Zenon DEF TaskInBudget
<1> QED BY <1>4, <1>5, <1>6, <1>7, Zenon DEF Budget

\* Counts only grow, new tasks start at their handler, and the broker itself
\* dead-letters only what has used up its deliveries: the general step.
LEMMA StepInBudget ==
  ASSUME QueueTypeOK, QueueTypeOK', Budget, UNCHANGED malformed,
         \A j \in Job : count[j] <= count'[j],
         \A w \in Worker : \A t \in tasks'[w] :
           t \in tasks[w] \/ (t.step = "handle" /\ t.delivery[2] <= count'[t.delivery[1]]),
         \A j \in dead' \ dead : count'[j] >= Policy.max
  PROVE  Budget'
<1>n. Policy.max \in Nat /\ \A j \in Job : count[j] \in Nat /\ count'[j] \in Nat
  BY QueueAssumption DEF QueueTypeOK, QueueAssumption
<1>1. ASSUME NEW w \in Worker, NEW t \in tasks'[w] PROVE TaskInBudget(t)'
  <2>1. CASE t \in tasks[w]
    <3>1. t.delivery[1] \in Job /\ t.delivery[2] \in Nat /\ TaskInBudget(t)
      BY <2>1, TaskParts DEF Budget
    <3> QED BY <1>n, <3>1 DEF TaskInBudget
  <2>2. CASE t.step = "handle" /\ t.delivery[2] <= count'[t.delivery[1]]
    BY <2>2, Zenon DEF TaskInBudget
  <2> QED BY <1>1, <2>1, <2>2, Zenon
<1>2. DeadLetterIsExhausted'
  BY <1>n DEF Budget, DeadLetterIsExhausted, QueueTypeOK
<1> QED BY <1>1, <1>2, Zenon DEF Budget

\* Handing out a message counts upwards (external).
LEMMA HandOutCounts ==
  ASSUME QueueTypeOK, NEW jobs, HandOut(jobs)
  PROVE  /\ \A j \in Job : count[j] <= count'[j]
         /\ \A j \in Job \cap jobs : count'[j] = NextNumber(j)
<1>1. \A j \in Job : count[j] \in 0..MaxCount /\ MaxCount \in Nat
  BY QueueAssumption, Zenon DEF QueueTypeOK, QueueAssumption
<1>2. \A j \in Job : count[j] <= NextNumber(j) /\ count[j] <= count[j]
  BY <1>1 DEF NextNumber, Lesser
<1> QED BY <1>2, Zenon DEF HandOut

\* A task step of the JetStream worker keeps the budget.
LEMMA NatsTaskInBudget ==
  ASSUME QueueTypeOK, QueueTypeOK', Budget, Buffered, NEW w \in Worker, NEW t \in tasks[w], Nats!TaskStep(w, t)
  PROVE  Budget' /\ Buffered'
<1>1. CASE Handle(w, t) /\ UNCHANGED buffer
  BY <1>1, HandleInBudget, Zenon DEF Buffered, Handle, HandleOk, HandleError, HandleMalformed
<1>2. CASE (PublishDead(w, t) \/ PublishDeadUnknown(w, t) \/ SettleError(w, t)) /\ UNCHANGED buffer
  BY <1>2, PublishInBudget, Zenon DEF Buffered, PublishDead, PublishDeadUnknown, SettleError
<1>3. CASE Nats!Settle(w, t)
  <2>1. UNCHANGED <<malformed, count, dead, buffer>> /\ \A v \in Worker : tasks'[v] \subseteq tasks[v]
    BY <1>3, Zenon DEF QueueTypeOK, Nats!Settle, Nats!Finish
  <2>2. \A j \in Job : count[j] <= count'[j]
    BY <2>1 DEF QueueTypeOK
  <2> QED BY <2>1, <2>2, StepInBudget, Zenon DEF Buffered
<1> QED BY <1>1, <1>2, <1>3, NatsShared, Zenon DEF Nats!TaskStep

\* With JetStream a job that can be decoded is dead-lettered only after
\* max_deliveries deliveries, although deliveries overlap and answers get lost
\* (settle_action of crates/rustee-jobs-nats).
THEOREM NatsUsesItsDeliveries == Nats!Spec => []DeadLetterIsExhausted
<1>1. Nats!Init => Budget /\ Buffered
  BY Zenon DEF Nats!Init, Nats!QueueInit, Budget, Buffered, DeadLetterIsExhausted
<1>2. NatsAccounted /\ NatsAccounted' /\ Budget /\ Buffered /\ [Nats!Next]_(Nats!vars) => Budget' /\ Buffered'
  <2> SUFFICES ASSUME NatsAccounted, NatsAccounted', Budget, Buffered, [Nats!Next]_(Nats!vars)
               PROVE  Budget' /\ Buffered'
    BY Zenon
  <2>t. QueueTypeOK /\ QueueTypeOK' /\ buffer \in [Worker -> SUBSET Delivery]
    BY Zenon DEF NatsAccounted, Accounted
  <2>c. \A j \in Job : count[j] <= count[j]
    BY <2>t DEF QueueTypeOK
  <2>1. CASE \/ \E w \in Worker : Nats!Start(w) \/ Nats!Drain(w) \/ Nats!Stop(w)
             \/ \E j \in Job : Nats!AckWaitExpires(j)
             \/ UNCHANGED Nats!vars
    <3>1. UNCHANGED <<malformed, count, dead>> /\ \A v \in Worker : tasks'[v] \subseteq tasks[v] /\ buffer'[v] \subseteq buffer[v]
      BY <2>1, <2>t, ZenonT(30) DEF QueueTypeOK, Nats!Start, Nats!Drain, Nats!Stop, Nats!EndLoop, Nats!AckWaitExpires, Nats!vars, Nats!shared
    <3> QED BY <2>t, <2>c, <3>1, StepInBudget, Zenon DEF Buffered
  <2>2. ASSUME NEW w \in Worker, NEW j \in Job, Nats!Pull(w, j) PROVE Budget' /\ Buffered'
    <3>1. HandOut({j})
      BY <2>2, Zenon DEF Nats!Pull, Nats!HandOut, HandOut, Nats!NextNumber, NextNumber, Nats!Lesser, Lesser
    <3>2. UNCHANGED <<malformed, dead, tasks>> /\ buffer' = [buffer EXCEPT ![w] = @ \cup {<<j, NextNumber(j)>>}]
      BY <2>2, Zenon DEF Nats!Pull, Nats!NextNumber, NextNumber, Nats!Lesser, Lesser
    <3>3. (\A i \in Job : count[i] <= count'[i]) /\ count'[j] = NextNumber(j)
      BY <2>t, <3>1, HandOutCounts, Zenon
    <3>4. Budget'
      BY <2>t, <3>2, <3>3, StepInBudget, Zenon
    <3>5. \A i \in Job : count[i] \in Int /\ count'[i] \in Int
      BY <2>t DEF QueueTypeOK
    <3>6. ASSUME NEW v \in Worker, NEW d \in buffer'[v] PROVE d[2] <= count'[d[1]]
      <4>1. CASE d \in buffer[v]
        <5>1. d[1] \in Job /\ d[2] \in Int /\ d[2] <= count[d[1]]
          BY <2>t, <4>1 DEF Buffered, Delivery
        <5> QED BY <3>3, <3>5, <5>1
      <4>2. CASE d = <<j, NextNumber(j)>>
        BY <3>3, <3>5, <4>2
      <4> QED BY <2>t, <3>2, <3>6, <4>1, <4>2, Zenon
    <3> QED BY <3>4, <3>6, Zenon DEF Buffered
  <2>3. ASSUME NEW w \in Worker, NEW d \in buffer[w], Nats!Spawn(w, d) PROVE Budget' /\ Buffered'
    <3>1. /\ UNCHANGED <<malformed, count, dead>> /\ d[2] <= count[d[1]]
          /\ tasks' = [tasks EXCEPT ![w] = @ \cup {[delivery |-> d, step |-> "handle"]}]
          /\ \A v \in Worker : buffer'[v] \subseteq buffer[v]
      BY <2>3, <2>t, Zenon DEF Nats!Spawn, Nats!NewTask, Buffered
    <3>2. \A v \in Worker : \A t \in tasks'[v] : t \in tasks[v] \/ t = [delivery |-> d, step |-> "handle"]
      BY <2>t, <3>1, Zenon DEF QueueTypeOK
    <3> QED BY <2>t, <2>c, <3>1, <3>2, StepInBudget DEF Buffered
  <2>4. ASSUME NEW w \in Worker, NEW t \in tasks[w], Nats!TaskStep(w, t) PROVE Budget' /\ Buffered'
    BY <2>t, <2>4, NatsTaskInBudget, Zenon
  <2> QED BY <2>1, <2>2, <2>3, <2>4, Zenon DEF Nats!Next
<1>3. Budget => DeadLetterIsExhausted
  BY Zenon DEF Budget
<1> QED BY <1>1, <1>2, <1>3, NatsInductive, PTL DEF Nats!Spec

\* A worker that passed validate_retry_policy runs under a redrive count of at
\* least max_deliveries, and nothing is received without one.
SqsRedriveFits ==
  /\ \A w \in Worker : loop[w] # "stopped" => Policy.max <= BrokerLimit
  /\ \A j \in Job : count[j] # 0 => Policy.max <= BrokerLimit

\* A receive keeps the budget, whether or not its answer arrives.
LEMMA SqsReceiveInBudget ==
  ASSUME QueueTypeOK, QueueTypeOK', Budget, NEW w \in Worker, Sqs!Receive(w)
  PROVE  Budget'
<1>p. PICK jobs \in SUBSET {j \in Job : queue[j] = "ready" /\ count[j] < BrokerLimit} :
        /\ Sqs!HandOut(jobs)
        /\ \/ tasks' = [tasks EXCEPT ![w] = @ \cup {Sqs!NewTask(<<j, Sqs!NextNumber(j)>>) : j \in jobs}]
           \/ UNCHANGED tasks
  BY Zenon DEF Sqs!Receive
<1>1. \A j : Sqs!NextNumber(j) = NextNumber(j)
  BY Zenon DEF Sqs!NextNumber, NextNumber, Sqs!Lesser, Lesser
<1>2. HandOut(jobs)
  BY <1>p, <1>1, Zenon DEF Sqs!HandOut, HandOut
<1>3. (\A j \in Job : count[j] <= count'[j]) /\ \A j \in jobs : count'[j] = NextNumber(j) /\ NextNumber(j) \in Int
  BY <1>2, HandOutCounts, NumberInRange
<1> DEFINE started == {Sqs!NewTask(<<j, Sqs!NextNumber(j)>>) : j \in jobs}
<1>4. ASSUME NEW t \in started PROVE t.step = "handle" /\ t.delivery[2] <= count'[t.delivery[1]]
  <2>1. PICK j \in jobs : t = Sqs!NewTask(<<j, Sqs!NextNumber(j)>>)
    BY <1>4, Zenon
  <2>2. t.step = "handle" /\ t.delivery = <<j, NextNumber(j)>>
    BY <1>1, <2>1, Zenon DEF Sqs!NewTask
  <2> QED BY <1>3, <2>2
<1>5. tasks' = [tasks EXCEPT ![w] = @ \cup started] \/ UNCHANGED tasks
  BY <1>p, Zenon
<1> HIDE DEF started
<1>6. \A v \in Worker : \A t \in tasks'[v] : t \in tasks[v] \/ t \in started
  BY <1>5, Zenon DEF QueueTypeOK
<1>7. UNCHANGED <<malformed, dead>>
  BY Zenon DEF Sqs!Receive
<1> QED BY <1>3, <1>4, <1>6, <1>7, StepInBudget, Zenon

\* The other steps of the SQS worker and of its queue.
LEMMA SqsStepInBudget ==
  ASSUME BrokerLimit # 0, QueueTypeOK, QueueTypeOK', Budget, SqsRedriveFits, [Sqs!Next]_(Sqs!vars)
  PROVE  Budget'
<1>c. Policy.max \in Nat /\ BrokerLimit \in Nat /\ \A j \in Job : count[j] \in Nat /\ count[j] <= count[j]
  BY QueueAssumption DEF QueueTypeOK, QueueAssumption
<1>1. CASE \/ \E w \in Worker : Sqs!Start(w) \/ Sqs!Drain(w) \/ Sqs!Stop(w)
           \/ \E j \in Job : Sqs!VisibilityExpires(j)
           \/ \E w \in Worker : \E t \in tasks[w] : Sqs!RenewVisibility(w, t) \/ Sqs!Settle(w, t)
           \/ UNCHANGED Sqs!vars
  <2>1. UNCHANGED <<malformed, count, dead>> /\ \A v \in Worker : tasks'[v] \subseteq tasks[v]
    BY <1>1, ZenonT(30) DEF QueueTypeOK, Sqs!Start, Sqs!Drain, Sqs!Stop, Sqs!EndLoop, Sqs!VisibilityExpires,
                Sqs!RenewVisibility, Sqs!Settle, Sqs!Finish, Sqs!vars, Sqs!shared
  <2> QED BY <1>c, <2>1, StepInBudget, Zenon
<1>2. ASSUME NEW j \in Job, Sqs!Redrive(j) PROVE Budget'
  <2>1. UNCHANGED <<malformed, count, tasks>> /\ dead' = dead \cup {j} /\ count[j] >= BrokerLimit
    BY <1>2, Zenon DEF Sqs!Redrive
  <2>2. count[j] >= Policy.max
    BY <1>c, <2>1 DEF SqsRedriveFits
  <2> QED BY <1>c, <2>1, <2>2, StepInBudget, Zenon
<1>3. ASSUME NEW w \in Worker, NEW t \in tasks[w],
             Handle(w, t) \/ PublishDead(w, t) \/ PublishDeadUnknown(w, t) \/ SettleError(w, t)
      PROVE  Budget'
  BY <1>3, HandleInBudget, PublishInBudget, Zenon
<1> QED BY <1>1, <1>2, <1>3, SqsReceiveInBudget, SqsShared, Zenon DEF Sqs!Next, Sqs!TaskStep

\* The redrive count fits as soon as a worker runs.
LEMMA SqsKeepsFit ==
  ASSUME QueueTypeOK, SqsRedriveFits, [Sqs!Next]_(Sqs!vars)
  PROVE  SqsRedriveFits'
<1>1. ASSUME NEW w \in Worker, Sqs!Start(w) PROVE SqsRedriveFits'
  BY <1>1, Zenon DEF SqsRedriveFits, QueueTypeOK, Sqs!Start
<1>2. ASSUME NEW w \in Worker, Sqs!Receive(w) PROVE SqsRedriveFits'
  <2>1. Policy.max <= BrokerLimit
    BY <1>2, Zenon DEF SqsRedriveFits, Sqs!Receive
  <2> QED BY <2>1, Zenon DEF SqsRedriveFits
<1>3. CASE \/ \E w \in Worker : Sqs!Drain(w) \/ Sqs!Stop(w)
           \/ \E j \in Job : Sqs!Redrive(j) \/ Sqs!VisibilityExpires(j)
           \/ \E w \in Worker : \E t \in tasks[w] : Sqs!TaskStep(w, t)
           \/ UNCHANGED Sqs!vars
  <2>1. UNCHANGED count
    BY <1>3, SqsShared, Zenon DEF Sqs!Drain, Sqs!Stop, Sqs!Redrive, Sqs!VisibilityExpires, Sqs!TaskStep, Sqs!RenewVisibility,
              Sqs!Settle, Sqs!vars, Sqs!shared, Handle, HandleOk, HandleError, HandleMalformed,
              PublishDead, PublishDeadUnknown, SettleError
  <2>2. \A w \in Worker : loop'[w] # "stopped" => loop[w] # "stopped"
    BY <1>3, SqsShared, Zenon DEF QueueTypeOK, Sqs!Drain, Sqs!BeginDrain, Sqs!Stop, Sqs!EndLoop, Sqs!Redrive, Sqs!VisibilityExpires,
              Sqs!TaskStep, Sqs!RenewVisibility, Sqs!Settle, Sqs!vars, Sqs!shared,
              Handle, HandleOk, HandleError, HandleMalformed, PublishDead, PublishDeadUnknown, SettleError
  <2> QED BY <2>1, <2>2, Zenon DEF SqsRedriveFits
<1> QED BY <1>1, <1>2, <1>3, Zenon DEF Sqs!Next

\* With SQS, whose redrive count is at least one, a job that can be decoded
\* reaches the dead-letter queue only after max_deliveries receives, whether a
\* worker or the queue's redrive moves it (validate_retry_policy and
\* settle_action of crates/rustee-jobs-sqs).
THEOREM SqsUsesItsDeliveries ==
  ASSUME BrokerLimit # 0
  PROVE  Sqs!Spec => []DeadLetterIsExhausted
<1>1. Sqs!Init => Budget /\ SqsRedriveFits
  BY Zenon DEF Sqs!Init, Sqs!QueueInit, Budget, SqsRedriveFits, DeadLetterIsExhausted
<1>2. Accounted /\ Accounted' /\ Budget /\ SqsRedriveFits /\ [Sqs!Next]_(Sqs!vars) => Budget' /\ SqsRedriveFits'
  BY SqsStepInBudget, SqsKeepsFit, Zenon DEF Accounted
<1>3. Budget => DeadLetterIsExhausted
  BY Zenon DEF Budget
<1> QED BY <1>1, <1>2, <1>3, SqsInductive, PTL DEF Sqs!Spec

-----------------------------------------------------------------------------
(* RabbitMQ: the budget, and the delays.                                    *)

\* A worker has tasks only while it runs, and runs only with policies that agree.
RabbitStarted ==
  \A w \in Worker : /\ tasks[w] # {} => loop[w] # "stopped"
                    /\ loop[w] # "stopped" => Rabbit!Matches

\* A queue dead-letters what comes back at its delivery limit and nothing else.
LEMMA ReturnedDead ==
  ASSUME BrokerLimit # 0 => BrokerLimit >= Policy.max, QueueTypeOK, NEW jobs \in SUBSET Job, Rabbit!Returned(jobs)
  PROVE  \A j \in dead' \ dead : count[j] >= Policy.max
<1>1. Policy.max \in Nat /\ BrokerLimit \in Nat /\ \A j \in Job : count[j] \in Nat
  BY QueueAssumption DEF QueueTypeOK, QueueAssumption
<1>2. dead' = dead \cup {j \in jobs : Rabbit!Exhausted(j)}
  BY Zenon DEF Rabbit!Returned
<1>3. \A j \in dead' \ dead : j \in Job /\ Rabbit!Exhausted(j)
  BY <1>2, Zenon
<1> QED BY <1>1, <1>3 DEF Rabbit!Exhausted

\* The steps of a task on its channel keep the budget.
LEMMA RabbitTaskInBudget ==
  ASSUME BrokerLimit # 0 => BrokerLimit >= Policy.max,
         QueueTypeOK, QueueTypeOK', RabbitTypes, Budget, Buffered,
         NEW w \in Worker, NEW t \in tasks[w], Rabbit!TaskStep(w, t)
  PROVE  Budget' /\ Buffered'
<1>c. t.delivery[1] \in Job /\ {t.delivery[1]} \in SUBSET Job /\ \A j \in Job : count[j] <= count[j]
  BY TaskParts DEF QueueTypeOK
<1>1. CASE Handle(w, t) /\ UNCHANGED Rabbit!channels
  BY <1>1, HandleInBudget, Zenon DEF Buffered, Handle, HandleOk, HandleError, HandleMalformed, Rabbit!channels
<1>2. CASE (PublishDead(w, t) \/ PublishDeadUnknown(w, t) \/ SettleError(w, t)) /\ UNCHANGED Rabbit!channels
  BY <1>2, PublishInBudget, Zenon DEF Buffered, PublishDead, PublishDeadUnknown, SettleError, Rabbit!channels
<1>3. CASE Rabbit!Settle(w, t)
  <2>1. UNCHANGED <<malformed, count, buffer>> /\ \A v \in Worker : tasks'[v] \subseteq tasks[v]
    BY <1>3, Zenon DEF QueueTypeOK, Rabbit!Settle, Rabbit!Finish
  <2>2. Rabbit!Returned({t.delivery[1]}) \/ UNCHANGED dead
    BY <1>3, Zenon DEF Rabbit!Settle
  <2>3. \A j \in dead' \ dead : count'[j] >= Policy.max
    BY <1>c, <2>1, <2>2, ReturnedDead, Zenon
  <2> QED BY <1>c, <2>1, <2>3, StepInBudget, Zenon DEF Buffered
<1>4. CASE Rabbit!SettleUnread(w, t)
  <2>1. UNCHANGED <<malformed, count, buffer>> /\ \A v \in Worker : tasks'[v] \subseteq tasks[v]
    BY <1>4, Zenon DEF QueueTypeOK, Rabbit!SettleUnread, Rabbit!Finish
  <2>2. {d[1] : d \in unacked[w]} \in SUBSET Job /\ Rabbit!Returned({d[1] : d \in unacked[w]})
    BY <1>4 DEF RabbitTypes, Delivery, Rabbit!SettleUnread
  <2>3. \A j \in dead' \ dead : count'[j] >= Policy.max
    BY <2>1, <2>2, ReturnedDead, Zenon
  <2> QED BY <1>c, <2>1, <2>3, StepInBudget, Zenon DEF Buffered
<1> QED BY <1>1, <1>2, <1>3, <1>4, RabbitShared, Zenon DEF Rabbit!TaskStep

\* Every step of a RabbitMQ worker and of its queue keeps the budget.
LEMMA RabbitStepInBudget ==
  ASSUME BrokerLimit # 0 => BrokerLimit >= Policy.max,
         QueueTypeOK, QueueTypeOK', RabbitTypes, Budget, Buffered, [Rabbit!Next]_(Rabbit!vars)
  PROVE  Budget' /\ Buffered'
<1>c. \A j \in Job : count[j] \in Int /\ count'[j] \in Int /\ count[j] <= count[j]
  BY DEF QueueTypeOK
<1>1. CASE (\E w \in Worker : Rabbit!Start(w) \/ Rabbit!Drain(w) \/ Rabbit!Stop(w)) \/ UNCHANGED Rabbit!vars
  <2>1. UNCHANGED <<malformed, count, dead>> /\ \A v \in Worker : tasks'[v] \subseteq tasks[v] /\ buffer'[v] \subseteq buffer[v]
    BY <1>1 DEF QueueTypeOK, RabbitTypes, Rabbit!Start, Rabbit!Drain, Rabbit!Stop, Rabbit!EndLoop,
                Rabbit!vars, Rabbit!shared, Rabbit!channels
  <2> QED BY <1>c, <2>1, StepInBudget, Zenon DEF Buffered
<1>2. ASSUME NEW w \in Worker, Rabbit!ConnectionLost(w) PROVE Budget' /\ Buffered'
  <2>1. UNCHANGED <<malformed, count, tasks, buffer>>
    BY <1>2, Zenon DEF Rabbit!ConnectionLost
  <2>2. {d[1] : d \in unacked[w]} \in SUBSET Job /\ Rabbit!Returned({d[1] : d \in unacked[w]})
    BY <1>2 DEF RabbitTypes, Delivery, Rabbit!ConnectionLost
  <2>3. \A j \in dead' \ dead : count'[j] >= Policy.max
    BY <2>1, <2>2, ReturnedDead, Zenon
  <2> QED BY <1>c, <2>1, <2>3, StepInBudget, Zenon DEF Buffered
<1>3. ASSUME NEW j \in orphans, Rabbit!ChannelClosed(j) PROVE Budget' /\ Buffered'
  <2>1. UNCHANGED <<malformed, count, tasks, buffer>>
    BY <1>3, Zenon DEF Rabbit!ChannelClosed
  <2>2. {j} \in SUBSET Job /\ Rabbit!Returned({j})
    BY <1>3, Zenon DEF RabbitTypes, Rabbit!ChannelClosed
  <2>3. \A i \in dead' \ dead : count'[i] >= Policy.max
    BY <2>1, <2>2, ReturnedDead, Zenon
  <2> QED BY <1>c, <2>1, <2>3, StepInBudget, Zenon DEF Buffered
<1>4. ASSUME NEW w \in Worker, NEW j \in Job, Rabbit!Deliver(w, j) PROVE Budget' /\ Buffered'
  <2>1. HandOut({j})
    BY <1>4, Zenon DEF Rabbit!Deliver, Rabbit!HandOut, HandOut, Rabbit!NextNumber, NextNumber, Rabbit!Lesser, Lesser
  <2>2. UNCHANGED <<malformed, dead, tasks>> /\ buffer' = [buffer EXCEPT ![w] = @ \cup {<<j, NextNumber(j)>>}]
    BY <1>4, Zenon DEF Rabbit!Deliver, Rabbit!NextNumber, NextNumber, Rabbit!Lesser, Lesser
  <2>3. (\A i \in Job : count[i] <= count'[i]) /\ count'[j] = NextNumber(j)
    BY <2>1, HandOutCounts, Zenon
  <2>4. Budget'
    BY <2>2, <2>3, StepInBudget, Zenon
  <2>5. ASSUME NEW v \in Worker, NEW d \in buffer'[v] PROVE d[2] <= count'[d[1]]
    <3>1. CASE d \in buffer[v]
      <4>1. d[1] \in Job /\ d[2] \in Int /\ d[2] <= count[d[1]]
        BY <3>1 DEF Buffered, Delivery, RabbitTypes
      <4> QED BY <1>c, <2>3, <4>1
    <3>2. CASE d = <<j, NextNumber(j)>>
      BY <1>c, <2>3, <3>2
    <3> QED BY <2>2, <2>5, <3>1, <3>2, Zenon DEF RabbitTypes
  <2> QED BY <2>4, <2>5, Zenon DEF Buffered
<1>5. ASSUME NEW w \in Worker, NEW d \in buffer[w], Rabbit!Spawn(w, d) PROVE Budget' /\ Buffered'
  <2>1. /\ UNCHANGED <<malformed, count, dead>> /\ d[2] <= count[d[1]]
        /\ tasks' = [tasks EXCEPT ![w] = @ \cup {[delivery |-> d, step |-> "handle"]}]
        /\ \A v \in Worker : buffer'[v] \subseteq buffer[v]
    BY <1>5, Zenon DEF Rabbit!Spawn, Rabbit!NewTask, Buffered, RabbitTypes
  <2>2. \A v \in Worker : \A t \in tasks'[v] : t \in tasks[v] \/ t = [delivery |-> d, step |-> "handle"]
    BY <2>1, Zenon DEF QueueTypeOK
  <2> QED BY <1>c, <2>1, <2>2, StepInBudget DEF Buffered
<1> QED BY <1>1, <1>2, <1>3, <1>4, <1>5, RabbitTaskInBudget, Zenon DEF Rabbit!Next

\* With RabbitMQ, a job that can be decoded is dead-lettered only after
\* max_deliveries deliveries, by a worker or by the queue itself, provided the
\* queue's own delivery limit is not below them (settle_action of
\* crates/rustee-jobs-rabbitmq).
THEOREM RabbitUsesItsDeliveries ==
  ASSUME BrokerLimit # 0 => BrokerLimit >= Policy.max
  PROVE  Rabbit!Spec => []DeadLetterIsExhausted
<1>1. Rabbit!Init => Budget /\ Buffered
  BY Zenon DEF Rabbit!Init, Rabbit!QueueInit, Budget, Buffered, DeadLetterIsExhausted
<1>2. RabbitInv /\ RabbitInv' /\ Budget /\ Buffered /\ [Rabbit!Next]_(Rabbit!vars) => Budget' /\ Buffered'
  BY RabbitStepInBudget, Zenon DEF RabbitInv, Accounted
<1>3. Budget => DeadLetterIsExhausted
  BY Zenon DEF Budget
<1> QED BY <1>1, <1>2, <1>3, RabbitInductive, PTL DEF Rabbit!Spec

-----------------------------------------------------------------------------
(* The delays of the retry policy.                                          *)

\* A non-empty set of naturals has a least element.
LEMMA LeastNatural ==
  ASSUME NEW S \in SUBSET Nat, S # {}
  PROVE  \E x \in S : \A y \in S : x <= y
<1> DEFINE R == {ss \in Nat \X Nat : ss[1] < ss[2]}
<1>1. IsWellFoundedOn(R, Nat)
  BY NatLessThanWellFounded, Zenon DEF OpToRel
<1>2. PICK x \in S : \A y \in S : <<y, x>> \notin R
  <2> HIDE DEF R
  <2> QED BY <1>1, WFMin, Zenon
<1>3. ASSUME NEW y \in S PROVE x <= y
  <2>1. y < x => <<y, x>> \in R
    BY Zenon
  <2> QED BY <1>2, <2>1
<1> QED BY <1>3, Zenon

\* The first n powers, as saturating_pow computes them.
Powers(f, n) ==
  /\ f \in [0..n -> Nat]
  /\ f[0] = 1
  /\ \A i \in 1..n : f[i] = Lesser(2 * f[i - 1], MaxU32)

\* There is only one such list.
LEMMA PowersUnique ==
  ASSUME NEW m \in Nat, NEW n \in Nat, m <= n, NEW f, NEW g, Powers(f, m), Powers(g, n)
  PROVE  \A i \in 0..m : f[i] = g[i]
<1> DEFINE S == {i \in 0..m : f[i] # g[i]}
<1>1. ASSUME S # {} PROVE FALSE
  <2>1. S \in SUBSET Nat
    OBVIOUS
  <2> HIDE DEF S
  <2>2. PICK x \in S : \A y \in S : x <= y
    BY <1>1, <2>1, LeastNatural, Zenon
  <2> USE DEF S
  <2>3. x \in 0..m /\ f[x] # g[x]
    BY Zenon
  <2>4. x # 0
    BY <2>3, Zenon DEF Powers
  <2>5. f[x - 1] = g[x - 1]
    BY <2>2, <2>3, <2>4
  <2> QED BY <2>3, <2>4, <2>5 DEF Powers
<1> QED BY <1>1, Zenon

\* And there is one, for every n.
LEMMA PowersExist == \A n \in Nat : \E f : Powers(f, n)
<1> DEFINE S == {n \in Nat : ~\E f : Powers(f, n)}
<1>1. ASSUME S # {} PROVE FALSE
  <2>1. S \in SUBSET Nat
    BY Zenon
  <2> HIDE DEF S
  <2>2. PICK x \in S : \A y \in S : x <= y
    BY <1>1, <2>1, LeastNatural, Zenon
  <2> USE DEF S
  <2>3. x \in Nat /\ ~\E f : Powers(f, x)
    BY Zenon
  <2>4. Powers([i \in 0..0 |-> 1], 0)
    BY DEF Powers
  <2>5. x # 0
    BY <2>3, <2>4, Zenon
  <2>6. PICK f : Powers(f, x - 1)
    BY <2>2, <2>3, <2>5
  <2>7. Powers([i \in 0..x |-> IF i = x THEN Lesser(2 * f[x - 1], MaxU32) ELSE f[i]], x)
    BY <2>3, <2>5, <2>6, RetryAssumption DEF Powers, Lesser
  <2> QED BY <2>3, <2>7, Zenon
<1> QED BY <1>1, Zenon

\* The recursive definition of SaturatingPower has a solution, so it unfolds.
LEMMA PowerUnfolds ==
  SaturatingPower = [n \in Nat |-> IF n = 0 THEN 1 ELSE Lesser(2 * SaturatingPower[n - 1], MaxU32)]
<1> DEFINE F(n) == CHOOSE f : Powers(f, n)
           G == [n \in Nat |-> F(n)[n]]
<1>1. \A n \in Nat : Powers(F(n), n)
  BY PowersExist, Zenon
<1> HIDE DEF F
<1>2. ASSUME NEW n \in Nat PROVE G[n] = IF n = 0 THEN 1 ELSE Lesser(2 * G[n - 1], MaxU32)
  <2>1. CASE n = 0
    BY <1>1, <2>1, Zenon DEF Powers
  <2>2. CASE n # 0
    <3>1. F(n)[n] = Lesser(2 * F(n)[n - 1], MaxU32)
      BY <1>1, <2>2 DEF Powers
    <3>2. n - 1 \in Nat /\ n - 1 <= n /\ n - 1 \in 0..(n - 1)
      BY <2>2
    <3>3. F(n - 1)[n - 1] = F(n)[n - 1]
      BY <1>1, <3>2, PowersUnique
    <3> QED BY <2>2, <3>1, <3>2, <3>3, Zenon
  <2> QED BY <2>1, <2>2, Zenon
<1>3. G = [n \in Nat |-> IF n = 0 THEN 1 ELSE Lesser(2 * G[n - 1], MaxU32)]
  BY <1>2, Zenon
<1> HIDE DEF G
<1> QED BY <1>3, Zenon DEF SaturatingPower

\* The multiplier is 1, 2, and from the third attempt at least 4.
LEMMA PowerValues ==
  ASSUME NEW n \in Nat
  PROVE  /\ SaturatingPower[n] \in Nat
         /\ n = 0 => SaturatingPower[n] = 1
         /\ n = 1 => SaturatingPower[n] = 2
         /\ n >= 2 => SaturatingPower[n] >= 4
<1> DEFINE P(i) == /\ SaturatingPower[i] \in Nat
                   /\ i = 0 => SaturatingPower[i] = 1
                   /\ i = 1 => SaturatingPower[i] = 2
                   /\ i >= 2 => SaturatingPower[i] >= 4
           S == {i \in Nat : ~P(i)}
<1>u. \A i \in Nat : SaturatingPower[i] = IF i = 0 THEN 1 ELSE Lesser(2 * SaturatingPower[i - 1], MaxU32)
  BY PowerUnfolds, Zenon
<1>1. ASSUME S # {} PROVE FALSE
  <2>1. S \in SUBSET Nat
    BY Zenon
  <2> HIDE DEF S
  <2>2. PICK x \in S : \A y \in S : x <= y
    BY <1>1, <2>1, LeastNatural, Zenon
  <2>3. x \in Nat /\ ~P(x)
    BY Zenon DEF S
  <2>4. \A y \in Nat : y < x => P(y)
    BY <2>2 DEF S
  <2>5. x # 0
    BY <1>u, <2>3
  <2>6. P(x - 1) /\ SaturatingPower[x] = Lesser(2 * SaturatingPower[x - 1], MaxU32)
    BY <1>u, <2>3, <2>4, <2>5
  <2>7. P(x)
    BY <2>3, <2>5, <2>6, RetryAssumption DEF Lesser
  <2> QED BY <2>3, <2>7, Zenon
<1> QED BY <1>1, Zenon

\* The linear delays of a queue whose maximum is at most three times its minimum
\* are the capped exponential delays of the policy, at every delivery
\* (RabbitMqNativeRetryConfig::matches, delay_for).
LEMMA DelaysAgree ==
  ASSUME Rabbit!Matches, NEW n \in Nat, 1 <= n, n < Policy.max
  PROVE  Rabbit!DelayFor(n + 1) = AfterFailure(Policy, n).delay
<1> DEFINE low == Policy.initial
           high == Policy.cap
           power == SaturatingPower[n - 1]
<1>1. /\ low \in Nat /\ high \in Nat /\ low # 0 /\ low <= high /\ high <= 3 * low
      /\ Native.minimum = low /\ Native.maximum = high /\ high <= MaxDuration /\ MaxDuration \in Nat
  BY QueueAssumption, RetryAssumption, Zenon DEF QueueAssumption, IsValid, Rabbit!Matches, Rabbit!IsValid
<1>2. AfterFailure(Policy, n).delay = Lesser(Lesser(low * power, MaxDuration), high)
  BY QueueAssumption DEF QueueAssumption, AfterFailure, Delay
<1>3. Rabbit!DelayFor(n + 1) = Lesser(low * n, high)
  BY <1>1 DEF Rabbit!DelayFor, Rabbit!Lesser, Lesser
<1>4. power \in Nat /\ (n = 1 => power = 1) /\ (n = 2 => power = 2) /\ (n >= 3 => power >= 4)
  BY PowerValues
<1> HIDE DEF low, high, power
<1>5. CASE n < 3
  BY <1>1, <1>2, <1>3, <1>4, <1>5 DEF Lesser
<1>6. CASE n >= 3
  <2>1. low * n \in Nat /\ low * power \in Nat /\ low * n >= 3 * low /\ low * power >= 4 * low
    <3>1. \A a, b, c \in Nat : b >= c => a * b \in Nat /\ a * b >= c * a
      BY SMTT(30)
    <3> QED BY <1>1, <1>4, <1>6, <3>1, Zenon
  <2>2. Lesser(low * n, high) = high
    BY <1>1, <2>1 DEF Lesser
  <2>3. Lesser(Lesser(low * power, MaxDuration), high) = high
    BY <1>1, <2>1 DEF Lesser
  <2> QED BY <1>2, <1>3, <2>2, <2>3, Zenon
<1> QED BY <1>5, <1>6

\* What a running worker knows when it retries.
RetryAllowed ==
  \A w \in Worker : \A t \in tasks[w] : t.step = "retry" => t.delivery[2] < Policy.max

\* Every step keeps that.
LEMMA RabbitKeepsStarted ==
  ASSUME QueueTypeOK, RabbitStarted, RetryAllowed, [Rabbit!Next]_(Rabbit!vars)
  PROVE  RabbitStarted' /\ RetryAllowed'
<1>1. ASSUME NEW w \in Worker, Rabbit!Start(w) PROVE RabbitStarted' /\ RetryAllowed'
  BY <1>1, Zenon DEF QueueTypeOK, RabbitStarted, RetryAllowed, Rabbit!Start, Rabbit!Matches
<1>2. ASSUME NEW w \in Worker, Rabbit!Drain(w) \/ Rabbit!Stop(w) PROVE RabbitStarted' /\ RetryAllowed'
  BY <1>2, Zenon DEF QueueTypeOK, RabbitStarted, RetryAllowed, Rabbit!Drain, Rabbit!BeginDrain, Rabbit!Stop, Rabbit!EndLoop, Rabbit!Matches
<1>3. CASE \/ \E w \in Worker : Rabbit!ConnectionLost(w)
           \/ \E j \in orphans : Rabbit!ChannelClosed(j)
           \/ \E w \in Worker : \E j \in Job : Rabbit!Deliver(w, j)
           \/ UNCHANGED Rabbit!vars
  <2>1. UNCHANGED <<loop, tasks>>
    BY <1>3, Zenon DEF Rabbit!ConnectionLost, Rabbit!ChannelClosed, Rabbit!Deliver, Rabbit!vars, Rabbit!shared
  <2> QED BY <2>1, Zenon DEF RabbitStarted, RetryAllowed, Rabbit!Matches
<1>4. ASSUME NEW w \in Worker, NEW d \in buffer[w], Rabbit!Spawn(w, d) PROVE RabbitStarted' /\ RetryAllowed'
  BY <1>4 DEF QueueTypeOK, RabbitStarted, RetryAllowed, Rabbit!Spawn, Rabbit!NewTask, Rabbit!Matches
<1>5. ASSUME NEW w \in Worker, NEW t \in tasks[w], Handle(w, t) PROVE RabbitStarted' /\ RetryAllowed'
  <2>t. t \in Task /\ t.delivery[2] \in 1..MaxCount
    BY TaskParts, Zenon
  <2>1. PICK step : /\ step = "retry" => t.delivery[2] < Policy.max
                    /\ tasks' = [tasks EXCEPT ![w] = (@ \ {t}) \cup {[t EXCEPT !.step = step]}]
    BY <1>5, <2>t, FailureInBudget, Zenon DEF Handle, HandleOk, HandleError, HandleMalformed, Replace
  <2>2. UNCHANGED loop
    BY <1>5, Zenon DEF Handle, HandleOk, HandleError, HandleMalformed
  <2>3. [t EXCEPT !.step = step].step = step /\ [t EXCEPT !.step = step].delivery = t.delivery
    BY <2>t, Zenon DEF Task
  <2> QED BY <2>1, <2>2, <2>3, Zenon DEF QueueTypeOK, RabbitStarted, RetryAllowed, Rabbit!Matches
<1>6. ASSUME NEW w \in Worker, NEW t \in tasks[w], PublishDead(w, t) PROVE RabbitStarted' /\ RetryAllowed'
  <2>1. [t EXCEPT !.step = "remove"].step = "remove"
    BY TaskParts, Zenon DEF Task
  <2> QED BY <1>6, <2>1, Zenon DEF QueueTypeOK, RabbitStarted, RetryAllowed, PublishDead, Replace, Rabbit!Matches
<1>7. ASSUME NEW w \in Worker, NEW t \in tasks[w],
             PublishDeadUnknown(w, t) \/ SettleError(w, t) \/ Rabbit!Settle(w, t) \/ Rabbit!SettleUnread(w, t)
      PROVE  RabbitStarted' /\ RetryAllowed'
  <2>1. UNCHANGED loop /\ \A v \in Worker : tasks'[v] \subseteq tasks[v]
    BY <1>7, Zenon DEF QueueTypeOK, PublishDeadUnknown, SettleError, Finish, Rabbit!Settle, Rabbit!SettleUnread, Rabbit!Finish
  <2> QED BY <2>1, Zenon DEF RabbitStarted, RetryAllowed, Rabbit!Matches
<1> QED BY <1>1, <1>2, <1>3, <1>4, <1>5, <1>6, <1>7, RabbitShared, Zenon DEF Rabbit!Next, Rabbit!TaskStep

\* A message belongs to one channel, and a worker that passed its start check
\* never meets a delay that the queue would not give (retry_and_return).
THEOREM RabbitChannelsAndDelays == Rabbit!Spec => []Rabbit!ChannelsAndDelaysAgree
<1>1. Rabbit!Init => RabbitStarted /\ RetryAllowed
  BY Zenon DEF Rabbit!Init, Rabbit!QueueInit, RabbitStarted, RetryAllowed
<1>2. RabbitInv /\ RabbitStarted /\ RetryAllowed /\ [Rabbit!Next]_(Rabbit!vars) => RabbitStarted' /\ RetryAllowed'
  BY RabbitKeepsStarted, Zenon DEF RabbitInv, Accounted
<1>3. RabbitInv /\ RabbitStarted /\ RetryAllowed => Rabbit!ChannelsAndDelaysAgree
  <2> SUFFICES ASSUME RabbitInv, RabbitStarted, RetryAllowed, NEW w \in Worker, NEW t \in tasks[w], t.step = "retry"
               PROVE  Rabbit!DelayFor(t.delivery[2] + 1) = Rabbit!AfterFailure(Policy, t.delivery[2]).delay
    BY Zenon DEF RabbitInv, Held, Rabbit!ChannelsAndDelaysAgree, Rabbit!NativeDelayAgrees, Rabbit!RetryAgrees
  <2>1. Rabbit!Matches /\ t.delivery[2] \in Nat /\ 1 <= t.delivery[2] /\ t.delivery[2] < Policy.max
    BY TaskParts DEF RabbitStarted, RetryAllowed, RabbitInv, Accounted
  <2>2. Rabbit!SaturatingPower = SaturatingPower
    BY Zenon DEF Rabbit!SaturatingPower, SaturatingPower, Rabbit!Lesser, Lesser
  <2>3. Rabbit!AfterFailure(Policy, t.delivery[2]).delay = AfterFailure(Policy, t.delivery[2]).delay
    BY <2>2, Zenon DEF Rabbit!AfterFailure, AfterFailure, Rabbit!Delay, Delay, Rabbit!DeadLetter, DeadLetter,
                Rabbit!IsValid, IsValid, Rabbit!Lesser, Lesser
  <2> QED BY <2>1, <2>3, DelaysAgree, Zenon
<1> QED BY <1>1, <1>2, <1>3, RabbitInductive, PTL DEF Rabbit!Spec
=============================================================================
