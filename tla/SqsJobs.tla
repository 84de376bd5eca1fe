------------------------------- MODULE SqsJobs -------------------------------
(***************************************************************************)
(* The worker of crates/rustee-jobs-sqs.  A received message is invisible  *)
(* for the visibility timeout; a heartbeat renews it while the handler     *)
(* runs; delete and change-visibility name the receipt of one receive.     *)
(* Time is asynchronous: the visibility may run out at any moment, which   *)
(* also stands for a receive whose answer took long.  After BrokerLimit    *)
(* receives the queue's redrive policy moves the message to the            *)
(* dead-letter queue.                                                      *)
(***************************************************************************)
EXTENDS QueueWorker

vars == shared

Init == QueueInit

\* validate_retry_policy: max_deliveries fits into the redrive count.
Start(w) ==
  /\ loop[w] = "stopped"
  /\ Policy.max <= BrokerLimit
  /\ loop' = [loop EXCEPT ![w] = "select"]
  /\ UNCHANGED <<malformed, queue, count, dead, tasks, errors, succeeded>>

\* At most as many messages as slots are free.  The answer is lost when
\* another branch of the select wins, or the request times out.
Receive(w) ==
  /\ loop[w] = "select"
  /\ \E jobs \in SUBSET {j \in Job : queue[j] = "ready" /\ count[j] < BrokerLimit} :
       /\ jobs # {}
       /\ Cardinality(jobs) <= Concurrency - Running(w)
       /\ HandOut(jobs)
       /\ \/ tasks' = [tasks EXCEPT ![w] = @ \cup {NewTask(<<j, NextNumber(j)>>) : j \in jobs}]
          \/ UNCHANGED tasks
  /\ UNCHANGED <<malformed, dead, loop, errors, succeeded>>

Redrive(j) ==
  /\ queue[j] = "ready"
  /\ count[j] >= BrokerLimit
  /\ queue' = [queue EXCEPT ![j] = "gone"]
  /\ dead' = dead \cup {j}
  /\ UNCHANGED <<malformed, count, loop, tasks, errors, succeeded>>

VisibilityExpires(j) ==
  /\ queue[j] = "held"
  /\ queue' = [queue EXCEPT ![j] = "ready"]
  /\ UNCHANGED <<malformed, count, dead, loop, tasks, errors, succeeded>>

\* A late heartbeat hides a message again that nobody received meanwhile.
RenewVisibility(w, t) ==
  /\ t.step = "handle"
  /\ queue[t.delivery[1]] = "ready"
  /\ t.delivery[2] = count[t.delivery[1]]
  /\ queue' = [queue EXCEPT ![t.delivery[1]] = "held"]
  /\ UNCHANGED <<malformed, count, dead, loop, tasks, errors, succeeded>>

Drain(w) ==
  /\ BeginDrain(w)
  /\ UNCHANGED <<malformed, queue, count, dead, tasks, errors, succeeded>>

\* Drained, drain timeout, a task's error when every slot was taken (the loop
\* returns without draining), a failed receive, a crash.
Stop(w) ==
  /\ loop[w] # "stopped"
  /\ EndLoop(w)
  /\ UNCHANGED <<malformed, queue, count, dead, succeeded>>

\* Applied, with or without an answer.  SQS may ignore an old receipt.
Settle(w, t) ==
  /\ Settling(t)
  /\ Finish(w, t)
  /\ \/ queue[t.delivery[1]] # "gone" /\ Applied(t)
     \/ /\ queue[t.delivery[1]] = "gone" \/ t.delivery[2] < count[t.delivery[1]]
        /\ UNCHANGED queue
  /\ errors' \in {errors, errors \cup {w}}
  /\ UNCHANGED <<malformed, count, dead, loop, succeeded>>

\* A failed heartbeat ends the task as SettleError does, after the handler.
TaskStep(w, t) ==
  \/ Handle(w, t) \/ PublishDead(w, t) \/ PublishDeadUnknown(w, t) \/ SettleError(w, t)
  \/ RenewVisibility(w, t) \/ Settle(w, t)

Next ==
  \/ \E w \in Worker : Start(w) \/ Drain(w) \/ Stop(w) \/ Receive(w)
  \/ \E j \in Job : Redrive(j) \/ VisibilityExpires(j)
  \/ \E w \in Worker : \E t \in tasks[w] : TaskStep(w, t)

Spec == Init /\ [][Next]_vars
=============================================================================
