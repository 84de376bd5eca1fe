----------------------------- MODULE RedisJobs -----------------------------
(***************************************************************************)
(* The Redis Streams worker of crates/rustee-jobs-redis.  Redis keeps a    *)
(* stream, the pending list (PEL) of the consumer group, a retry schedule  *)
(* and a dead-letter stream; every command and every Lua script is one     *)
(* atomic step.  A worker runs one select loop (run_with) whose            *)
(* maintenance branch promotes due retries, reclaims idle entries and asks *)
(* for their delivery count in three awaits; deliveries run as concurrent  *)
(* tasks that settle on their own.                                         *)
(*                                                                         *)
(* An entry is <<job, attempt field>>: a retry is a new entry with a       *)
(* larger attempt, so the pair names the entry id.  Time is asynchronous:  *)
(* an entry may become idle, and a retry due, at any moment.               *)
(***************************************************************************)
EXTENDS Integers, FiniteSets, JobRetry

CONSTANTS
  RedisJob,     \* published jobs
  Malformed,    \* those whose envelope or attempt field cannot be read
  Worker,       \* workers, each with its own consumer name
  None,
  Policy,       \* the RetryPolicy of every worker
  Concurrency,  \* WorkerConfig::concurrency
  MaxCount      \* bound: the delivery count of an entry saturates here

ASSUME RedisAssumption ==
  /\ Malformed \subseteq RedisJob
  /\ None \notin Worker
  /\ IsValid(Policy)
  /\ Concurrency \in Nat \ {0}
  /\ MaxCount \in Nat /\ MaxCount >= Policy.max

Entry == RedisJob \X (1..Policy.max)
JobAttempt == 1..(Policy.max + MaxCount)
Step == {"handle", "acknowledge", "retry", "dead_letter"}
Task == [entry : Entry, attempt : JobAttempt, step : Step]

VARIABLES
  stream,     \* entries not yet delivered to the group
  pel,        \* entries delivered and not acknowledged
  consumer,      \* the consumer a pending entry belongs to
  count,      \* times_delivered of a pending entry
  idle,       \* pending entries idle for at least reclaim_idle
  retry,      \* entries of the retry schedule
  deadLetters,       \* jobs on the dead-letter stream
  acked,      \* jobs acknowledged without retry or dead letter
  wpc,        \* the select loop of each worker
  claimed,    \* entries a worker reclaimed and has not counted yet
  counted,    \* deliveries it will spawn when all are counted
  tasks,      \* running delivery tasks
  errors,     \* workers with a finished task whose error is not joined yet
  succeeded   \* history: jobs whose handler succeeded

redis == <<stream, pel, consumer, count, idle, retry, deadLetters, acked>>
loops == <<wpc, claimed, counted, tasks, errors>>
redisVars == <<stream, pel, consumer, count, idle, retry, deadLetters, acked,
          wpc, claimed, counted, tasks, errors, succeeded>>

RedisTypeOK ==
  /\ stream \subseteq Entry
  /\ pel \subseteq Entry
  /\ consumer \in [Entry -> Worker \cup {None}]
  /\ count \in [Entry -> 0..MaxCount]
  /\ idle \subseteq pel
  /\ retry \subseteq Entry
  /\ deadLetters \subseteq RedisJob /\ acked \subseteq RedisJob
  /\ wpc \in [Worker -> {"stopped", "select", "reclaim", "count", "drain"}]
  /\ claimed \in [Worker -> SUBSET Entry]
  /\ counted \in [Worker -> SUBSET Task]
  /\ tasks \in [Worker -> SUBSET Task]
  /\ errors \subseteq Worker
  /\ succeeded \subseteq RedisJob

\* Every job has been published with attempt 1.
RedisInit ==
  /\ stream = RedisJob \X {1}
  /\ pel = {} /\ idle = {} /\ retry = {} /\ deadLetters = {} /\ acked = {}
  /\ consumer = [e \in Entry |-> None]
  /\ count = [e \in Entry |-> 0]
  /\ wpc = [w \in Worker |-> "stopped"]
  /\ claimed = [w \in Worker |-> {}]
  /\ counted = [w \in Worker |-> {}]
  /\ tasks = [w \in Worker |-> {}]
  /\ errors = {} /\ succeeded = {}

BecomesIdle(e) ==
  /\ e \in pel \ idle
  /\ idle' = idle \cup {e}
  /\ UNCHANGED <<stream, pel, consumer, count, retry, deadLetters, acked, loops, succeeded>>

-----------------------------------------------------------------------------
(* The select loop.                                                        *)

Available(w) ==
  Concurrency - Cardinality(tasks[w]) - (IF w \in errors THEN 1 ELSE 0)

NewTask(e, attempt) == [entry |-> e, attempt |-> attempt, step |-> "handle"]

StartWorker(w) ==
  /\ wpc[w] = "stopped"
  /\ wpc' = [wpc EXCEPT ![w] = "select"]
  /\ UNCHANGED <<redis, claimed, counted, tasks, errors, succeeded>>

\* XREADGROUP > makes an entry pending.  Its answer starts a delivery, or is
\* lost when another branch of the select wins while the command is under way.
ReadNew(w, e) ==
  /\ wpc[w] = "select"
  /\ Available(w) > 0
  /\ e \in stream
  /\ stream' = stream \ {e}
  /\ pel' = pel \cup {e}
  /\ consumer' = [consumer EXCEPT ![e] = w]
  /\ count' = [count EXCEPT ![e] = 1]
  /\ \/ tasks' = [tasks EXCEPT ![w] = @ \cup {NewTask(e, e[2])}]
     \/ UNCHANGED tasks
  /\ UNCHANGED <<idle, retry, deadLetters, acked, wpc, claimed, counted, errors, succeeded>>

\* The maintenance tick: PROMOTE_DUE_RETRIES_SCRIPT first,
PromoteDueRetries(w) ==
  /\ wpc[w] = "select"
  /\ Available(w) > 0
  /\ \E due \in SUBSET retry :
       /\ Cardinality(due) <= Available(w)
       /\ stream' = stream \cup due
       /\ retry' = retry \ due
  /\ wpc' = [wpc EXCEPT ![w] = "reclaim"]
  /\ UNCHANGED <<pel, consumer, count, idle, deadLetters, acked, claimed, counted, tasks, errors, succeeded>>

\* then XAUTOCLAIM of idle entries, this worker's own ones included,
Reclaim(w) ==
  /\ wpc[w] = "reclaim"
  /\ \E S \in SUBSET idle :
       /\ Cardinality(S) <= Available(w)
       /\ consumer' = [e \in Entry |-> IF e \in S THEN w ELSE consumer[e]]
       /\ count' = [e \in Entry |-> IF e \in S THEN Lesser(count[e] + 1, MaxCount) ELSE count[e]]
       /\ idle' = idle \ S
       /\ claimed' = [claimed EXCEPT ![w] = S]
       /\ wpc' = [wpc EXCEPT ![w] = IF S = {} THEN "select" ELSE "count"]
  /\ UNCHANGED <<stream, pel, retry, deadLetters, acked, counted, tasks, errors, succeeded>>

\* then XPENDING for each of them, whoever owns it by now.  The deliveries
\* start when all of them are counted.
PendingDeliveryCount(w, e) ==
  /\ wpc[w] = "count"
  /\ e \in claimed[w]
  /\ e \in pel
  /\ LET found == counted[w] \cup {NewTask(e, e[2] + count[e] - 1)}
         rest  == claimed[w] \ {e} IN
     IF rest = {}
     THEN /\ tasks' = [tasks EXCEPT ![w] = @ \cup found]
          /\ counted' = [counted EXCEPT ![w] = {}]
          /\ claimed' = [claimed EXCEPT ![w] = {}]
          /\ wpc' = [wpc EXCEPT ![w] = "select"]
     ELSE /\ counted' = [counted EXCEPT ![w] = found]
          /\ claimed' = [claimed EXCEPT ![w] = rest]
          /\ UNCHANGED <<tasks, wpc>>
  /\ UNCHANGED <<redis, errors, succeeded>>

\* The loop returns at once and drops its tasks.
Return(w) ==
  /\ wpc' = [wpc EXCEPT ![w] = "stopped"]
  /\ claimed' = [claimed EXCEPT ![w] = {}]
  /\ counted' = [counted EXCEPT ![w] = {}]
  /\ tasks' = [tasks EXCEPT ![w] = {}]
  /\ errors' = errors \ {w}

\* An entry that was settled since it was claimed has no count:
\* DeliveryMetadata ends the loop without draining.
ClaimedEntryGone(w, e) ==
  /\ wpc[w] = "count"
  /\ e \in claimed[w] \ pel
  /\ Return(w)
  /\ UNCHANGED <<redis, succeeded>>

\* Shutdown, or the error of a finished task: stop receiving and drain.
BeginDrain(w) ==
  /\ wpc[w] = "select"
  /\ wpc' = [wpc EXCEPT ![w] = "drain"]
  /\ UNCHANGED <<redis, claimed, counted, tasks, errors, succeeded>>

\* Drained, or the drain timed out, or it met an error: the tasks that are
\* left are aborted.  Also a crash, and a failed command in any branch: the
\* loop returns without draining.
Stop(w) ==
  /\ wpc[w] # "stopped"
  /\ Return(w)
  /\ UNCHANGED <<redis, succeeded>>

-----------------------------------------------------------------------------
(* A delivery task: process_delivery and settle_action.                    *)

Replace(w, t, step) ==
  tasks' = [tasks EXCEPT ![w] = (@ \ {t}) \cup {[t EXCEPT !.step = step]}]

\* The handler runs and succeeds.
HandleOk(w, t) ==
  /\ t \in tasks[w] /\ t.step = "handle"
  /\ t.entry[1] \notin Malformed
  /\ succeeded' = succeeded \cup {t.entry[1]}
  /\ Replace(w, t, "acknowledge")
  /\ UNCHANGED <<redis, wpc, claimed, counted, errors>>

\* It fails: after_failure decides.
HandleError(w, t) ==
  /\ t \in tasks[w] /\ t.step = "handle"
  /\ t.entry[1] \notin Malformed
  /\ Replace(w, t, AfterFailure(Policy, t.attempt).kind)
  /\ UNCHANGED <<redis, wpc, claimed, counted, errors, succeeded>>

\* The delivery cannot be decoded and goes to the dead-letter stream.
HandleMalformed(w, t) ==
  /\ t \in tasks[w] /\ t.step = "handle"
  /\ t.entry[1] \in Malformed
  /\ Replace(w, t, "dead_letter")
  /\ UNCHANGED <<redis, wpc, claimed, counted, errors, succeeded>>

\* Mutant of OwnedBy: settlement without an ownership check.
OwnedAlways(w, e) == w \in Worker /\ e \in Entry

\* XPENDING with the consumer name, in every settlement script.
OwnedBy(w, e) == e \in pel /\ consumer[e] = w

\* What the three scripts do to an owned entry.
Settlement(t) ==
  LET j == t.entry[1] IN
  /\ pel' = pel \ {t.entry}
  /\ idle' = idle \ {t.entry}
  /\ consumer' = [consumer EXCEPT ![t.entry] = None]
  /\ count' = [count EXCEPT ![t.entry] = 0]
  /\ retry' = IF t.step = "retry"
              THEN retry \cup {<<j, AfterFailure(Policy, t.attempt).next>>} ELSE retry
  /\ deadLetters' = IF t.step = "dead_letter" THEN deadLetters \cup {j} ELSE deadLetters
  /\ acked' = IF t.step = "acknowledge" THEN acked \cup {j} ELSE acked
  /\ UNCHANGED stream

Finish(w, t) == tasks' = [tasks EXCEPT ![w] = @ \ {t}]

\* The script is applied; its answer may be lost, which is an error.
Settle(w, t) ==
  /\ t \in tasks[w] /\ t.step # "handle"
  /\ OwnedBy(w, t.entry)
  /\ Settlement(t)
  /\ Finish(w, t)
  /\ \/ UNCHANGED errors
     \/ errors' = errors \cup {w}
  /\ UNCHANGED <<wpc, claimed, counted, succeeded>>

OwnershipLost(w, t) ==
  /\ t \in tasks[w] /\ t.step # "handle"
  /\ ~OwnedBy(w, t.entry)
  /\ Finish(w, t)
  /\ errors' = errors \cup {w}
  /\ UNCHANGED <<redis, wpc, claimed, counted, succeeded>>

\* Redis cannot be reached: nothing is settled.
SettleError(w, t) ==
  /\ t \in tasks[w] /\ t.step # "handle"
  /\ Finish(w, t)
  /\ errors' = errors \cup {w}
  /\ UNCHANGED <<redis, wpc, claimed, counted, succeeded>>

RedisNext ==
  \/ \E e \in pel : BecomesIdle(e)
  \/ \E w \in Worker : StartWorker(w) \/ BeginDrain(w) \/ Stop(w)
  \/ \E w \in Worker : PromoteDueRetries(w) \/ Reclaim(w)
  \/ \E w \in Worker : \E e \in stream : ReadNew(w, e)
  \/ \E w \in Worker : \E e \in claimed[w] :
       PendingDeliveryCount(w, e) \/ ClaimedEntryGone(w, e)
  \/ \E w \in Worker : \E t \in tasks[w] :
       \/ HandleOk(w, t) \/ HandleError(w, t) \/ HandleMalformed(w, t)
       \/ Settle(w, t) \/ OwnershipLost(w, t) \/ SettleError(w, t)

RedisSpec == RedisInit /\ [][RedisNext]_redisVars

\* Time passes, stopped workers are restarted, and a step on an entry that
\* keeps being possible is completed once without a fault in between: some
\* select round reads, promotes or reclaims the entry, some handler run ends
\* and some settlement of it reaches Redis before the entry is taken away.
RedisFairness ==
  /\ \A w \in Worker :
       /\ WF_redisVars(StartWorker(w)) /\ WF_redisVars(wpc[w] = "drain" /\ Stop(w))
       /\ SF_redisVars(w \in errors /\ BeginDrain(w))
       /\ SF_redisVars(PromoteDueRetries(w)) /\ WF_redisVars(Reclaim(w))
  /\ \A e \in Entry :
       /\ WF_redisVars(BecomesIdle(e))
       /\ WF_redisVars(\E w \in Worker : ClaimedEntryGone(w, e))
       /\ SF_redisVars(\E w \in Worker : ReadNew(w, e))
       /\ SF_redisVars(\E w \in Worker : PromoteDueRetries(w) /\ e \in retry \ retry')
       /\ SF_redisVars(\E w \in Worker : Reclaim(w) /\ e \in idle \ idle')
       /\ SF_redisVars(\E w \in Worker : PendingDeliveryCount(w, e))
       /\ SF_redisVars(\E w \in Worker : \E t \in tasks[w] :
            t.entry = e /\ (HandleOk(w, t) \/ HandleError(w, t) \/ HandleMalformed(w, t)))
       /\ SF_redisVars(\E w \in Worker : \E t \in tasks[w] : t.entry = e /\ Settle(w, t))

RedisFairSpec == RedisSpec /\ RedisFairness

-----------------------------------------------------------------------------
(* Properties.                                                             *)

\* Where the copies of a job are.
Copies(j) ==
  {<<"stream", e>> : e \in {e \in stream : e[1] = j}} \cup
  {<<"pending", e>> : e \in {e \in pel : e[1] = j}} \cup
  {<<"retry", e>> : e \in {e \in retry : e[1] = j}} \cup
  {<<"dead", <<j, 0>>>> : i \in {j} \cap deadLetters} \cup
  {<<"done", <<j, 0>>>> : i \in {j} \cap acked}

\* A job is never lost and never forks: whatever tasks overlap, reclaim each
\* other's entries, crash or lose answers, it is waiting, pending, scheduled
\* for retry, dead-lettered or done, and only one of these (the Lua scripts).
OneCopy == \A j \in RedisJob : Cardinality(Copies(j)) = 1

\* A job is acknowledged only after its handler succeeded.
AcknowledgedSucceeded == acked \subseteq succeeded

\* A worker never runs more deliveries than its concurrency, reclaimed and new
\* ones together.
WithinConcurrency == \A w \in Worker : Cardinality(tasks[w]) <= Concurrency

\* Once a worker runs, every published job is acknowledged or dead-lettered in
\* the end, through lost reads, crashes, reclaims and retries.
EveryJobSettles ==
  \A j \in RedisJob : (\E w \in Worker : wpc[w] # "stopped") ~> j \in acked \cup deadLetters

(* A job is never lost and never forks, and is acknowledged only after its     *)
(* handler succeeded, whatever tasks overlap, crash or lose answers.           *)
JobsAreKept ==
  /\ OneCopy
  /\ AcknowledgedSucceeded
=============================================================================
