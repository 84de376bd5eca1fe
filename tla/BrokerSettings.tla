--------------------------- MODULE BrokerSettings ---------------------------
(* Settings and inspection of brokers: the SQS lease under every accepted   *)
(* configuration, the audit of a RabbitMQ queue, and the lag of a Kafka group. *)
EXTENDS Integers, JobRetry, FiniteSets
LOCAL INSTANCE TLC
LOCAL INSTANCE FiniteSetsExt

-----------------------------------------------------------------------------
(***************************************************************************)
(* The visibility lease of one received SQS message in discrete time:      *)
(* SqsWorkerConfig's builder, which checks the five durations against each *)
(* other after every setter, and run_with_lease, the heartbeat task and    *)
(* the settlement that live by them.  SqsJobs models the same worker with  *)
(* asynchronous time; here the clock is kept and the messages are not.     *)
(*                                                                         *)
(* A duration is a number of ticks, TicksPerSecond of which are a second.  *)
(* The receive, the handler and every request take as long as they like    *)
(* within their timeouts; the worker itself takes no time.                 *)
(***************************************************************************)

CONSTANTS
  TicksPerSecond,
  MaxVisibilitySeconds,     \* MAX_VISIBILITY_SECONDS
  MaxLongPollSeconds,       \* MAX_LONG_POLL_SECONDS
  DefaultLease,             \* the durations of SqsWorkerConfig::new
  DurationsTried,           \* what the setters are called with
  ReceiveDelays             \* ticks from the receive until the worker has the message

VARIABLES
  sqsConfig,    \* the durations of SqsWorkerConfig
  lease         \* the delivery: its clock, deadlines and requests

sqsLeaseVars == <<sqsConfig, lease>>

Never == -1
Ceiling == MaxVisibilitySeconds * TicksPerSecond

NoSqsLease ==
  [phase |-> "none", delay |-> 0, clock |-> 0, expires |-> 0, beatDue |-> 0, handlerDue |-> 0,
   requestEnds |-> Never, applied |-> FALSE, renewal |-> "ok", action |-> "none",
   lapsed |-> FALSE, overCeiling |-> FALSE]
-----------------------------------------------------------------------------
(* SqsWorkerConfig *)

ValidWholeSeconds(d, most) ==
  /\ d % TicksPerSecond = 0
  /\ d >= TicksPerSecond
  /\ d <= most * TicksPerSecond

\* Mutant of ValidLeaseSettings: the request timeout is not counted.
ValidLeaseIgnoringRequest(c) ==
  /\ c.request > c.longPoll
  /\ c.heartbeat > 0 /\ c.heartbeat < c.visibility
  /\ c.handler > 0 /\ c.handler < Ceiling - c.visibility - c.request

\* validate_lease_settings.  A sum that overflows and a difference below zero
\* are refused as well.
ValidLeaseSettings(c) ==
  /\ c.request > c.longPoll
  /\ c.heartbeat > 0 /\ c.heartbeat + c.request < c.visibility
  /\ c.handler > 0 /\ c.handler < Ceiling - c.visibility - c.request

\* A refused setter gives an error and no configuration: the application goes
\* on with the one it had.
Configured(c) == sqsConfig' = IF ValidLeaseSettings(c) THEN c ELSE sqsConfig

WithLongPoll(d) ==
  /\ ValidWholeSeconds(d, MaxLongPollSeconds)
  /\ Configured([sqsConfig EXCEPT !.longPoll = d])

WithRequestTimeout(d) ==
  /\ d > 0
  /\ Configured([sqsConfig EXCEPT !.request = d])

WithVisibilityTimeout(d) ==
  /\ ValidWholeSeconds(d, MaxVisibilitySeconds)
  /\ Configured([sqsConfig EXCEPT !.visibility = d])

WithHeartbeatInterval(d) == Configured([sqsConfig EXCEPT !.heartbeat = d])

WithHandlerTimeout(d) == Configured([sqsConfig EXCEPT !.handler = d])

Build ==
  /\ lease.phase = "none"
  /\ \E d \in DurationsTried :
       \/ WithLongPoll(d)
       \/ WithRequestTimeout(d)
       \/ WithVisibilityTimeout(d)
       \/ WithHeartbeatInterval(d)
       \/ WithHandlerTimeout(d)
  /\ UNCHANGED lease
-----------------------------------------------------------------------------
(* The lease *)

\* The message has been hidden since tick 0; the heartbeat and the handler
\* start when the worker has it.
RunWithLease(delay) ==
  /\ lease.phase = "none"
  /\ lease' = [NoSqsLease EXCEPT !.phase = "handling", !.delay = delay, !.clock = delay,
                 !.expires = sqsConfig.visibility,
                 !.beatDue = delay + sqsConfig.heartbeat,
                 !.handlerDue = delay + sqsConfig.handler]
  /\ UNCHANGED sqsConfig

Active == lease.phase \in {"handling", "stopping", "deadLettering", "settling"}
InFlight == lease.requestEnds # Never
Beating == lease.phase = "handling" /\ lease.renewal = "ok" /\ ~InFlight

\* Time passes until something is due.  The lease has lapsed when the message
\* is visible again while the handler, or its acknowledgement or retry, is
\* still under way.
Tick ==
  /\ Active
  /\ lease.phase = "handling" => lease.clock < lease.handlerDue
  /\ Beating => lease.clock < lease.beatDue
  /\ InFlight => lease.clock < lease.requestEnds
  /\ lease.phase = "stopping" => InFlight
  /\ lease' = [lease EXCEPT !.clock = @ + 1,
                 !.lapsed = @ \/ (lease.action # "dead" /\ lease.clock + 1 >= lease.expires)]
  /\ UNCHANGED sqsConfig

\* A tick of the interval.  A missed tick delays the ones that follow.
SendRenewal ==
  /\ Beating
  /\ lease.clock >= lease.beatDue
  /\ lease' = [lease EXCEPT !.requestEnds = lease.clock + sqsConfig.request, !.applied = FALSE,
                 !.beatDue = sqsConfig.heartbeat + lease.clock]
  /\ UNCHANGED sqsConfig

\* The provider hides the message anew, unless that would exceed its ceiling
\* (external: SQS counts twelve hours from the receive).
ApplyRenewal ==
  /\ lease.phase \in {"handling", "stopping"}
  /\ InFlight /\ ~lease.applied
  /\ lease' = IF lease.clock + sqsConfig.visibility <= Ceiling
                THEN [lease EXCEPT !.applied = TRUE, !.expires = lease.clock + sqsConfig.visibility]
                ELSE [lease EXCEPT !.requestEnds = Never, !.renewal = "failed",
                        !.overCeiling = TRUE]
  /\ UNCHANGED sqsConfig

RenewalAnswered ==
  /\ lease.phase \in {"handling", "stopping"}
  /\ InFlight /\ lease.applied
  /\ lease' = [lease EXCEPT !.requestEnds = Never]
  /\ UNCHANGED sqsConfig

\* An error or the timeout, before or after the provider applied it: the task
\* ends, and the handler goes on without a heartbeat.
RenewalFails ==
  /\ lease.phase \in {"handling", "stopping"}
  /\ InFlight
  /\ lease' = [lease EXCEPT !.requestEnds = Never, !.renewal = "failed"]
  /\ UNCHANGED sqsConfig

\* The handler's action or error; at its timeout the action of a failed try.
HandlerEnds(action) ==
  /\ lease.phase = "handling"
  /\ lease.clock = lease.handlerDue => action \in {"retry", "dead"}
  /\ lease' = [lease EXCEPT !.phase = "stopping", !.action = action]
  /\ UNCHANGED sqsConfig

Settling(action) ==
  [lease EXCEPT !.phase = CASE action = "error" -> "unsettled"
                            [] action = "dead" -> "deadLettering"
                            [] OTHER -> "settling",
                !.requestEnds = IF action = "error" THEN Never
                                  ELSE lease.clock + sqsConfig.request]

\* stop() waits for a renewal in flight and returns the task's error, and then
\* nothing is settled.
StopHeartbeat ==
  /\ lease.phase = "stopping"
  /\ ~InFlight
  /\ lease' = Settling(IF lease.renewal = "failed" THEN "error" ELSE lease.action)
  /\ UNCHANGED sqsConfig

\* A dead letter is sent before the message is deleted.
DeadLetterSent ==
  /\ lease.phase = "deadLettering"
  /\ lease' = [lease EXCEPT !.phase = "settling",
                 !.requestEnds = lease.clock + sqsConfig.request]
  /\ UNCHANGED sqsConfig

Settled ==
  /\ lease.phase = "settling"
  /\ lease' = [lease EXCEPT !.phase = "settled", !.requestEnds = Never]
  /\ UNCHANGED sqsConfig

SettlementFails ==
  /\ lease.phase \in {"deadLettering", "settling"}
  /\ lease' = [lease EXCEPT !.phase = "unsettled", !.requestEnds = Never]
  /\ UNCHANGED sqsConfig
-----------------------------------------------------------------------------
SqsLeaseInit == sqsConfig = DefaultLease /\ lease = NoSqsLease

SqsLeaseNext ==
  \/ Build
  \/ \E delay \in ReceiveDelays : RunWithLease(delay)
  \/ Tick
  \/ SendRenewal \/ ApplyRenewal \/ RenewalAnswered \/ RenewalFails
  \/ \E action \in {"ack", "retry", "dead", "error"} : HandlerEnds(action)
  \/ StopHeartbeat \/ DeadLetterSent \/ Settled \/ SettlementFails
-----------------------------------------------------------------------------
(* A configuration is always one whose durations fit each other, whatever    *)
(* setters were called in whatever order, and the deadlines are in range.    *)
SqsLeaseTypeOK ==
  /\ sqsConfig \in [{"longPoll", "request", "visibility", "heartbeat", "handler"} -> Nat \ {0}]
  /\ ValidLeaseSettings(sqsConfig)
  /\ lease.clock \in Nat /\ lease.expires \in 0..Ceiling
  /\ lease.requestEnds \in {Never} \cup Nat

(* While every renewal is answered, the message of a handler, of its         *)
(* acknowledgement and of its retry stays hidden, unless the receive itself  *)
(* was slow or the request timeout is longer than the heartbeat interval:    *)
(* then a renewal applied at once and answered late, followed by one applied *)
(* late, can be further apart than the visibility timeout that the builder   *)
(* accepted.                                                                 *)
RenewedInTime ==
  lease.lapsed =>
    \/ lease.renewal = "failed"
    \/ lease.delay > 0
    \/ sqsConfig.request > sqsConfig.heartbeat

(* No renewal asks for visibility beyond the provider's twelve hours, unless *)
(* the receive was slow: the handler's timeout leaves room for the last one. *)
RenewalsFitTheCeiling == lease.overCeiling => lease.delay > 0

(* A delivery whose heartbeat failed is neither acknowledged, retried nor    *)
(* dead-lettered: another worker may hold the message by then.               *)
UnrenewedIsNotSettled ==
  lease.renewal = "failed" => lease.phase \notin {"deadLettering", "settling", "settled"}

-----------------------------------------------------------------------------
(***************************************************************************)
(* The read-only audit of crates/rustee-jobs-rabbitmq-management: does the *)
(* queue that operators provisioned retry and dead-letter the way a worker *)
(* of crates/rustee-jobs-rabbitmq was configured to expect?  Operators     *)
(* change the queue at any time, through arguments and through policies.   *)
(*                                                                         *)
(* Durations are in ticks, MilliTicks of which are a millisecond.  The     *)
(* queue knows milliseconds only.  Settings are functions from the names   *)
(* that are set, without the "x-" prefix of an argument, to typed values.  *)
(***************************************************************************)

CONSTANTS
  MilliTicks,
  NativeDelays,       \* minimum and maximum delays tried
  PoliciesTried,      \* RetryPolicy
  NamesTried,         \* <<queue, consumer tag, exchange, routing key>>
  NameSpace,          \* MAX_AMQP_SHORT_STRING_BYTES
  ManagementTried,    \* [scheme, loopback, extras, user, password, vhost, timeout, limit]
  QueuesTried,        \* [type, durable, autoDelete, arguments, policy]
  AuditAnswers        \* of the management API: [status, media, declared, size, wellFormed]

VARIABLES
  management,     \* RabbitMqManagementConfig
  rabbitWorker,   \* RabbitMqWorkerConfig and the RetryPolicy of its worker
  provisioned,    \* the queue at the broker
  audited         \* the result of the last audit, and the queue it was about

auditVars == <<management, rabbitWorker, provisioned, audited>>

IntValue(n) == [kind |-> "int", n |-> n]
NameValue(len, form) == [kind |-> "text", len |-> len, form |-> form]
TextValue(form) == [kind |-> "text", form |-> form]
NoValue == [kind |-> "none"]
-----------------------------------------------------------------------------
(* The worker's configuration *)

\* RabbitMqNativeRetryConfig::new
ValidNativeDelay(min, max) ==
  /\ min >= MilliTicks
  /\ min % MilliTicks = 0
  /\ max % MilliTicks = 0
  /\ min <= max

ValidIdentifier(name) == name.len \in 1..NameSpace /\ name.form # "spaced"

NoWorker == [native |-> <<0, 0>>]
IsConfigured == rabbitWorker.native[1] # 0

\* RabbitMqWorkerConfig::new; the policy belongs to the worker that is started
\* with it and refuses one that does not match (Matches).
ConfigureWorker(min, max, names, policy) ==
  /\ ~IsConfigured
  /\ ValidNativeDelay(min, max)
  /\ \A i \in 1..4 : ValidIdentifier(names[i])
  /\ rabbitWorker' = [native |-> <<min, max>>, queue |-> names[1], exchange |-> names[3],
                      key |-> names[4], policy |-> policy]
  /\ UNCHANGED <<management, provisioned, audited>>

\* RabbitMqNativeRetryConfig::matches, asked when the worker starts.
WorkerStarts ==
  LET policy == rabbitWorker.policy IN
  /\ IsValid(policy)
  /\ policy.initial = rabbitWorker.native[1]
  /\ policy.cap = rabbitWorker.native[2]
  /\ policy.cap <= 3 * policy.initial

\* External: an operator declares the queue anew or changes a policy.
Provision(settings) ==
  /\ provisioned' = settings
  /\ UNCHANGED <<management, rabbitWorker, audited>>
-----------------------------------------------------------------------------
(* The audit *)

IsSafeSegment(name) == name.form # "dots"

\* RabbitMqManagementConfig::new and its with_ methods
ValidManagement(m) ==
  /\ m.scheme \in {"http", "https"} /\ ~m.extras
  /\ m.scheme = "https" \/ m.loopback
  /\ m.user # "blank" /\ m.password # "empty"
  /\ m.vhost.form # "nul" /\ IsSafeSegment(m.vhost)
  /\ m.timeout # 0 /\ m.limit # 0

\* EffectiveValues::value: an argument wins over a policy.
EffectiveValue(settings, name) ==
  IF name \in DOMAIN settings.arguments THEN settings.arguments[name]
  ELSE IF name \in DOMAIN settings.policy THEN settings.policy[name] ELSE NoValue

DurationMillis(d) == d \div MilliTicks

\* decode_queue_snapshot: the announced and the received length are bounded.
DecodeQueueSnapshot(answer) ==
  CASE answer.media # "json" -> "MalformedResponse"
    [] answer.declared > management.limit -> "ResponseTooLarge"
    [] answer.size > management.limit -> "ResponseTooLarge"
    [] ~answer.wellFormed -> "MalformedResponse"
    [] OTHER -> "snapshot"

\* fetch_queue_snapshot
FetchQueueSnapshot(answer) ==
  CASE ~IsSafeSegment(rabbitWorker.queue) -> "InvalidEndpoint"
    [] answer.status = "failed" -> "Request"
    [] answer.status = "missing" -> "QueueNotFound"
    [] OTHER -> DecodeQueueSnapshot(answer)

\* audit_snapshot.  A value of another type than expected counts as absent.
AuditSnapshot(settings) ==
  /\ settings.type = "quorum" /\ settings.durable /\ ~settings.autoDelete
  /\ LET limit == EffectiveValue(settings, "limit") IN
       limit.kind = "int" /\ limit.n \in rabbitWorker.policy.max..MaxU16
  /\ EffectiveValue(settings, "retry-type") = TextValue("failed")
  /\ EffectiveValue(settings, "retry-min") = IntValue(DurationMillis(rabbitWorker.native[1]))
  /\ EffectiveValue(settings, "retry-max") = IntValue(DurationMillis(rabbitWorker.native[2]))
  /\ EffectiveValue(settings, "exchange") = rabbitWorker.exchange
  /\ EffectiveValue(settings, "key") = rabbitWorker.key

Audit(answer) ==
  /\ IsConfigured
  /\ LET fetched == FetchQueueSnapshot(answer) IN
       audited' =
         CASE fetched # "snapshot" -> [result |-> fetched, queue |-> provisioned]
           [] ~AuditSnapshot(provisioned) -> [result |-> "TopologyMismatch", queue |-> provisioned]
           [] OTHER -> [result |-> "passed", queue |-> provisioned]
  /\ UNCHANGED <<management, rabbitWorker, provisioned>>
-----------------------------------------------------------------------------
AuditInit ==
  /\ management \in {m \in ManagementTried : ValidManagement(m)}
  /\ rabbitWorker = NoWorker
  /\ provisioned \in QueuesTried
  /\ audited = [result |-> "none", queue |-> provisioned]

AuditNext ==
  \/ \E min, max \in NativeDelays : \E names \in NamesTried : \E policy \in PoliciesTried :
       ConfigureWorker(min, max, names, policy)
  \/ \E settings \in QueuesTried : Provision(settings)
  \/ \E answer \in AuditAnswers : Audit(answer)
-----------------------------------------------------------------------------
\* External: the setting in force at the broker, and its delay of a delivery
\* that failed n times.
InForce(settings, name) == (settings.arguments @@ settings.policy)[name]

BrokerDelay(settings, n) ==
  MilliTicks * Lesser(InForce(settings, "retry-min").n * n, InForce(settings, "retry-max").n)

AuditTypeOK ==
  /\ audited.result \in {"none", "passed", "TopologyMismatch", "QueueNotFound", "InvalidEndpoint", "Request",
                         "MalformedResponse", "ResponseTooLarge"}

(* A worker that starts on a queue which passed the audit and was not changed  *)
(* since gets what its RetryPolicy says: each failed delivery comes back after *)
(* the policy's own delay, the broker gives up no earlier than the policy, and *)
(* what either gives up on goes to the same exchange and key.                  *)
AuditedQueueServesTheWorker ==
  audited.result = "passed" /\ audited.queue = provisioned /\ WorkerStarts =>
    /\ \A n \in 1..(rabbitWorker.policy.max - 1) :
         BrokerDelay(provisioned, n) = Delay(rabbitWorker.policy, n)
    /\ InForce(provisioned, "limit").n >= rabbitWorker.policy.max
    /\ InForce(provisioned, "exchange") = rabbitWorker.exchange
    /\ InForce(provisioned, "key") = rabbitWorker.key

-----------------------------------------------------------------------------
(* The lag an operator reads from a Kafka consumer (rustee-events-kafka,      *)
(* consumer/inspection.rs): a snapshot reads the assignment, then the         *)
(* positions, then the watermarks of one partition after another.  Producers, *)
(* retention, the group and its rebalances run on between any two of these    *)
(* calls.                                                                     *)

CONSTANTS
  LagPartitions, MaxOffset,   \* the partitions, and a bound on the offsets of each
  SnapshotLimits              \* KafkaLagSnapshotLimit: the limits callers give

NoPosition == -1

VARIABLES
  logs,           \* per partition: low and high watermark, the group's next record
  assigned,       \* the partitions this consumer holds: its position in each
  snapshot        \* the call in progress: what it has read, what is left

lagVars == <<logs, assigned, snapshot>>

NoAnswer == [lag |-> NoPosition, kept |-> 0, backlog |-> 0, moved |-> FALSE]
NoSnapshot == [step |-> "none", left |-> {}, positions |-> <<>>, answer |-> NoAnswer, moved |-> FALSE]

LagInit ==
  /\ logs = [p \in LagPartitions |-> [low |-> 0, high |-> 0, next |-> 0]]
  /\ assigned = <<>> /\ snapshot = NoSnapshot

-----------------------------------------------------------------------------
(* The broker and the group.  The consumer has a position in a partition once *)
(* it received a record in the current assignment; a record that was not      *)
(* committed before a rebalance is delivered again (the worker is serial, so  *)
(* there is at most one).                                                     *)
Produce(p) ==
  /\ logs[p].high < MaxOffset[p]
  /\ logs' = [logs EXCEPT ![p].high = @ + 1]
  /\ UNCHANGED <<assigned, snapshot>>

ExpireRecord(p) ==
  /\ logs[p].low < logs[p].high
  /\ logs' = [logs EXCEPT ![p].low = @ + 1]
  /\ UNCHANGED <<assigned, snapshot>>

Consume(p) ==
  LET offset == Max({logs[p].next, logs[p].low})
  IN  /\ offset < logs[p].high
      /\ logs' = [logs EXCEPT ![p].next = offset + 1]
      /\ assigned' = [q \in DOMAIN assigned |-> IF q = p THEN offset + 1 ELSE assigned[q]]
      /\ UNCHANGED snapshot

Rebalance(kept, redelivered) ==
  /\ Cardinality(redelivered) <= 1 /\ \A p \in redelivered : logs[p].next > 0
  /\ assigned' = [p \in kept |-> NoPosition]
  /\ logs' = [p \in LagPartitions |->
                IF p \in redelivered THEN [logs[p] EXCEPT !.next = @ - 1] ELSE logs[p]]
  /\ snapshot' = [snapshot EXCEPT !.moved = snapshot.step = "positions"]

-----------------------------------------------------------------------------
(* The limit is on the assignment, before any request for a watermark: over   *)
(* it the call returns an error at once.                                      *)
ReadAssignment(limit) ==
  /\ snapshot.step = "none"
  /\ snapshot' = IF Cardinality(DOMAIN assigned) > limit THEN NoSnapshot
                 ELSE [NoSnapshot EXCEPT !.step = "assignment", !.left = DOMAIN assigned]
  /\ UNCHANGED <<logs, assigned>>

ReadPositions ==
  /\ snapshot.step = "assignment"
  /\ snapshot' = [snapshot EXCEPT !.step = "positions", !.positions = assigned]
  /\ UNCHANGED <<logs, assigned>>

(* From the next record, or from the oldest one left when retention passed    *)
(* it; never negative.                                                        *)
LagFrom(position, low, high) == Max({0, high - Max({position, low})})

(* A partition without a concrete position has no lag.  The model keeps the   *)
(* latest row, and beside it what was left of the log at this moment.         *)
FetchWatermarks(p) ==
  LET log == logs[p]
      position == IF p \in DOMAIN snapshot.positions THEN snapshot.positions[p] ELSE NoPosition
      answer == [lag |-> IF position = NoPosition THEN NoPosition ELSE LagFrom(position, log.low, log.high),
                 kept |-> log.high - log.low, backlog |-> log.high - Max({log.next, log.low}),
                 moved |-> snapshot.moved]
  IN  /\ snapshot.step = "positions" /\ p \in snapshot.left
      /\ snapshot' = [snapshot EXCEPT !.left = @ \ {p}, !.answer = answer]
      /\ UNCHANGED <<logs, assigned>>

(* The call returns its rows, or an error when one request fails or times     *)
(* out; either way the rows read so far are the caller's or gone.             *)
SnapshotReturns ==
  /\ snapshot.step \in {"assignment", "positions"}
  /\ snapshot' = NoSnapshot
  /\ UNCHANGED <<logs, assigned>>

LagNext ==
  \/ \E p \in LagPartitions : Produce(p) \/ ExpireRecord(p) \/ Consume(p) \/ FetchWatermarks(p)
  \/ \E kept, redelivered \in SUBSET LagPartitions : Rebalance(kept, redelivered)
  \/ \E limit \in SnapshotLimits : ReadAssignment(limit)
  \/ ReadPositions \/ SnapshotReturns

LagSpec == LagInit /\ [][LagNext]_lagVars

-----------------------------------------------------------------------------
LagTypeOK ==
  /\ \A p \in LagPartitions : 0 <= logs[p].low /\ logs[p].low <= logs[p].high /\ logs[p].high <= MaxOffset[p]
  /\ DOMAIN assigned \subseteq LagPartitions
  /\ snapshot.step \in {"none", "assignment", "positions"}

(* A lag that lag_snapshot_with_limit reports never understates the records   *)
(* the group had still to receive when the watermarks were read, although the *)
(* position is older than they are, unless a rebalance came between; and it   *)
(* never counts records that retention has already removed.                   *)
LagIsHonest ==
  snapshot.answer.lag # NoPosition =>
    /\ snapshot.answer.lag <= snapshot.answer.kept
    /\ ~snapshot.answer.moved => snapshot.answer.lag >= snapshot.answer.backlog

(* Settings the builders accept do what they say: renewals keep a message hidden *)
(* and below the ceiling, an unrenewed delivery is not settled, an audited queue *)
(* serves its worker, and a reported lag is honest.                            *)
SettingsAreHonest ==
  /\ SqsLeaseTypeOK
  /\ AuditTypeOK
  /\ LagTypeOK
  /\ RenewedInTime
  /\ RenewalsFitTheCeiling
  /\ UnrenewedIsNotSettled
  /\ AuditedQueueServesTheWorker
  /\ LagIsHonest
=============================================================================
