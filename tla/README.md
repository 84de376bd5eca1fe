# Rustee in TLA+

Rustee is a Tower/Hyper web framework with optional crates for durable
messaging, scheduling, identity and AI integration. This directory holds TLA+
specifications of the parts of it in which order, concurrency and failure
matter, TLC configurations for small instances, and TLAPS proofs. Every
definition that models code is listed with its source lines under `map` in
`PROJECT.json`; every property that a passing run checks has a mutant there, a
small change of one definition that makes the property fail.

## 1. The system and its parts

| Part | Crates | What is hard about it |
|---|---|---|
| Web core | core, router, server, middleware, static, json, config, macros, rustee | connection drain on shutdown, timeouts and body limits, route precedence, byte ranges |
| Transactional outbox and inbox | outbox-sqlx | competing relays, leases that expire while a relay works, crash between publish and confirm, duplicate deliveries |
| Recurring jobs | jobs-cron-sqlx | concurrent scheduler passes with clocks of their own, a shared fixed-window governor, pause and resume, cron time zones |
| Job contracts and workers | jobs, jobs-redis, jobs-nats, jobs-rabbitmq, jobs-sqs, jobs-rabbitmq-management | ownership of a delivery, visibility leases, retries and dead letters that are two broker calls, draining |
| Events | events, events-kafka, events-kafka-sqlx, events-schema, events-schema-confluent | offset commit after routing a failure, delayed retries kept in PostgreSQL |
| Identity | auth, auth-jwt, auth-oidc, auth-oidc-redis, auth-session, auth-session-redis, auth-sqlx, tenant | one-time login transactions, session rotation, JWKS refresh, key rotation |
| Limits and caches | rate-limit, rate-limit-redis, redis, ai-cache, ai-cache-redis | atomic fixed windows, bounded caches with expiry |
| AI | ai, ai-openai, ai-web, ai-rag, ai-rag-advisor, ai-rag-jobs, ai-eval, ai-eval-jobs, ai-eval-sqlx, ai-batch, ai-batch-jobs, ai-batch-sqlx, ai-audit-sqlx, ai-test | budgets reserved before a call, tool loops, batch submission and reconciliation under claims, ledgers |
| MCP | mcp, mcp-oauth, ai-mcp, ai-mcp-oauth, ai-mcp-oauth-redis | session lifecycle, request/response correlation, token refresh by one of several callers |
| MongoDB | mongodb, mongodb-checkpoint-sqlx | checkpoints that must not move backwards |
| Observation | observability*, *-observability, *-prometheus, *-opentelemetry, outbox-observability | saturating counters, no effect on control |
| Descriptions and test tools | openapi, test, test-support | no concurrent state |

Delivery everywhere is at least once; an application makes its effect
idempotent, for which the inbox exists. Job publication, recurring jobs and
events all go through the outbox when they must be atomic with business rows:
`jobs-cron-sqlx` stages into it, a relay publishes to a broker, a worker
handles the delivery, the inbox discards duplicates.

## 2. Modules

| Module | Models | Role |
|---|---|---|
| `AtLeastOnce` | what the outbox promises | abstract: committed messages are sent, perhaps repeatedly, and retired after a send |
| `Outbox` | `rustee-outbox-sqlx`: stage, lease, relay, acknowledge, retry | detailed specification; implements `AtLeastOnce` |
| `OutboxProofs` | | TLAPS proofs about `Outbox` |
| `Inbox` | `inbox.rs`, on top of `AtLeastOnce` | composition: an at-least-once sender and the receipt a handler registers |
| `InboxProofs` | | TLAPS proofs about `Inbox` |
| `RecurringJobs` | `rustee-jobs-cron-sqlx` | passes, governor, registration, pause, resume |
| `JobRetry` | `RetryPolicy` of `rustee-jobs` | pure operators, used by the workers |
| `RedisJobs` | `rustee-jobs-redis` | workers, reclaim, Lua settlement |
| `QueueWorker` | what the JetStream, RabbitMQ and SQS workers share | select loop, handler outcome, dead letter before removal |
| `NatsJobs`, `RabbitJobs`, `SqsJobs` | `rustee-jobs-nats`, `-rabbitmq`, `-sqs` | how a delivery reaches a task, what a settlement does |
| `BrokerProofs` | | TLAPS proofs about the three |
| `KafkaRetry` | `rustee-events-kafka` and `-kafka-sqlx` | consumer loops, failure routing, offset commits, the delayed-retry table and its relays |
| `MC*` | | constants, symmetry and initial states for TLC |

### Outbox

A message's row is spread over functions indexed by message: the transaction
that staged it, `published_at`, `leased_until`, `lease_token`, the attempt. Time
is asynchronous: a lease that is held may run out at any moment
(`LeaseExpires`), and a row may become due at any moment. Each SQL statement is
one action, so two relays, the clock, the producers and crashes interleave
between any two statements of `relay_once_inner`. `Claim` takes the first rows
by priority, age and id that no other statement has locked. A publisher may
fail after the broker accepted the message, and the answer to an acknowledge
may be lost after it was applied. The history variables (`accepted`, `faulty`
and the like) are only read by properties.

The statements in `lease/storage.rs` are written with two backslashes at the
end of each line in ordinary string literals, so PostgreSQL is sent
backslashes. The constant `SqlAccepted` separates this from the protocol:
`FALSE` is the text as it stands, and every result other than the run
`outbox_sql` is about the statements as they are meant (`TRUE`). This was found
by reading; there was no PostgreSQL to run the contract tests against.

### Inbox

`Inbox` extends `AtLeastOnce`: whatever implements it may deliver any committed
message to any worker any number of times. A worker opens a transaction,
registers the receipt (`ON CONFLICT DO NOTHING`, which waits for a concurrent
transaction with the same key), applies the effect, commits, and settles the
delivery. Receipts belong to one consumer name.

### RecurringJobs

The tables are `rows`, `policy`, `next`, `enabled`, `window` (one governor row
per key) and `jobs` (what was staged in the outbox). A pass of `fire_due` is
`Begin` (reads the clock), `Select` (locks due rows, skipping locked ones), one
`FireUngoverned`, `FireGoverned` or `Defer` per row, and `Commit`; its updates
are invisible to others until it commits, its row locks and governor locks are
not. `Abort` is any error, crash or broken deadlock. `Resume` is two steps,
because it reads the clock in a statement before the one that finds the row.
Cron expressions are sets of instants; time zones are not modelled.

### RedisJobs

Redis executes a command or a Lua script in one step. The stream, the pending
list with owner, delivery count and idleness, the retry schedule and the
dead-letter stream are variables; a worker is a loop (`wpc`) and a set of
delivery tasks. A read whose answer is dropped by the select loop leaves a
pending entry nobody handles; reclaiming takes idle entries of any consumer,
the worker's own included; the delivery count is read in a later command;
settlement checks ownership, applies its effect and acknowledges in one script.

### QueueWorker, NatsJobs, RabbitJobs, SqsJobs

These workers settle a delivery with separate requests: a dead letter is
published and confirmed, then the source message is removed. `QueueWorker` has
the message of each job (`queue`: ready, held, gone), the broker's delivery
`count`, the loop and the tasks of each worker, and the steps of a task; a task
that ends with an error keeps its slot until the loop joins it (`errors`). The
other modules add their broker. JetStream: messages pulled ahead of the slots,
an acknowledgement timer that may run out while the handler works, `ack` and
`nak` without an answer. RabbitMQ: deliveries that belong to a channel and
return when it is lost, a frame the broker never reads, a delivery limit at
which the queue dead-letters itself, and a native delay that must agree with
`RetryPolicy`. SQS: a visibility that may run out at any moment, late heartbeats
and receipts, an answer to a receive that is dropped, and the redrive policy.
The brokers are external, modelled from how the workers use them. In `MCBrokers`
a variable chosen in the initial state says which broker the deployment uses;
nothing but the broker differs.

### KafkaRetry

A group reads a source topic and a retry topic of its own. A member polls one
record, handles it, routes a failure (to the retry topic, to the PostgreSQL
table, to the dead-letter topic, or not at all with `run_until`) and commits the
offset; each of these is a step, and a crash, which also stands for every error
that ends the loop, may come between any two. The group coordinator may give a
partition to another member at any time; the old one still finishes its record,
and its commit is refused or moves the group back. A relay claims due rows under
a lease, publishes and confirms them one by one, and releases the rest when
something fails. A record is its origin and its attempt, which is what the
headers and the unique key of the table carry. A member that starts again
connects a new consumer, as the contract tests do; records with a malformed
header or no payload, which stop a member for good, are not among the inputs.

## 3. Runs

Bounds are part of each `.cfg`. `violation` runs state what a comment or a test
of the repository says, and TLC shows a behaviour of the code that contradicts it.

| Run | Instance | Shows |
|---|---|---|
| `outbox` | 2 relays, 2 messages of different priority, 4 tokens, batches of 2 | the lease protocol is safe and implements `AtLeastOnce` |
| `outbox_live` | 1 relay, 2 messages, restarts | every committed message is published and confirmed |
| `outbox_sql` (violation) | the SQL text as it stands | nothing is ever published |
| `recurring` | 2 passes, 2 schedules, contradictory policies, pause and resume, 3 instants, window of 2 | policies, plans, pauses; once-only firing and capacity up to the two exceptions below |
| `recurring_served` | 2 passes, 4 due schedules on 2 governor keys in opposite orders | deadlocks are resolved and every due occurrence is served |
| `recurring_governor` (violation) | 2 passes on either side of a window boundary | the capacity of a window is exceeded |
| `recurring_end` (violation) | an expression with a last occurrence | that occurrence never fires, and its batch waits with it |
| `redis` | 2 workers with 2 slots, 2 jobs, 1 malformed, 2 deliveries | no job is lost or forked; the concurrency limit holds |
| `brokers` | JetStream without and with a delivery limit, RabbitMQ, SQS: 2 workers with 1 slot, 1 job that may be malformed, 3 deliveries | no job lost, no early dead letter, one channel per message, agreeing delays; every message leaves its queue |
| `events` | 2 members of a group, 2 events, 2 deliveries, 2 relays, 1 fault | no event lost below a committed offset, no duplicate from the table, no early dead letter |
| `events_groups` (violation) | 2 groups that share the delayed-retry table | the retry of the second group is dropped and its offset committed |
| `progress` | Inbox: 2 workers of one consumer, 1 of another. Redis: 1 worker, 1 job. Kafka: 2 members, 1 event, 2 relays, 1 fault | one effect per consumer and message; every job and every event is settled in the end |

Why the bounds are enough: each property talks about one row, job or key and
at most two actors that compete for it; two messages or schedules add the batch
in which one element fails while another is pending, two relays, passes or
workers add every race, and a third actor adds no new kind of step. Tokens
(outbox) are fresh while one is unused; 4 allow each relay to lose a lease and
lease again. The broker modules talk about the deliveries of one message, which
with two workers overlap; other messages only take slots. The Redis delivery
count saturates at the retry limit, above which the code does not distinguish
counts. The Kafka fault (crash, takeover, failing or late relay) may fall between
any two steps; `progress` is a sum of three
specifications: the variable `part`, chosen in the initial state, says which of
them takes steps.

Two properties name an exception. `RepeatedOnlyAfterResume`: `resume` reads the
database clock in a statement before the one that finds the row, and after a
pass and a pause in between it plans an occurrence that has already fired.
`ExceededOnlyIfOvertaken`: a pass with an old clock resets the window of the
governor, which `recurring_governor` shows.

Deadlock is checked in every run.

### Fairness

* Outbox: time passes, a stopped relay loop is restarted by its supervisor,
  statements of a running loop are taken, and a statement or publication that is
  attempted again and again does not fail every time. The loop in
  `run_until` polls again after each pass, which is what justifies the first
  part; the last one is the usual assumption about a database and a broker.
* Inbox: a message that is not settled is delivered again.
* RecurringJobs: the supervisor calls `fire_due` again and again; a pass takes
  its next statement; a wait for a governor row ends when its turn comes;
  PostgreSQL aborts a pass of a deadlock; a schedule that is claimed again and
  again is not met by a failing statement each time.
* RedisJobs: pending entries become idle, a stopped worker is restarted, and a
  step on an entry that remains possible is completed once without a fault.
  With two workers whose handlers outlast `reclaim_idle` the entry can go back
  and forth for ever; `with_reclaim_idle` documents that the idle time must
  exceed the longest handler, and the liveness run therefore has one worker.
* QueueWorker: stopped workers are restarted and draining ones stop; an idle
  loop takes what the broker offers, and the broker goes on offering; a task
  takes its next step; a settlement that is sent again and again reaches the
  broker once. Handlers may fail every time.
* KafkaRetry: stopped loops are restarted, the coordinator assigns the
  partitions of stopped members, a partition with records is polled, members and
  relays take their next step, and time passes. Shutdowns may repeat for ever;
  the faults are bounded. Handlers may fail every time.

## 4. Proofs

`OutboxProofs` proves, for any sets of messages, producers, relays and tokens
and any batch size: type correctness; that only committed messages are sent and
only accepted ones confirmed; that a message is accepted twice only after a
fault on its row; that at most one relay can still settle a row; that a
confirmed row is final; that a lease leaves a row only by expiry or by its
holder; and that `Outbox` implements `AtLeastOnce` (initial states map to initial
states, every step to a step or a stutter).

None of these is inductive alone. The inductive invariant `Inductive` adds what
ties a relay's memory to the table: rows of open transactions are unpublished
and unleased; a row's token is one a relay holds or none; tokens of different
relays differ; a row that a relay believes leased and still carries its token
is not published by anyone else; the row being confirmed was accepted; a row
accepted and not confirmed has either its publisher still at it or a fault
recorded. Each action has a lemma that it preserves the invariant, with one
step per conjunct it disturbs; the theorems follow from `InductiveHolds`.
Assumptions: the named `ASSUME` of `Outbox` only.

`InboxProofs` proves, for any messages, consumers and workers, that the effect
of a message is committed at most once per consumer (`EffectAtMostOnce`) and that
a delivery leaves the broker only with its effect (`SettledHasEffect`). The
inductive invariant `InboxInv` says that receipts and effects go together, that a
transaction that inserted a receipt is the only one with its key and the key is
not committed yet, and that a delivery about to be settled has its receipt.
Together with the refinement of `AtLeastOnce` by `Outbox` this is exactly-once
processing from the outbox to the inbox. Assumption: `InboxAssumption`.

`BrokerProofs` proves, for any sets of jobs and workers, any valid retry policy,
concurrency and delivery limit, that each of the three workers loses no job
(`RemovedIsAccountedFor`), and that one RabbitMQ channel at most can settle a
message (`OneChannel`). The account of removed messages is inductive only with
`TaskHasReason`: a task about to acknowledge has seen its handler succeed, a task
about to remove has its dead letter confirmed. The shared steps are shown to
keep it once (`HandleKeeps`, `PublishKeeps`, `StepKeeps`), and each broker adds
its own steps. `OneChannel` needs that a message on a closed channel is still
held: otherwise it could be delivered while the closed channel has it.
Assumption: `QueueAssumption`.

Only model-checked: liveness (fairness and ENABLED are outside the prover), that
the native RabbitMQ delay agrees with the retry policy (it rests on a recursive
power), `RecurringJobs`, `RedisJobs` and `KafkaRetry`.

## 5. What is not modelled, and the plan

Not modelled by choice: formatting, encoding and JSON, tracing and metrics
(no effect on control), OpenAPI descriptions, test helpers, macros.

Planned, in this order:

1. `SqsLease`: the arithmetic of the visibility lease (heartbeat interval,
   request timeout, visibility timeout), which `SqsJobs` abstracts.
2. Proofs of `OneCopy` (RedisJobs), `CommittedIsAccountedFor` (KafkaRetry, one
   group per table) and `RepeatedOnlyAfterResume` (RecurringJobs).
3. Identity: one-time OIDC transactions, session rotation, JWKS refresh, API
   keys; MCP OAuth token refresh.
4. AI: batch submission and reconciliation, response cache, budgets, ledgers,
   tool loops; MCP sessions.
5. Web core: connection drain, router precedence, byte ranges, rate limits; the
   cron evaluation across daylight-saving changes as a pure algorithm.
