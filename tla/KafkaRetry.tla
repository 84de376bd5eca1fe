----------------------------- MODULE KafkaRetry -----------------------------
(***************************************************************************)
(* Kafka consumers (crates/rustee-events-kafka, run_until and              *)
(* run_with_failure_routing) and the PostgreSQL table and relay of delayed *)
(* retries (crates/rustee-events-kafka-sqlx).                              *)
(*                                                                         *)
(* A group reads a source topic that all groups share and a retry topic of *)
(* its own, one partition each.  Its members handle one record at a time   *)
(* and commit its offset once it was handled or its failure was routed: to *)
(* the retry topic, to the table, or to the dead-letter topic.  A record   *)
(* is <<origin, attempt>>, where origin is the offset in the source topic. *)
(* A crash also stands for every error that ends a loop: an answer that is *)
(* lost is a step that takes effect, followed by a crash.                  *)
(***************************************************************************)
EXTENDS Integers, FiniteSets, Sequences

CONSTANTS
  Events,         \* number of records in the source topic
  Group,
  Member,         \* consumer processes
  GroupOf,        \* the consumer group of a member
  MaxDeliveries,  \* KafkaRetryConfig::max_deliveries
  Relay,          \* delayed-retry relays
  BatchSize,
  MaxFaults,      \* bound: crashes, takeovers and late relays
  Nobody          \* no lease, no owner

ASSUME KafkaAssumption ==
  /\ Events \in Nat /\ MaxDeliveries \in Nat \ {0} /\ BatchSize \in Nat \ {0}
  /\ GroupOf \in [Member -> Group]
  /\ Nobody \notin Member /\ Nobody \notin Relay

Topic == {"source", "retry"}
Router == {"none", "immediate", "delayed"}
Origin == 1..Events
Attempt == 1..MaxDeliveries
Record == Origin \X Attempt
Lost == "lost"   \* a lease token that no relay remembers

VARIABLES
  router,    \* how a group routes failures (run_until: none); never changes
  log,       \* the retry topic of each group
  offset,    \* committed offset of each group and topic
  owner,     \* the member a partition is assigned to
  position,  \* next offset a member fetches
  step,      \* each member: stopped, poll, handle, retry, dead, commit
  held,      \* the record it has: topic, offset, record
  handled,   \* history: <<group, origin>> whose handler succeeded
  failures,  \* history: failed deliveries of each <<group, origin>>, saturating
  dead,      \* <<group, origin>> in the dead-letter topic of the group
  rows,      \* rustee_kafka_delayed_retries, by unique key
  rstep,     \* each relay: idle, publish, confirm, release
  batch,     \* rows of its pass that are not published yet
  current,   \* the row it has published last
  faults, relayFaults

members == <<owner, position, step, held>>
history == <<handled, failures, dead>>
relays == <<rstep, batch, current>>
kvars == <<router, log, offset, members, history, rows, relays, faults, relayFaults>>

\* published_at, available_at and leased_until only as far as the statements
\* compare them; the lease token is the relay that holds it.
Row == [group : Group, published : BOOLEAN, due : BOOLEAN,
        lease : Relay \cup {Nobody, Lost}, expired : BOOLEAN]

Held == [topic : Topic, at : Nat, record : Record]

KafkaTypeOK ==
  /\ router \in [Group -> Router]
  /\ \A g \in Group : \A i \in 1..Len(log[g]) : log[g][i] \in Record
  /\ offset \in [Group -> [Topic -> Nat]]
  /\ owner \in [Group -> [Topic -> Member \cup {Nobody}]]
  /\ position \in [Member -> [Topic -> Nat]]
  /\ step \in [Member -> {"stopped", "poll", "handle", "retry", "dead", "commit"}]
  /\ \A m \in Member : step[m] \notin {"stopped", "poll"} => held[m] \in Held
  /\ DOMAIN rows \subseteq Record
  /\ \A k \in DOMAIN rows : rows[k] \in Row
  /\ rstep \in [Relay -> {"idle", "publish", "confirm", "release"}]
  /\ \A r \in Relay : batch[r] \subseteq DOMAIN rows
  /\ faults \in Nat /\ relayFaults \in Nat

KafkaInit ==
  /\ router \in [Group -> Router]
  /\ log = [g \in Group |-> << >>]
  /\ offset = [g \in Group |-> [t \in Topic |-> 0]]
  /\ owner = [g \in Group |-> [t \in Topic |-> Nobody]]
  /\ position = [m \in Member |-> [t \in Topic |-> 0]]
  /\ step = [m \in Member |-> "stopped"]
  /\ held = [m \in Member |-> Nobody]
  /\ handled = {} /\ dead = {}
  /\ failures = [x \in Group \X Origin |-> 0]
  /\ rows = << >>
  /\ rstep = [r \in Relay |-> "idle"]
  /\ batch = [r \in Relay |-> {}]
  /\ current = [r \in Relay |-> Nobody]
  /\ faults = 0 /\ relayFaults = 0

-----------------------------------------------------------------------------
(* Group members.                                                          *)

Topics(g, t) == IF t = "source" THEN [o \in Origin |-> <<o, 1>>] ELSE log[g]

Fault == faults < MaxFaults /\ faults' = faults + 1

\* The consumer object and what it held are gone.
Halt(m) ==
  /\ step' = [step EXCEPT ![m] = "stopped"]
  /\ held' = [held EXCEPT ![m] = Nobody]
  /\ position' = [position EXCEPT ![m] = [t \in Topic |-> 0]]

\* The application's supervisor calls run_with_failure_routing; a new consumer
\* begins at the committed offsets.
Start(m) ==
  /\ step[m] = "stopped"
  /\ step' = [step EXCEPT ![m] = "poll"]
  /\ position' = [position EXCEPT ![m] = offset[GroupOf[m]]]
  /\ UNCHANGED <<router, log, offset, owner, held, history, rows, relays, faults, relayFaults>>

\* The group coordinator gives m a partition, from the committed offset.
Assign(m, t) ==
  /\ owner' = [owner EXCEPT ![GroupOf[m]][t] = m]
  /\ position' = [position EXCEPT ![m][t] = offset[GroupOf[m]][t]]
  /\ UNCHANGED <<router, log, offset, step, held, history, rows, relays, relayFaults>>

Owned(m, t) == LET old == owner[GroupOf[m]][t] IN old # Nobody /\ step[old] # "stopped"

\* A partition no running member has.
Rebalance(m, t) ==
  /\ step[m] # "stopped" /\ ~Owned(m, t)
  /\ Assign(m, t)
  /\ UNCHANGED faults

\* A partition of a running member, which may still be at a record of it.
TakeOver(m, t) ==
  /\ step[m] # "stopped" /\ Owned(m, t) /\ owner[GroupOf[m]][t] # m
  /\ Fault
  /\ Assign(m, t)

\* Mutant of Poll: enable.auto.commit.
PollAutoCommits(m, t) ==
  LET g == GroupOf[m]
      at == position[m][t] + 1
  IN /\ step[m] = "poll" /\ owner[g][t] = m
     /\ at <= Len(Topics(g, t))
     /\ held' = [held EXCEPT ![m] = [topic |-> t, at |-> at, record |-> Topics(g, t)[at]]]
     /\ position' = [position EXCEPT ![m][t] = at]
     /\ offset' = [offset EXCEPT ![g][t] = at]
     /\ step' = [step EXCEPT ![m] = "handle"]
     /\ UNCHANGED <<router, log, owner, history, rows, relays, faults, relayFaults>>

\* recv yields the next record of an assigned partition.
Poll(m, t) ==
  LET g == GroupOf[m]
      at == position[m][t] + 1
  IN /\ step[m] = "poll" /\ owner[g][t] = m
     /\ at <= Len(Topics(g, t))
     /\ held' = [held EXCEPT ![m] = [topic |-> t, at |-> at, record |-> Topics(g, t)[at]]]
     /\ position' = [position EXCEPT ![m][t] = at]
     /\ step' = [step EXCEPT ![m] = "handle"]
     /\ UNCHANGED <<router, log, offset, owner, history, rows, relays, faults, relayFaults>>

HandledBy(m) == <<GroupOf[m], held[m].record[1]>>

EventHandled(m) ==
  /\ step[m] = "handle"
  /\ handled' = handled \cup {HandledBy(m)}
  /\ step' = [step EXCEPT ![m] = "commit"]
  /\ UNCHANGED <<router, log, offset, owner, position, held, failures, dead, rows, relays, faults, relayFaults>>

\* Mutant of AfterKafkaFailure: one delivery too few.
AfterOneLessFailure(attempt) == IF attempt + 1 >= MaxDeliveries THEN "dead" ELSE "retry"

AfterKafkaFailure(attempt) == IF attempt >= MaxDeliveries THEN "dead" ELSE "retry"

\* Without a router the failure ends the loop (run_until).
EventStops(m) ==
  /\ step[m] = "handle" /\ router[GroupOf[m]] = "none"
  /\ Halt(m)
  /\ UNCHANGED <<router, log, offset, owner, history, rows, relays, faults, relayFaults>>

\* The handler fails, or the envelope cannot be decoded.
EventFails(m) ==
  /\ step[m] = "handle" /\ router[GroupOf[m]] # "none"
  /\ failures' = [failures EXCEPT ![HandledBy(m)] = IF @ < MaxDeliveries THEN @ + 1 ELSE @]
  /\ step' = [step EXCEPT ![m] = AfterKafkaFailure(held[m].record[2])]
  /\ UNCHANGED <<router, log, offset, owner, position, held, handled, dead, rows, relays, faults, relayFaults>>

\* The failure headers: the first origin, and the next attempt.
NextRecord(m) == <<held[m].record[1], held[m].record[2] + 1>>

\* KafkaFailurePublisher: published to the retry topic and acknowledged.
RouteNow(m) ==
  /\ step[m] = "retry" /\ router[GroupOf[m]] = "immediate"
  /\ log' = [log EXCEPT ![GroupOf[m]] = Append(@, NextRecord(m))]
  /\ step' = [step EXCEPT ![m] = "commit"]
  /\ UNCHANGED <<router, offset, owner, position, held, history, rows, relays, faults, relayFaults>>

NewRow(g) == [group |-> g, published |-> FALSE, due |-> FALSE, lease |-> Nobody, expired |-> FALSE]

With(k, row) == [x \in DOMAIN rows \cup {k} |-> IF x = k THEN row ELSE rows[x]]

\* Mutant of RouteDelayed: a conflict arms the row again.
RouteDelayedUpsert(m) ==
  /\ step[m] = "retry" /\ router[GroupOf[m]] = "delayed"
  /\ rows' = With(NextRecord(m), NewRow(GroupOf[m]))
  /\ step' = [step EXCEPT ![m] = "commit"]
  /\ UNCHANGED <<router, log, offset, owner, position, held, history, relays, faults, relayFaults>>

\* PostgresKafkaDelayedRetryRouter: INSERT ... ON CONFLICT (origin, attempt)
\* DO NOTHING.
RouteDelayed(m) ==
  /\ step[m] = "retry" /\ router[GroupOf[m]] = "delayed"
  /\ rows' = IF NextRecord(m) \in DOMAIN rows
             THEN rows
             ELSE With(NextRecord(m), NewRow(GroupOf[m]))
  /\ step' = [step EXCEPT ![m] = "commit"]
  /\ UNCHANGED <<router, log, offset, owner, position, held, history, relays, faults, relayFaults>>

RouteDead(m) ==
  /\ step[m] = "dead"
  /\ dead' = dead \cup {HandledBy(m)}
  /\ step' = [step EXCEPT ![m] = "commit"]
  /\ UNCHANGED <<router, log, offset, owner, position, held, handled, failures, rows, relays, faults, relayFaults>>

\* commit_message, synchronously.  The coordinator may accept it from a member
\* the partition was taken from, which moves the offset back.
Commit(m) ==
  /\ step[m] = "commit"
  /\ offset' = [offset EXCEPT ![GroupOf[m]][held[m].topic] = held[m].at]
  /\ step' = [step EXCEPT ![m] = "poll"]
  /\ held' = [held EXCEPT ![m] = Nobody]
  /\ UNCHANGED <<router, log, owner, position, history, rows, relays, faults, relayFaults>>

CommitRefused(m) ==
  /\ step[m] = "commit" /\ owner[GroupOf[m]][held[m].topic] # m
  /\ Halt(m)
  /\ UNCHANGED <<router, log, offset, owner, history, rows, relays, faults, relayFaults>>

\* Shutdown is seen between two records only.
Shutdown(m) ==
  /\ step[m] = "poll"
  /\ Halt(m)
  /\ UNCHANGED <<router, log, offset, owner, history, rows, relays, faults, relayFaults>>

\* The process dies, or the loop returns an error.
Crash(m) ==
  /\ step[m] \notin {"stopped", "poll"}
  /\ Fault
  /\ Halt(m)
  /\ UNCHANGED <<router, log, offset, owner, history, rows, relays, relayFaults>>

MemberStep(m) ==
  \/ Start(m) \/ Shutdown(m) \/ Crash(m)
  \/ \E t \in Topic : Rebalance(m, t) \/ TakeOver(m, t) \/ Poll(m, t)
  \/ EventHandled(m) \/ EventStops(m) \/ EventFails(m)
  \/ RouteNow(m) \/ RouteDelayed(m) \/ RouteDead(m)
  \/ Commit(m) \/ CommitRefused(m)

-----------------------------------------------------------------------------
(* Delayed-retry relays.                                                   *)

RelayFault == Fault /\ relayFaults' = relayFaults + 1

\* Mutant of Due: leases do not run out.
DueUnleased(k) == /\ ~rows[k].published /\ rows[k].due
                  /\ rows[k].lease = Nobody

Due(k) == /\ ~rows[k].published /\ rows[k].due
          /\ rows[k].lease = Nobody \/ rows[k].expired

BecomesDue(k) ==
  /\ ~rows[k].due
  /\ rows' = [rows EXCEPT ![k].due = TRUE]
  /\ UNCHANGED <<router, log, offset, members, history, relays, faults, relayFaults>>

ExpireLease(k) ==
  /\ ~rows[k].expired
  /\ rows' = [rows EXCEPT ![k].expired = TRUE]
  /\ UNCHANGED <<router, log, offset, members, history, relays>>

LeaseRunsOut(k) ==
  /\ rows[k].lease = Lost
  /\ ExpireLease(k)
  /\ UNCHANGED <<faults, relayFaults>>

\* The lease runs out under a pass that goes on.
PassOverruns(k) ==
  /\ rows[k].lease \in Relay
  /\ RelayFault
  /\ ExpireLease(k)

\* CLAIM_DUE_ROWS_SQL.  The order of the rows is left open.
Claim(r) ==
  /\ rstep[r] = "idle"
  /\ \E S \in SUBSET {k \in DOMAIN rows : Due(k)} :
       /\ S # {} /\ Cardinality(S) <= BatchSize
       /\ Cardinality(S) = BatchSize \/ \A k \in DOMAIN rows : Due(k) => k \in S
       /\ rows' = [k \in DOMAIN rows |->
            IF k \in S THEN [rows[k] EXCEPT !.lease = r, !.expired = FALSE] ELSE rows[k]]
       /\ batch' = [batch EXCEPT ![r] = S]
  /\ rstep' = [rstep EXCEPT ![r] = "publish"]
  /\ UNCHANGED <<router, log, offset, members, history, current, faults, relayFaults>>

\* publish_delayed_retry, acknowledged by the broker.
PublishRow(r, k) ==
  /\ rstep[r] = "publish" /\ k \in batch[r]
  /\ log' = [log EXCEPT ![rows[k].group] = Append(@, k)]
  /\ batch' = [batch EXCEPT ![r] = @ \ {k}]
  /\ current' = [current EXCEPT ![r] = k]
  /\ rstep' = [rstep EXCEPT ![r] = "confirm"]
  /\ UNCHANGED <<router, offset, members, history, rows, faults, relayFaults>>

\* It fails, before or after the broker stored the record.
PublishRowFails(r, k) ==
  /\ rstep[r] = "publish" /\ k \in batch[r]
  /\ RelayFault
  /\ \/ log' = [log EXCEPT ![rows[k].group] = Append(@, k)]
     \/ UNCHANGED log
  /\ rstep' = [rstep EXCEPT ![r] = "release"]
  /\ UNCHANGED <<router, offset, members, history, rows, batch, current>>

AfterRow(r) ==
  /\ rstep' = [rstep EXCEPT ![r] = IF batch[r] = {} THEN "idle" ELSE "publish"]
  /\ current' = [current EXCEPT ![r] = Nobody]

\* UPDATE ... SET published_at WHERE id AND lease_token; no row, no error.
ConfirmRow(r) ==
  /\ rstep[r] = "confirm"
  /\ rows' = IF rows[current[r]].lease = r
             THEN [rows EXCEPT ![current[r]] =
                     [@ EXCEPT !.published = TRUE, !.lease = Nobody, !.expired = FALSE]]
             ELSE rows
  /\ AfterRow(r)
  /\ UNCHANGED <<router, log, offset, members, history, batch, faults, relayFaults>>

\* The UPDATE fails without effect.
ConfirmRowFails(r) ==
  /\ rstep[r] = "confirm"
  /\ RelayFault
  /\ rstep' = [rstep EXCEPT ![r] = "release"]
  /\ UNCHANGED <<router, log, offset, members, history, rows, batch, current>>

\* release_claims, then the error ends run_until, and the supervisor calls it
\* again.
ReleaseClaims(r) ==
  /\ rstep[r] = "release"
  /\ rows' = [k \in DOMAIN rows |->
       IF ~rows[k].published /\ rows[k].lease = r
       THEN [rows[k] EXCEPT !.due = FALSE, !.lease = Nobody, !.expired = FALSE]
       ELSE rows[k]]
  /\ batch' = [batch EXCEPT ![r] = {}]
  /\ current' = [current EXCEPT ![r] = Nobody]
  /\ rstep' = [rstep EXCEPT ![r] = "idle"]
  /\ UNCHANGED <<router, log, offset, members, history, faults, relayFaults>>

\* The relay dies, or releasing fails: its token is forgotten.
RelayCrash(r) ==
  /\ rstep[r] # "idle"
  /\ RelayFault
  /\ rows' = [k \in DOMAIN rows |->
       IF rows[k].lease = r THEN [rows[k] EXCEPT !.lease = Lost] ELSE rows[k]]
  /\ batch' = [batch EXCEPT ![r] = {}]
  /\ current' = [current EXCEPT ![r] = Nobody]
  /\ rstep' = [rstep EXCEPT ![r] = "idle"]
  /\ UNCHANGED <<router, log, offset, members, history>>

RelayStep(r) ==
  \/ Claim(r) \/ ConfirmRow(r) \/ ConfirmRowFails(r) \/ ReleaseClaims(r) \/ RelayCrash(r)
  \/ \E k \in batch[r] : PublishRow(r, k) \/ PublishRowFails(r, k)

KafkaNext ==
  \/ \E m \in Member : MemberStep(m)
  \/ \E r \in Relay : RelayStep(r)
  \/ \E k \in DOMAIN rows : BecomesDue(k) \/ LeaseRunsOut(k) \/ PassOverruns(k)

KafkaSpec == KafkaInit /\ [][KafkaNext]_kvars

Work(m) ==
  \/ EventHandled(m) \/ EventFails(m)
  \/ RouteNow(m) \/ RouteDelayed(m) \/ RouteDead(m)
  \/ Commit(m) \/ CommitRefused(m)

RelayWork(r) ==
  \/ Claim(r) \/ ConfirmRow(r) \/ ReleaseClaims(r)
  \/ \E k \in batch[r] : PublishRow(r, k)

\* Loops are restarted, the group coordinator gives the partitions of stopped
\* members to running ones, members and relays go on with what they have,
\* and time passes.  Shutdowns may repeat for ever, faults do not.
KafkaFairness ==
  /\ WF_kvars(\E m \in Member : Start(m))
  /\ \A t \in Topic :
       /\ SF_kvars(\E m \in Member : Rebalance(m, t))
       /\ SF_kvars(\E m \in Member : Poll(m, t))
  /\ WF_kvars(\E m \in Member : Work(m))
  /\ WF_kvars(\E r \in Relay : RelayWork(r))
  /\ WF_kvars(\E k \in DOMAIN rows : BecomesDue(k))
  /\ WF_kvars(\E k \in DOMAIN rows : LeaseRunsOut(k))

-----------------------------------------------------------------------------
(* Properties.                                                             *)

\* What is still going to happen to an event of a group, or has happened.
AccountedFor(g, o) ==
  \/ <<g, o>> \in handled \cup dead
  \/ \E k \in DOMAIN rows : k[1] = o /\ rows[k].group = g /\ ~rows[k].published
  \/ \E i \in 1..Len(log[g]) : i > offset[g]["retry"] /\ log[g][i][1] = o

\* No event is lost: below a committed source offset every event was handled,
\* is dead-lettered, waits in the table, or is ahead in the retry topic
\* (run_with_failure_routing commits only after route has answered).
CommittedIsAccountedFor ==
  \A g \in Group : \A o \in 1..offset[g]["source"] : AccountedFor(g, o)

\* Crashed and overtaken consumers never duplicate a delayed retry, because the
\* table has one row per origin and attempt; only relays that fail, die or are
\* late publish a row again.
RetryCopies ==
  \A g \in Group, k \in Record :
    router[g] = "delayed" =>
      Cardinality({i \in 1..Len(log[g]) : log[g][i] = k}) <= 1 + relayFaults

\* An event is dead-lettered only after max_deliveries failed deliveries; the
\* attempt survives the hops through topic headers and table rows.
DeadIsExhausted ==
  \A x \in dead : failures[x] >= MaxDeliveries

\* Once a group with a router consumes, each of its events is handled or
\* dead-lettered in the end, through crashes, takeovers, retries and relay
\* failures, whatever the handler does (route, relay_once).
EventSettles ==
  \A g \in Group, o \in Origin :
    (\E m \in Member : GroupOf[m] = g /\ step[m] # "stopped" /\ router[g] # "none")
      ~> <<g, o>> \in handled \cup dead
=============================================================================
