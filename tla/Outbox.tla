------------------------------- MODULE Outbox -------------------------------
(***************************************************************************)
(* The PostgreSQL transactional outbox of crates/rustee-outbox-sqlx, for   *)
(* one kind and one destination: application transactions stage messages,  *)
(* relay loops lease committed rows, publish them to a broker and settle   *)
(* them.  Every SQL statement is one atomic step; publication is a step of *)
(* its own, so that relays, time, crashes and lost answers interleave      *)
(* between any two statements.                                             *)
(*                                                                         *)
(* Time is asynchronous: a timestamp column is the set of the rows for     *)
(* which it has passed, and Due and LeaseExpires let it pass at any moment.*)
(* A lease is as long, and a retry delay as short, as a behaviour needs.   *)
(***************************************************************************)
EXTENDS Naturals, FiniteSets

CONSTANTS
  Msg,         \* source messages: the unique (kind, destination, message_id)
  Producer,    \* application transactions that stage messages
  Relay,       \* relay loops polling this kind and destination
  Token,       \* lease tokens
  None,        \* SQL NULL, and "no row" in a relay
  Priority,    \* the priority of each message
  BatchSize,   \* LeaseConfig::batch_size
  SqlAccepted  \* PostgreSQL parses the text of the statements in lease/storage.rs

ASSUME OutboxAssumption ==
  /\ None \notin Token
  /\ None \notin Msg
  /\ Priority \in [Msg -> 0..255]
  /\ BatchSize \in 1..1000
  /\ SqlAccepted \in BOOLEAN

VARIABLES
  txn,        \* per producer, the rows its open transaction has inserted
  rows,       \* committed rows
  older,      \* <<m, n>>: m sorts before n by created_at, id
  due,        \* rows whose available_at has passed
  token,      \* lease_token per row
  expired,    \* leased rows whose leased_until has passed
  failed,     \* rows with last_failure_kind = 'publish_failed'
  published,  \* rows with published_at set
  pc,         \* where each relay loop stands
  held,       \* the token of the batch a relay works on
  todo,       \* the leased rows a relay has not settled yet
  cur,        \* the row a relay has published, or failed to publish, last
  shutdown,   \* relays whose shutdown future has resolved
  accepted,   \* messages the broker has accepted at least once
  repeated,   \* messages the broker has accepted more than once
  disturbed   \* history: rows that met a fault which may cause a duplicate

rowVars   == <<txn, rows, older, due, token, expired, failed, published>>
leaseVars == <<token, expired, failed, published>>
relayVars == <<pc, held, todo, cur>>
brokerVars == <<accepted, repeated>>
vars == <<txn, rows, older, due, token, expired, failed, published,
          pc, held, todo, cur, shutdown, accepted, repeated, disturbed>>

TypeOK ==
  /\ txn \in [Producer -> SUBSET Msg]
  /\ rows \subseteq Msg
  /\ older \subseteq Msg \X Msg
  /\ due \subseteq Msg
  /\ token \in [Msg -> Token \cup {None}]
  /\ expired \subseteq Msg
  /\ failed \subseteq Msg
  /\ published \subseteq Msg
  /\ pc \in [Relay -> {"stopped", "idle", "publish", "acknowledge", "retry"}]
  /\ held \in [Relay -> Token \cup {None}]
  /\ todo \in [Relay -> SUBSET Msg]
  /\ cur \in [Relay -> Msg \cup {None}]
  /\ shutdown \subseteq Relay
  /\ accepted \subseteq Msg
  /\ repeated \subseteq Msg
  /\ disturbed \subseteq Msg

Init ==
  /\ txn = [p \in Producer |-> {}]
  /\ rows = {} /\ older = {} /\ due = {}
  /\ token = [m \in Msg |-> None]
  /\ expired = {} /\ failed = {} /\ published = {}
  /\ pc = [r \in Relay |-> "stopped"]
  /\ held = [r \in Relay |-> None]
  /\ todo = [r \in Relay |-> {}]
  /\ cur = [r \in Relay |-> None]
  /\ shutdown = {}
  /\ accepted = {} /\ repeated = {} /\ disturbed = {}

-----------------------------------------------------------------------------
(* Staging, inside the application's transaction.                          *)

Staged == UNION {txn[p] : p \in Producer}

\* stage and stage_after: INSERT ... ON CONFLICT DO NOTHING.  The insert of a
\* key that another open transaction has inserted waits for that transaction;
\* a key that is already present changes nothing (AlreadyPresent, a stuttering
\* step).  A delayed row is not due yet.
Stage(p, m, delayed) ==
  /\ m \notin rows \cup Staged
  /\ txn' = [txn EXCEPT ![p] = @ \cup {m}]
  /\ older' = older \cup ((rows \cup Staged) \X {m})
  /\ due' = IF delayed THEN due ELSE due \cup {m}
  /\ UNCHANGED <<rows, leaseVars, relayVars, shutdown, brokerVars, disturbed>>

Commit(p) ==
  /\ txn[p] # {}
  /\ rows' = rows \cup txn[p]
  /\ txn' = [txn EXCEPT ![p] = {}]
  /\ UNCHANGED <<older, due, leaseVars, relayVars, shutdown, brokerVars, disturbed>>

Rollback(p) ==
  /\ txn[p] # {}
  /\ txn' = [txn EXCEPT ![p] = {}]
  /\ older' = {pair \in older : pair[1] \notin txn[p] /\ pair[2] \notin txn[p]}
  /\ due' = due \ txn[p]
  /\ UNCHANGED <<rows, leaseVars, relayVars, shutdown, brokerVars, disturbed>>

-----------------------------------------------------------------------------
(* The database clock.                                                     *)

Due(m) ==
  /\ m \in (rows \cup Staged) \ due
  /\ due' = due \cup {m}
  /\ UNCHANGED <<txn, rows, older, leaseVars, relayVars, shutdown, brokerVars, disturbed>>

\* Rows that some relay still works on under the row's current lease.
LeasedBy(r) == {m \in todo[r] : token[m] = held[r]}

\* A lease that runs out under a working relay lets another relay publish the
\* row as well.
LeaseExpires(m) ==
  /\ token[m] # None
  /\ m \notin expired
  /\ expired' = expired \cup {m}
  /\ disturbed' = IF \E r \in Relay : m \in LeasedBy(r)
                  THEN disturbed \cup {m} ELSE disturbed
  /\ UNCHANGED <<txn, rows, older, due, token, failed, published,
                 relayVars, shutdown, brokerVars>>

-----------------------------------------------------------------------------
(* The lease statement.                                                    *)

\* Mutant of Eligible: a running lease does not keep others away.
EligibleLeased == {m \in rows \ published : m \in due}

\* Mutant of Eligible: an expired lease is not taken over.
EligibleUnleased == {m \in rows \ published : m \in due /\ token[m] = None}

Eligible ==
  {m \in rows \ published : m \in due /\ (token[m] = None \/ m \in expired)}

\* ORDER BY priority DESC, created_at, id
Precedes(m, n) ==
  \/ Priority[m] > Priority[n]
  \/ Priority[m] = Priority[n] /\ <<m, n>> \in older

First(m, S) == m \in S /\ \A n \in S \ {m} : Precedes(m, n)

\* Mutant of Owns: the lease token is not compared.
OwnsAny(r, m) == m \notin published

\* The WHERE of acknowledge and retry: id, lease_token and published_at IS NULL.
\* The expiry of the lease is not looked at.
Owns(r, m) == token[m] = held[r] /\ m \notin published

\* Rows that the settling UPDATE of another relay may hold locked meanwhile.
Locked(r) ==
  {m \in Msg : \E q \in Relay \ {r} :
     pc[q] \in {"acknowledge", "retry"} /\ cur[q] = m /\ Owns(q, m)}

\* FOR UPDATE SKIP LOCKED LIMIT BatchSize: the first rows that are not locked.
Claims(r) ==
  {S \in SUBSET Eligible :
     \E locked \in SUBSET Locked(r) :
       LET open == Eligible \ locked IN
       /\ S \subseteq open
       /\ \A m \in S, n \in open \ S : Precedes(m, n)
       /\ Cardinality(S) <= BatchSize
       /\ S = open \/ Cardinality(S) = BatchSize}

\* Mutant of Fresh: a token is used for more than one batch.
FreshNot(t) == t \in Token

Fresh(t) == /\ \A m \in Msg : token[m] # t
            /\ \A r \in Relay : held[r] # t

\* One new token for the whole batch.
Claim(S, t) ==
  /\ token' = [m \in Msg |-> IF m \in S THEN t ELSE token[m]]
  /\ expired' = expired \ S

-----------------------------------------------------------------------------
(* The relay loop: run_until and relay_once.                               *)

\* The loop returns, with or without an error, and forgets its batch.
EndLoop(r) ==
  /\ pc' = [pc EXCEPT ![r] = "stopped"]
  /\ held' = [held EXCEPT ![r] = None]
  /\ todo' = [todo EXCEPT ![r] = {}]
  /\ cur' = [cur EXCEPT ![r] = None]

\* The application, or its supervisor after an error, runs the loop (again).
Start(r) ==
  /\ pc[r] = "stopped"
  /\ pc' = [pc EXCEPT ![r] = "idle"]
  /\ shutdown' = shutdown \ {r}
  /\ UNCHANGED <<rowVars, held, todo, cur, brokerVars, disturbed>>

SignalShutdown(r) ==
  /\ pc[r] # "stopped"
  /\ r \notin shutdown
  /\ shutdown' = shutdown \cup {r}
  /\ UNCHANGED <<rowVars, relayVars, brokerVars, disturbed>>

\* The shutdown branch is biased: it wins before a pass and while idle.
Stop(r) ==
  /\ pc[r] = "idle"
  /\ r \in shutdown
  /\ EndLoop(r)
  /\ UNCHANGED <<rowVars, shutdown, brokerVars, disturbed>>

\* A pass that claims nothing sleeps and polls again, a stuttering step.
Lease(r) ==
  /\ SqlAccepted
  /\ pc[r] = "idle"
  /\ r \notin shutdown
  /\ \E S \in Claims(r) \ {{}}, t \in {t \in Token : Fresh(t)} :
       /\ Claim(S, t)
       /\ held' = [held EXCEPT ![r] = t]
       /\ todo' = [todo EXCEPT ![r] = S]
  /\ pc' = [pc EXCEPT ![r] = "publish"]
  /\ UNCHANGED <<txn, rows, older, due, failed, published, cur, shutdown,
                 brokerVars, disturbed>>

\* The lease statement fails, or its answer is lost after the rows were leased.
LeaseError(r) ==
  /\ pc[r] = "idle"
  /\ r \notin shutdown
  /\ \/ UNCHANGED <<token, expired>>
     \/ /\ SqlAccepted
        /\ \E S \in Claims(r), t \in {t \in Token : Fresh(t)} : Claim(S, t)
  /\ EndLoop(r)
  /\ UNCHANGED <<txn, rows, older, due, failed, published, shutdown,
                 brokerVars, disturbed>>

Accept(m) ==
  /\ accepted' = accepted \cup {m}
  /\ repeated' = IF m \in accepted THEN repeated \cup {m} ELSE repeated

PublishOk(r, m) ==
  /\ pc[r] = "publish"
  /\ First(m, todo[r])
  /\ Accept(m)
  /\ cur' = [cur EXCEPT ![r] = m]
  /\ pc' = [pc EXCEPT ![r] = "acknowledge"]
  /\ UNCHANGED <<rowVars, held, todo, shutdown, disturbed>>

\* The publisher reports an error; the broker may still have the message.
PublishError(r, m) ==
  /\ pc[r] = "publish"
  /\ First(m, todo[r])
  /\ \/ UNCHANGED <<brokerVars, disturbed>>
     \/ Accept(m) /\ disturbed' = disturbed \cup {m}
  /\ cur' = [cur EXCEPT ![r] = m]
  /\ pc' = [pc EXCEPT ![r] = "retry"]
  /\ UNCHANGED <<rowVars, held, todo, shutdown>>

\* Mutant of SetPublished: the lease columns are not cleared.
SetPublishedKeepsLease(m) ==
  /\ published' = published \cup {m}
  /\ failed' = failed \ {m}
  /\ UNCHANGED <<token, expired>>

SetPublished(m) ==
  /\ published' = published \cup {m}
  /\ token' = [token EXCEPT ![m] = None]
  /\ expired' = expired \ {m}
  /\ failed' = failed \ {m}

\* Mutant of Acknowledge: the first confirmation settles the whole batch.
AcknowledgeBatch(r) ==
  /\ pc[r] = "acknowledge"
  /\ published' = published \cup {m \in todo[r] : Owns(r, m)}
  /\ token' = [m \in Msg |-> IF m \in todo[r] /\ Owns(r, m) THEN None ELSE token[m]]
  /\ expired' = expired \ todo[r]
  /\ failed' = failed \ todo[r]
  /\ todo' = [todo EXCEPT ![r] = {}]
  /\ cur' = [cur EXCEPT ![r] = None]
  /\ pc' = [pc EXCEPT ![r] = "idle"]
  /\ held' = [held EXCEPT ![r] = None]
  /\ UNCHANGED <<txn, rows, older, due, shutdown, brokerVars, disturbed>>

\* Applied or Lost, the loop goes on with the next row of the batch.
Acknowledge(r) ==
  /\ pc[r] = "acknowledge"
  /\ \/ Owns(r, cur[r]) /\ SetPublished(cur[r])
     \/ ~Owns(r, cur[r]) /\ UNCHANGED leaseVars
  /\ todo' = [todo EXCEPT ![r] = @ \ {cur[r]}]
  /\ cur' = [cur EXCEPT ![r] = None]
  /\ IF todo[r] = {cur[r]}
     THEN /\ pc' = [pc EXCEPT ![r] = "idle"]
          /\ held' = [held EXCEPT ![r] = None]
     ELSE /\ pc' = [pc EXCEPT ![r] = "publish"]
          /\ UNCHANGED held
  /\ UNCHANGED <<txn, rows, older, due, shutdown, brokerVars, disturbed>>

\* The statement fails, or its answer is lost after it was applied.
AcknowledgeError(r) ==
  /\ pc[r] = "acknowledge"
  /\ \/ Owns(r, cur[r]) /\ SetPublished(cur[r])
     \/ UNCHANGED leaseVars
  /\ disturbed' = disturbed \cup {cur[r]}
  /\ EndLoop(r)
  /\ UNCHANGED <<txn, rows, older, due, shutdown, brokerVars>>

Release(m) ==
  /\ due' = due \ {m}
  /\ token' = [token EXCEPT ![m] = None]
  /\ expired' = expired \ {m}
  /\ failed' = failed \cup {m}

\* Retry settles the failed row and ends the pass and the loop with the
\* publisher's error (or with the database's, when the statement fails after
\* or before it was applied): the rest of the batch stays leased.
Retry(r) ==
  /\ pc[r] = "retry"
  /\ \/ Owns(r, cur[r]) /\ Release(cur[r])
     \/ UNCHANGED <<due, token, expired, failed>>
  /\ EndLoop(r)
  /\ UNCHANGED <<txn, rows, older, published, shutdown, brokerVars, disturbed>>

\* The process dies, or the relay future is dropped.
Crash(r) ==
  /\ pc[r] # "stopped"
  /\ EndLoop(r)
  /\ disturbed' = IF pc[r] = "acknowledge" THEN disturbed \cup {cur[r]} ELSE disturbed
  /\ UNCHANGED <<rowVars, shutdown, brokerVars>>

-----------------------------------------------------------------------------

Next ==
  \/ \E p \in Producer, m \in Msg, delayed \in BOOLEAN : Stage(p, m, delayed)
  \/ \E p \in Producer : Commit(p) \/ Rollback(p)
  \/ \E m \in Msg : Due(m) \/ LeaseExpires(m)
  \/ \E r \in Relay : Start(r) \/ SignalShutdown(r) \/ Stop(r)
  \/ \E r \in Relay : Lease(r) \/ LeaseError(r)
  \/ \E r \in Relay, m \in Msg : PublishOk(r, m) \/ PublishError(r, m)
  \/ \E r \in Relay : Acknowledge(r) \/ AcknowledgeError(r) \/ Retry(r) \/ Crash(r)

Spec == Init /\ [][Next]_vars

\* What the code's scheduling and a deployment give: the clock advances, a
\* supervisor restarts the loop, the loop takes its next step, and a step that
\* is attempted again and again (a poll, a publication, a confirmation) does
\* not fail every time.
Fairness ==
  /\ \A m \in Msg : WF_vars(Due(m)) /\ WF_vars(LeaseExpires(m))
  /\ \A r \in Relay :
       /\ WF_vars(Start(r)) /\ WF_vars(Stop(r))
       /\ WF_vars(Acknowledge(r)) /\ WF_vars(Retry(r))
       /\ SF_vars(Lease(r))
  /\ \A r \in Relay, m \in Msg :
       /\ SF_vars(PublishOk(r, m))
       /\ SF_vars(Acknowledge(r) /\ cur[r] = m /\ Owns(r, m))

FairSpec == Spec /\ Fairness

-----------------------------------------------------------------------------
(* Properties.                                                             *)

\* Only what a committed transaction staged reaches the broker: a publisher
\* never sees a row of an open or rolled back transaction (stage, lease).
OnlyCommittedIsSent == accepted \subseteq rows

\* A row is confirmed only after the broker accepted its message, whatever
\* crashes, expiries and lost answers come between (relay_once_inner).
ConfirmedWasAccepted == published \subseteq accepted

\* A message reaches the broker twice only after a fault its row met: a crash
\* or a lost answer between publication and confirmation, an ambiguous publish
\* error, or a lease that ran out under the relay.  Without one, competing
\* relays and restarts never duplicate a message (lease, acknowledge, retry).
RepeatedOnlyAfterFault == repeated \subseteq disturbed

\* Two relays never both own a row, although an expired relay goes on working
\* on its batch: at most one of them can still settle it.
OneOwner ==
  \A r, q \in Relay, m \in Msg :
    /\ m \in todo[r] /\ Owns(r, m)
    /\ m \in todo[q] /\ Owns(q, m)
    => r = q

\* A confirmed row is final: it is never leased, retried or confirmed again.
ConfirmedIsFinal ==
  [][\A m \in published : /\ m \in published'
                          /\ token'[m] = None
                          /\ m \notin failed']_vars

\* A lease leaves a row only when it has expired or when the relay that holds
\* its token settles that very row: a late relay never disturbs the next owner.
LeaseIsRespected ==
  [][\A m \in Msg :
       token[m] # None /\ token'[m] # token[m] =>
         \/ m \in expired
         \/ \E r \in Relay : /\ held[r] = token[m]
                             /\ cur[r] = m
                             /\ pc[r] \in {"acknowledge", "retry"}]_vars

\* Every committed message is eventually confirmed, although relays crash,
\* shut down, lose leases and fail to publish in between.
CommittedIsPublished ==
  \A m \in Msg : m \in rows ~> m \in published

\* The outbox implements at-least-once delivery of committed messages; with
\* the fairness above it also delivers and retires every one of them.
Promise == INSTANCE AtLeastOnce
             WITH committed <- rows, sent <- accepted, retired <- published

ImplementsAtLeastOnce == Promise!ASpec
ImplementsFairAtLeastOnce == Promise!AFairSpec
=============================================================================
