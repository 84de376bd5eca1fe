----------------------------- MODULE AiPipeline -----------------------------
(* The completion path: metered calls to a provider, tool runs under approval *)
(* and audit, and the response cache.                                       *)
EXTENDS Naturals, Sequences, FiniteSets, TLC

-----------------------------------------------------------------------------
(* The eight entry points of AiPipeline (rustee-ai, pipeline and usage), the *)
(* PostgreSQL usage ledger behind the metered ones (rustee-ai-audit-sqlx)    *)
(* and the web response that carries a stream to a browser (rustee-ai-web).  *)
(*                                                                           *)
(* A method is the list of stages that a request passes on its way to the    *)
(* provider and the list that every provider event passes on its way back: a *)
(* completion is a single Completed event.  Each stage that awaits is a step *)
(* of its own; the caller may drop the future at any of them.                *)

CONSTANTS
  Client,           \* calls of the pipeline, one each
  Subject,          \* [Client -> subject of the execution context]
  ChatRequest,      \* requests: [model, chars, tools, results]
  MaxInput,         \* AiPolicy limits
  MaxTools,
  MaxToolResults,
  UsageKey,         \* (tenant, idempotency key) pairs
  Usage,            \* token counts a provider reports
  MaxI64            \* largest count the ledger's BIGINT columns hold

VARIABLES
  usageRows,        \* rustee_ai_usage_ledger: [UsageKey -> row or NoUsageRow]
  providerCalls,    \* per key: the clients whose metered request reached the provider
  pipe,             \* [Client -> state of its call]
  reconciling       \* the operator's open reconciliation: a key or "none"

pipelineVars == <<usageRows, providerCalls, pipe, reconciling>>

-----------------------------------------------------------------------------
(* The entry points.                                                         *)
Method(streams, metered, request, event) ==
  [streams |-> streams, metered |-> metered, request |-> request, event |-> event]

Complete == Method(FALSE, FALSE, <<"policy">>, <<>>)
StreamEvents == Method(TRUE, FALSE, <<"policy">>, <<>>)
CompleteWithAdvisor == Method(FALSE, FALSE, <<"before", "policy">>, <<"advise">>)
StreamWithAdvisor == Method(TRUE, FALSE, <<"before", "policy">>, <<"advise">>)

CompleteWithUsageLedger == Method(FALSE, TRUE, <<"policy", "match", "reserve">>, <<"settle">>)
StreamWithUsageLedger == Method(TRUE, TRUE, <<"policy", "match", "reserve">>, <<"settle">>)
CompleteWithAdvisorAndUsageLedger ==
  Method(FALSE, TRUE, <<"before", "policy", "measure", "reserve">>, <<"settle", "advise">>)

StreamWithAdvisorAndUsageLedger ==
  Method(TRUE, TRUE, <<"before", "policy", "measure", "reserve">>, <<"settle", "advise">>)

Methods == {Complete, StreamEvents, CompleteWithAdvisor, StreamWithAdvisor,
            CompleteWithUsageLedger, StreamWithUsageLedger,
            CompleteWithAdvisorAndUsageLedger, StreamWithAdvisorAndUsageLedger}

-----------------------------------------------------------------------------
NoUsageRow == [status |-> "none"]
Unmetered == [who |-> "none"]
NotStarted == [phase |-> "idle"]

(* validate_and_measure_input, of complete and stream alike.                 *)
WithinPolicy(r) == r.tools <= MaxTools /\ r.results <= MaxToolResults /\ r.chars <= MaxInput

(* AiUsageReservation: the identity the ledger keeps with the key.           *)
Reservation(c, r) == [who |-> Subject[c], request |-> r]

ReservationRow(r) == [status |-> "pending", reservation |-> r, usage |-> 0]

(* The outcome that the call's span records, and the last frame of its       *)
(* stream.                                                                   *)
Finish(c, outcome, frame) ==
  pipe' = [pipe EXCEPT ![c] =
    [phase |-> "ended", outcome |-> outcome, frame |-> frame, key |-> pipe[c].key,
     metered |-> pipe[c].method.metered, reservation |-> pipe[c].reservation,
     usage |-> pipe[c].usage]]

Ends(c, outcome) == Finish(c, outcome, pipe[c].frame)
Passes(c) == pipe' = [pipe EXCEPT ![c].todo = Tail(pipe[c].todo)]

At(c, phase, stage) ==
  /\ pipe[c].phase = phase
  /\ pipe[c].todo # <<>> /\ Head(pipe[c].todo) = stage

(* A call: the reservation of a method without an advisor is the caller's,   *)
(* and may be of another request.                                            *)
StartCall(c, m, k, r, reserved) ==
  /\ pipe[c].phase = "idle"
  /\ pipe' = [pipe EXCEPT ![c] =
       [phase |-> "request", todo |-> m.request, method |-> m, key |-> k, request |-> r,
        reservation |-> IF m.metered THEN Reservation(c, reserved) ELSE Unmetered,
        event |-> "none", usage |-> 0, frame |-> "none"]]
  /\ UNCHANGED <<usageRows, providerCalls, reconciling>>

(* before_request: the advisor admits the request, rewrites it or refuses.   *)
BeforeRequest(c, r) ==
  /\ At(c, "request", "before")
  /\ \/ pipe' = [pipe EXCEPT ![c].request = r, ![c].todo = Tail(pipe[c].todo)]
     \/ Ends(c, "advisor_failed")
  /\ UNCHANGED <<usageRows, providerCalls, reconciling>>

ValidatePolicy(c) ==
  /\ At(c, "request", "policy")
  /\ IF WithinPolicy(pipe[c].request) THEN Passes(c) ELSE Ends(c, "policy_rejected")
  /\ UNCHANGED <<usageRows, providerCalls, reconciling>>

EnsureReservationMatches(c) ==
  /\ At(c, "request", "match")
  /\ IF pipe[c].reservation.request = pipe[c].request
     THEN Passes(c)
     ELSE Ends(c, "policy_rejected")
  /\ UNCHANGED <<usageRows, providerCalls, reconciling>>

(* AiUsageReservation::for_request on the request the advisor left.          *)
ReserveForRequest(c) ==
  /\ At(c, "request", "measure")
  /\ pipe' = [pipe EXCEPT ![c].reservation = Reservation(c, pipe[c].request),
                          ![c].todo = Tail(pipe[c].todo)]
  /\ UNCHANGED <<usageRows, providerCalls, reconciling>>

-----------------------------------------------------------------------------
(* The ledger.                                                               *)

(* reserve_usage that takes a row left by an earlier attempt as its own.     *)
ReserveAgain(c) ==
  /\ At(c, "request", "reserve")
  /\ \/ /\ usageRows' = IF usageRows[pipe[c].key] = NoUsageRow
                        THEN [usageRows EXCEPT ![pipe[c].key] = ReservationRow(pipe[c].reservation)]
                        ELSE usageRows
        /\ Passes(c)
     \/ Ends(c, "usage_reservation_failed") /\ UNCHANGED usageRows
  /\ UNCHANGED <<providerCalls, reconciling>>

(* reserve_usage: INSERT .. ON CONFLICT DO NOTHING.  The statement may fail, *)
(* before or after PostgreSQL has applied it.                                *)
ReserveUsage(c) ==
  /\ At(c, "request", "reserve")
  /\ LET inserted == [usageRows EXCEPT ![pipe[c].key] = ReservationRow(pipe[c].reservation)]
         free == usageRows[pipe[c].key] = NoUsageRow
     IN \/ free /\ usageRows' = inserted /\ Passes(c)
        \/ /\ ~free
           /\ pipe' = [pipe EXCEPT ![c].todo = <<"classify">> \o Tail(pipe[c].todo)]
           /\ UNCHANGED usageRows
        \/ /\ Ends(c, "usage_reservation_failed")
           /\ \/ UNCHANGED usageRows
              \/ free /\ usageRows' = inserted
  /\ UNCHANGED <<providerCalls, reconciling>>

(* classify_existing_reservation: a second statement.  Its row is there,     *)
(* since no statement deletes one.                                           *)
ClassifyReservation(c) ==
  /\ At(c, "request", "classify")
  /\ Ends(c, IF usageRows[pipe[c].key].reservation = pipe[c].reservation
             THEN "usage_reconciliation_required" ELSE "usage_reservation_failed")
  /\ UNCHANGED <<usageRows, providerCalls, reconciling>>

(* The condition of the settlement's UPDATE.                                 *)
Settles(row, reservation, u) ==
  /\ row.status # "none"
  /\ row.reservation = reservation
  /\ row.status = "pending" \/ row.usage = u

SettledRow(row, u) == [row EXCEPT !.status = "completed", !.usage = u]

(* record_terminal_usage: TRUE when it answers Ok.  A count over the column's*)
(* width is refused before the statement; a statement that matched no row is *)
(* classified, and that row already holds other counts; the statement may    *)
(* fail before or after PostgreSQL has applied it.                           *)
RecordUsage(k, reservation, u, ok) ==
  LET fits == u <= MaxI64 /\ Settles(usageRows[k], reservation, u)
      settled == [usageRows EXCEPT ![k] = SettledRow(usageRows[k], u)]
  IN \/ ok /\ fits /\ usageRows' = settled
     \/ ~ok /\ UNCHANGED usageRows
     \/ ~ok /\ fits /\ usageRows' = settled

(* The operator reads pending() and settles a reservation from the           *)
(* provider's records; its call may still be running.                        *)
ReadPending(k) ==
  /\ reconciling = "none"
  /\ usageRows[k].status = "pending"
  /\ reconciling' = k
  /\ UNCHANGED <<usageRows, providerCalls, pipe>>

Reconcile(u) ==
  /\ reconciling # "none"
  /\ \E ok \in BOOLEAN : RecordUsage(reconciling, usageRows[reconciling].reservation, u, ok)
  /\ reconciling' = "none"
  /\ UNCHANGED <<providerCalls, pipe>>

-----------------------------------------------------------------------------
(* The provider and the way back.                                            *)

CallProvider(c) ==
  /\ pipe[c].phase = "request" /\ pipe[c].todo = <<>>
  /\ pipe' = [pipe EXCEPT ![c].phase = "provider"]
  /\ providerCalls' = IF pipe[c].method.metered
                      THEN [providerCalls EXCEPT ![pipe[c].key] = @ \cup {c}]
                      ELSE providerCalls
  /\ UNCHANGED <<usageRows, reconciling>>

ProviderFails(c) ==
  /\ pipe[c].phase = "provider"
  /\ Ends(c, "provider_failed")
  /\ UNCHANGED <<usageRows, providerCalls, reconciling>>

StreamOpens(c) ==
  /\ pipe[c].phase = "provider" /\ pipe[c].method.streams
  /\ pipe' = [pipe EXCEPT ![c].phase = "open"]
  /\ UNCHANGED <<usageRows, providerCalls, reconciling>>

(* An event of the provider: a delta, or the completion with its usage.      *)
ProviderEvent(c, event, u) ==
  /\ \/ pipe[c].phase = "open"
     \/ pipe[c].phase = "provider" /\ ~pipe[c].method.streams /\ event = "completed"
  /\ pipe' = [pipe EXCEPT ![c].phase = "event", ![c].todo = pipe[c].method.event,
                          ![c].event = event, ![c].usage = u]
  /\ UNCHANGED <<usageRows, providerCalls, reconciling>>

(* The provider's stream fails, or ends without a terminal event.            *)
ProviderStreamFails(c) ==
  /\ pipe[c].phase = "open"
  /\ Finish(c, "stream_failed", "error") \/ Ends(c, "opened")
  /\ UNCHANGED <<usageRows, providerCalls, reconciling>>

(* A failure on the way back: a completion keeps its response in the error,  *)
(* a stream ends with an error event.                                        *)
EventFails(c, outcome) ==
  IF pipe[c].method.streams THEN Finish(c, "stream_failed", "error") ELSE Ends(c, outcome)

(* settle_usage_stream, and the settlement of a completion: the event passes *)
(* on only when the ledger has taken its usage.                              *)
SettleUsage(c) ==
  /\ At(c, "event", "settle")
  /\ \/ pipe[c].event = "delta" /\ Passes(c) /\ UNCHANGED usageRows
     \/ /\ pipe[c].event = "completed"
        /\ \E ok \in BOOLEAN :
             /\ RecordUsage(pipe[c].key, pipe[c].reservation, pipe[c].usage, ok)
             /\ IF ok THEN Passes(c) ELSE EventFails(c, "usage_settlement_failed")
  /\ UNCHANGED <<providerCalls, reconciling>>

(* after_response and on_stream_event: the advisor keeps the kind of event.  *)
Advise(c) ==
  /\ At(c, "event", "advise")
  /\ Passes(c) \/ EventFails(c, "advisor_failed")
  /\ UNCHANGED <<usageRows, providerCalls, reconciling>>

(* The event leaves the pipeline; a stream's goes through stream_response,   *)
(* where a frame over the limit becomes the terminal error frame.  A         *)
(* terminal event or frame ends the stream, whatever the provider has left.  *)
DeliverEvent(c) ==
  /\ pipe[c].phase = "event" /\ pipe[c].todo = <<>>
  /\ \/ pipe[c].event = "completed" /\ Finish(c, "succeeded", "completed")
     \/ /\ pipe[c].event = "delta"
        /\ pipe' = [pipe EXCEPT ![c].phase = "open", ![c].frame = "delta", ![c].event = "none"]
     \/ /\ pipe[c].method.streams
        /\ Finish(c, IF pipe[c].event = "completed" THEN "succeeded" ELSE "opened", "error")
  /\ UNCHANGED <<usageRows, providerCalls, reconciling>>

(* The future or the stream is dropped by its caller, or the process dies:   *)
(* the span keeps the outcome it has, which is that of an open stream or     *)
(* none.                                                                     *)
DropCall(c) ==
  /\ pipe[c].phase \in {"request", "provider", "open", "event"}
  /\ Ends(c, IF pipe[c].method.streams /\ pipe[c].phase \in {"open", "event"}
             THEN "opened" ELSE "none")
  /\ UNCHANGED <<usageRows, providerCalls, reconciling>>

-----------------------------------------------------------------------------
PipelineInit ==
  /\ usageRows = [k \in UsageKey |-> NoUsageRow]
  /\ providerCalls = [k \in UsageKey |-> {}]
  /\ pipe = [c \in Client |-> NotStarted]
  /\ reconciling = "none"

PipelineNext ==
  \/ \E c \in Client :
       \/ \E m \in Methods, k \in UsageKey, r, reserved \in ChatRequest :
            /\ "match" \in {m.request[i] : i \in DOMAIN m.request} \/ reserved = r
            /\ StartCall(c, m, k, r, reserved)
       \/ \E r \in ChatRequest : BeforeRequest(c, r)
       \/ ValidatePolicy(c) \/ EnsureReservationMatches(c) \/ ReserveForRequest(c)
       \/ ReserveUsage(c) \/ ClassifyReservation(c) \/ CallProvider(c)
       \/ ProviderFails(c) \/ StreamOpens(c) \/ ProviderStreamFails(c)
       \/ \E u \in Usage : ProviderEvent(c, "completed", u)
       \/ ProviderEvent(c, "delta", 0)
       \/ SettleUsage(c) \/ Advise(c) \/ DeliverEvent(c) \/ DropCall(c)
  \/ \E k \in UsageKey : ReadPending(k)
  \/ \E u \in Usage : Reconcile(u)

-----------------------------------------------------------------------------
PipelineTypeOK ==
  /\ usageRows \in [UsageKey -> {NoUsageRow} \cup
       [status : {"pending", "completed"}, usage : Usage \cup {0},
        reservation : [who : {Subject[c] : c \in Client}, request : ChatRequest]]]
  /\ providerCalls \in [UsageKey -> SUBSET Client]
  /\ \A c \in Client : pipe[c] = NotStarted \/
       /\ pipe[c].phase \in {"request", "provider", "open", "event", "ended"}
       /\ pipe[c].frame \in {"none", "delta", "completed", "error"}
  /\ reconciling \in UsageKey \cup {"none"}

(* Of the metered calls that share a tenant and an idempotency key, at most  *)
(* one ever reaches the provider, whatever fails between them                *)
(* (reserve_usage and classify_existing_reservation).                        *)
ProviderCalledOnce == \A k \in UsageKey : Cardinality(providerCalls[k]) <= 1

(* A metered call is at the provider only while the ledger has a row with    *)
(* its reservation: a call that is then lost is left to reconcile.           *)
SpendIsOnTheLedger ==
  \A k \in UsageKey, c \in Client :
    c \in providerCalls[k] => /\ usageRows[k] # NoUsageRow
                              /\ usageRows[k].reservation = pipe[c].reservation

(* A metered call counts as succeeded, for its caller, its stream and its    *)
(* span, only once the ledger holds exactly the usage it reports.            *)
CompletedIsSettled ==
  \A c \in Client :
    (pipe[c].phase = "ended" /\ pipe[c].metered
       /\ (pipe[c].frame = "completed" \/ pipe[c].outcome = "succeeded")) =>
      /\ usageRows[pipe[c].key].status = "completed"
      /\ usageRows[pipe[c].key].usage = pipe[c].usage

(* A settled row is never settled again with other counts, by a late stream  *)
(* or by the operator (record_terminal_usage).                               *)
SettlementIsFinal ==
  [][\A k \in UsageKey : usageRows[k].status = "completed" => usageRows'[k] = usageRows[k]]_pipelineVars

-----------------------------------------------------------------------------
(* Tool calls a model asked for: ToolRegistry's three ways to run one        *)
(* (rustee-ai, tools) and the PostgreSQL audit of approvals and outcomes     *)
(* (rustee-ai-audit-sqlx, audit).  Handlers have effects outside, so what    *)
(* matters is what the audit says when statements fail, futures are dropped  *)
(* and the same idempotency key comes back.                                  *)

CONSTANTS
  Runner,           \* tool runs, one each
  ToolName,         \* names a call may ask for
  Risk,             \* risks a tool is registered with
  CallId,           \* provider call ids: with the name and the risk, the audited identity
  ToolKey           \* (tenant, idempotency key) pairs

VARIABLES
  registry,         \* [ToolName -> risk or "unregistered"]
  toolAudit,        \* rustee_ai_tool_audit: [ToolKey -> row or NoAudit]
  effects,          \* handler invocations that ended: <<key, identity, outcome>>
  toolRun           \* [Runner -> state of its run]

toolVars == <<registry, toolAudit, effects, toolRun>>

NoAudit == [call |-> "none"]
NoRun == [step |-> "idle", audited |-> "none"]

ExecutePlan == <<"authorize", "handler">>
ApprovalAuditPlan == <<"authorize", "approval", "handler">>

ExecutionAuditPlan == <<"authorize", "approval", "handler", "outcome">>

Plan(audited) == CASE audited = "no" -> ExecutePlan
                   [] audited = "approval" -> ApprovalAuditPlan
                   [] audited = "execution" -> ExecutionAuditPlan

(* ToolApprovalAuditEvent::from_call.                                        *)
Identity(i) == [call |-> toolRun[i].call, tool |-> toolRun[i].tool, risk |-> toolRun[i].risk]

AtTool(i, stage) == toolRun[i].step = "running" /\ Head(toolRun[i].todo) = stage
Advances(i) ==
  toolRun' = [toolRun EXCEPT ![i].todo = Tail(toolRun[i].todo),
                             ![i].step = IF Len(toolRun[i].todo) = 1 THEN "returned" ELSE @]
Aborts(i, why) == toolRun' = [toolRun EXCEPT ![i].step = why]

(* register: the first tool of a name stays.  The registry is mutable only   *)
(* before it is shared with the runs.                                        *)
RegisterTool(t, risk) ==
  /\ \A i \in Runner : toolRun[i] = NoRun
  /\ registry[t] = "unregistered"
  /\ registry' = [registry EXCEPT ![t] = risk]
  /\ UNCHANGED <<toolAudit, effects, toolRun>>

Invoke(i, audited, k, call, t) ==
  /\ toolRun[i] = NoRun
  /\ toolRun' = [toolRun EXCEPT ![i] =
       [step |-> "running", audited |-> audited, todo |-> Plan(audited), key |-> k,
        call |-> call, tool |-> t, risk |-> registry[t], outcome |-> "none"]]
  /\ UNCHANGED <<registry, toolAudit, effects>>

(* authorize: an unknown tool, a denial or a failed policy ends the run.     *)
Authorize(i) ==
  /\ AtTool(i, "authorize")
  /\ IF registry[toolRun[i].tool] = "unregistered"
     THEN Aborts(i, "unknown_tool")
     ELSE Advances(i) \/ Aborts(i, "denied") \/ Aborts(i, "approval_failed")
  /\ UNCHANGED <<registry, toolAudit, effects>>

(* record_approval: INSERT .. ON CONFLICT DO NOTHING; a row that is there is *)
(* compared by a second statement.  The statement may fail, before or after  *)
(* PostgreSQL has applied it.                                                *)
RecordApproval(i) ==
  /\ AtTool(i, "approval")
  /\ LET k == toolRun[i].key
         free == toolAudit[k] = NoAudit
         inserted == [toolAudit EXCEPT ![k] = Identity(i) @@ [outcome |-> "none"]]
     IN \/ free /\ toolAudit' = inserted /\ Advances(i)
        \/ /\ ~free /\ UNCHANGED toolAudit
           /\ toolRun' = [toolRun EXCEPT ![i].todo = <<"verify">> \o Tail(toolRun[i].todo)]
        \/ /\ Aborts(i, "approval_audit_failed")
           /\ UNCHANGED toolAudit \/ (free /\ toolAudit' = inserted)
  /\ UNCHANGED <<registry, effects>>

SameIdentity(row, identity) ==
  row.call = identity.call /\ row.tool = identity.tool /\ row.risk = identity.risk

VerifySameApproval(i) ==
  /\ AtTool(i, "verify")
  /\ IF SameIdentity(toolAudit[toolRun[i].key], Identity(i))
     THEN Advances(i)
     ELSE Aborts(i, "approval_audit_failed")
  /\ UNCHANGED <<registry, toolAudit, effects>>

(* TypedTool::execute: arguments that do not decode fail without the         *)
(* handler; a handler that fails, or whose output does not encode, has run.  *)
(* Only the execution-audited run goes on after a failure.                   *)
RunHandler(i, outcome, called) ==
  /\ AtTool(i, "handler")
  /\ outcome = "succeeded" => called
  /\ effects' = IF called THEN effects \cup {<<toolRun[i].key, Identity(i), outcome>>} ELSE effects
  /\ toolRun' = [toolRun EXCEPT
       ![i].outcome = outcome,
       ![i].todo = Tail(toolRun[i].todo),
       ![i].step = IF Len(toolRun[i].todo) > 1 THEN @
                   ELSE IF outcome = "failed" THEN "execution_failed" ELSE "returned"]
  /\ UNCHANGED <<registry, toolAudit>>

(* The condition of the outcome's UPDATE.                                    *)
TakesOutcome(row, identity, o) ==
  row # NoAudit /\ SameIdentity(row, identity) /\ row.outcome \in {"none", o}

(* record_terminal_outcome; classify_terminal_conflict is Ok only for the    *)
(* same outcome, which the UPDATE has matched already.                       *)
StoreOutcome(i, ok) ==
  LET k == toolRun[i].key
      fits == TakesOutcome(toolAudit[k], Identity(i), toolRun[i].outcome)
      stored == [toolAudit EXCEPT ![k].outcome = toolRun[i].outcome]
  IN \/ ok /\ fits /\ toolAudit' = stored
     \/ ~ok /\ UNCHANGED toolAudit
     \/ ~ok /\ fits /\ toolAudit' = stored

RecordOutcome(i) ==
  /\ AtTool(i, "outcome")
  /\ \E ok \in BOOLEAN :
       /\ StoreOutcome(i, ok)
       /\ Aborts(i, CASE ~ok -> "outcome_audit_failed"
                      [] ok /\ toolRun[i].outcome = "failed" -> "execution_failed"
                      [] ok /\ toolRun[i].outcome # "failed" -> "returned")
  /\ UNCHANGED <<registry, effects>>

(* The caller records the event that came back with OutcomeAudit once more.  *)
RetryOutcome(i) ==
  /\ toolRun[i].step = "outcome_audit_failed"
  /\ \E ok \in BOOLEAN : StoreOutcome(i, ok)
  /\ UNCHANGED <<registry, effects, toolRun>>

DropRun(i) ==
  /\ toolRun[i].step = "running"
  /\ Aborts(i, "dropped")
  /\ UNCHANGED <<registry, toolAudit, effects>>

-----------------------------------------------------------------------------
ToolInit ==
  /\ registry = [t \in ToolName |-> "unregistered"]
  /\ toolAudit = [k \in ToolKey |-> NoAudit]
  /\ effects = {}
  /\ toolRun = [i \in Runner |-> NoRun]

ToolNext ==
  \/ \E t \in ToolName, risk \in Risk : RegisterTool(t, risk)
  \/ \E i \in Runner :
       \/ \E a \in {"no", "approval", "execution"}, k \in ToolKey, c \in CallId, t \in ToolName :
            Invoke(i, a, k, c, t)
       \/ Authorize(i) \/ RecordApproval(i) \/ VerifySameApproval(i)
       \/ \E o \in {"succeeded", "failed"}, called \in BOOLEAN : RunHandler(i, o, called)
       \/ RecordOutcome(i) \/ RetryOutcome(i) \/ DropRun(i)

-----------------------------------------------------------------------------
ToolTypeOK ==
  /\ registry \in [ToolName -> Risk \cup {"unregistered"}]
  /\ toolAudit \in [ToolKey -> {NoAudit} \cup
       [call : CallId, tool : ToolName, risk : Risk, outcome : {"none", "succeeded", "failed"}]]
  /\ \A i \in Runner : toolRun[i].step \in
       {"idle", "running", "unknown_tool", "denied", "approval_failed", "approval_audit_failed",
        "returned", "execution_failed", "outcome_audit_failed", "dropped"}

(* An audited handler has run only under an audit row with exactly its       *)
(* identity, so that a run lost afterwards is found by pending()             *)
(* (execute_with_approval_audit, execute_with_execution_audit).              *)
EffectIsAudited ==
  \A i \in Runner :
    (toolRun[i].audited \in {"approval", "execution"} /\ toolRun[i].outcome # "none") =>
      /\ toolAudit[toolRun[i].key] # NoAudit
      /\ SameIdentity(toolAudit[toolRun[i].key], Identity(i))

(* What an execution-audited run answers is what the audit says, for good:   *)
(* a repeated key whose handler ends differently is not answered.            *)
AnswerIsTheAudit ==
  \A i \in Runner :
    (toolRun[i].audited = "execution" /\ toolRun[i].step \in {"returned", "execution_failed"}) =>
      toolAudit[toolRun[i].key].outcome = toolRun[i].outcome

(* A terminal outcome is never replaced (record_terminal_outcome).           *)
OutcomeIsFinal ==
  [][\A k \in ToolKey :
       (toolAudit[k] # NoAudit /\ toolAudit[k].outcome # "none") => toolAudit'[k] = toolAudit[k]]_toolVars

-----------------------------------------------------------------------------
(* Cached completions: AiCachedCompletion over the in-memory cache           *)
(* (rustee-ai-cache) or over Redis (rustee-ai-cache-redis).  Time is counted *)
(* in ticks, TicksPerSecond to the second: Redis keeps whole seconds, the    *)
(* in-memory cache the exact instant.                                        *)

CONSTANTS
  Asker,            \* completions, one each
  CacheKey,         \* scope and fingerprint
  CacheTtl,         \* configured time to live, in ticks
  TicksPerSecond,
  CacheCapacity,    \* entries of the in-memory cache
  CacheHorizon      \* bound on the clock

VARIABLES
  cacheBackend,     \* "memory" or "redis"
  failClosed,       \* AiCacheReadFailurePolicy
  cacheClock,
  entries,          \* [CacheKey -> entry or NoEntry]
  asker             \* [Asker -> state of its completion]

cacheVars == <<cacheBackend, failClosed, cacheClock, entries, asker>>

NoEntry == [for |-> "none"]
NotAsked == [step |-> "idle"]

(* ttl_seconds: whole seconds, rounded up.                                   *)
RedisTtl == ((CacheTtl + TicksPerSecond - 1) \div TicksPerSecond) * TicksPerSecond

(* An entry that is there, expired or not.                                   *)
Present(e) == e # NoEntry

Live(e) == e # NoEntry /\ e.expires > cacheClock

Answer(a, status) ==
  asker' = [asker EXCEPT ![a] = [step |-> "answered", status |-> status]]

Hit(a, e) ==
  asker' = [asker EXCEPT ![a] = [step |-> "answered", status |-> "hit", key |-> asker[a].key,
                                 for |-> e.for, calls |-> e.calls, age |-> cacheClock - e.born]]

(* complete and request_eligibility: a request with tools or tool results    *)
(* does not touch the cache.                                                 *)
Ask(a, k, tools) ==
  /\ asker[a] = NotAsked
  /\ asker' = [asker EXCEPT ![a] = [step |-> IF tools THEN "execute" ELSE "read", key |-> k,
                                    tools |-> tools, store |-> ~tools]]
  /\ UNCHANGED <<cacheBackend, failClosed, cacheClock, entries>>

(* get, and what complete makes of it: a live entry answers, an expired one  *)
(* is removed, a failed read is bypassed or closes.  A bypassed read does    *)
(* not write afterwards.                                                     *)
ReadEntry(a) ==
  /\ asker[a].step = "read"
  /\ LET e == entries[asker[a].key]
     IN \/ Live(e) /\ Hit(a, e) /\ UNCHANGED entries
        \/ /\ ~Live(e)
           /\ asker' = [asker EXCEPT ![a].step = "execute"]
           /\ entries' = [entries EXCEPT ![asker[a].key] = NoEntry]
        \/ /\ cacheBackend = "redis"
           /\ IF failClosed
              THEN asker' = [asker EXCEPT ![a] = [step |-> "failed"]]
              ELSE asker' = [asker EXCEPT ![a].step = "execute", ![a].store = FALSE]
           /\ UNCHANGED entries
  /\ UNCHANGED <<cacheBackend, failClosed, cacheClock>>

(* complete_for_cache: the executor answers, with tool calls or not, or      *)
(* fails.  A response with tool calls is not an AiCacheEntry.                *)
Execute(a, calls) ==
  /\ asker[a].step = "execute"
  /\ LET response == [for |-> asker[a].key, calls |-> calls]
     IN IF asker[a].store /\ ~calls
        THEN asker' = [asker EXCEPT ![a] = [step |-> "write", key |-> asker[a].key,
                                            response |-> response]]
        ELSE Answer(a, IF asker[a].store THEN "miss_ineligible" ELSE "bypassed")
  /\ UNCHANGED <<cacheBackend, failClosed, cacheClock, entries>>

ExecutorFails(a) ==
  /\ asker[a].step = "execute"
  /\ asker' = [asker EXCEPT ![a] = [step |-> "failed"]]
  /\ UNCHANGED <<cacheBackend, failClosed, cacheClock, entries>>

Stored(response, ttl) ==
  [for |-> response.for, calls |-> response.calls, born |-> cacheClock, expires |-> cacheClock + ttl]

Retained(es) == [k \in CacheKey |-> IF Live(es[k]) THEN es[k] ELSE NoEntry]
Full(es) == Cardinality({k \in CacheKey : es[k] # NoEntry}) = CacheCapacity

(* put: expired entries go first; a full cache refuses a new key.            *)
MemoryPut(k, response) ==
  LET es == Retained(entries)
  IN entries' = IF es[k] = NoEntry /\ Full(es)
                THEN es
                ELSE [es EXCEPT ![k] = Stored(response, CacheTtl)]

(* SET with EX; the reply may be lost, an entry over the limit is refused.   *)
RedisPut(k, response) ==
  \/ entries' = [entries EXCEPT ![k] = Stored(response, RedisTtl)]
  \/ UNCHANGED entries

(* The answer is given whether or not it was stored.                         *)
WriteEntry(a) ==
  /\ asker[a].step = "write"
  /\ IF cacheBackend = "memory"
     THEN MemoryPut(asker[a].key, asker[a].response)
     ELSE RedisPut(asker[a].key, asker[a].response)
  /\ Answer(a, "miss")
  /\ UNCHANGED <<cacheBackend, failClosed, cacheClock>>

InvalidateEntry(k) ==
  /\ entries[k] # NoEntry
  /\ entries' = [entries EXCEPT ![k] = NoEntry]
  /\ UNCHANGED <<cacheBackend, failClosed, cacheClock, asker>>

CacheTimePasses ==
  /\ cacheClock < CacheHorizon
  /\ cacheClock' = cacheClock + 1
  /\ UNCHANGED <<cacheBackend, failClosed, entries, asker>>

CacheInit ==
  /\ cacheBackend \in {"memory", "redis"}
  /\ failClosed \in BOOLEAN
  /\ cacheClock = 0
  /\ entries = [k \in CacheKey |-> NoEntry]
  /\ asker = [a \in Asker |-> NotAsked]

CacheNext ==
  \/ \E a \in Asker :
       \/ \E k \in CacheKey, tools \in BOOLEAN : Ask(a, k, tools)
       \/ ReadEntry(a) \/ ExecutorFails(a) \/ WriteEntry(a)
       \/ \E calls \in BOOLEAN : Execute(a, calls)
  \/ \E k \in CacheKey : InvalidateEntry(k)
  \/ CacheTimePasses

-----------------------------------------------------------------------------
CacheTypeOK ==
  /\ cacheBackend \in {"memory", "redis"}
  /\ cacheClock \in 0..CacheHorizon
  /\ \A k \in CacheKey : entries[k] = NoEntry \/ entries[k].expires \in Nat
  /\ cacheBackend = "memory" => Cardinality({k \in CacheKey : entries[k] # NoEntry}) <= CacheCapacity
  /\ \A a \in Asker : asker[a].step \in {"idle", "read", "execute", "write", "answered", "failed"}

(* A hit answers with a response of the same key that asks for no tools,     *)
(* stored less than the time to live ago, up to the second Redis rounds to   *)
(* (AiCachedCompletion::complete, ttl_seconds).                              *)
HitIsFresh ==
  \A a \in Asker :
    (asker[a].step = "answered" /\ asker[a].status = "hit") =>
      /\ asker[a].for = asker[a].key
      /\ ~asker[a].calls
      /\ asker[a].age < CacheTtl + (IF cacheBackend = "redis" THEN TicksPerSecond - 1 ELSE 0)

(* A live entry leaves the in-memory cache only by invalidation or when its  *)
(* own key is stored again, however full the cache is (put).                 *)
LiveEntriesStay ==
  [][\A k \in CacheKey :
       (Live(entries[k]) /\ entries'[k] # entries[k]) =>
         \/ \E a \in Asker : asker[a].step = "write" /\ asker[a].key = k
         \/ asker' = asker]_cacheVars

(* A metered call reaches the provider once and only under its reservation, and *)
(* succeeds only when settled; an audited tool runs only under its audit row and *)
(* answers what the row says; neither record changes once final; and the cache *)
(* answers with fresh entries of the same key and evicts no live one.          *)
SpendAndEffectsAreRecorded ==
  /\ [](PipelineTypeOK
        /\ ToolTypeOK
        /\ CacheTypeOK
        /\ ProviderCalledOnce
        /\ SpendIsOnTheLedger
        /\ CompletedIsSettled
        /\ EffectIsAudited
        /\ AnswerIsTheAudit
        /\ HitIsFresh)
  /\ SettlementIsFinal
  /\ OutcomeIsFinal
  /\ LiveEntriesStay
=============================================================================
