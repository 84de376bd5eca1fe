------------------------------- MODULE AiRuns -------------------------------
(* Durable AI work: submissions and runs that act once per ledger row, the  *)
(* texts that must survive the ledger, evaluation, ingestion and retrieval. *)
EXTENDS Naturals, FiniteSets, Sequences
LOCAL INSTANCE SequencesExt
LOCAL INSTANCE FiniteSetsExt

-----------------------------------------------------------------------------
(* Work that must reach a provider once: batch submission and artifact       *)
(* reconciliation (rustee-ai-batch), evaluation runs (rustee-ai-eval), their *)
(* in-memory and PostgreSQL ledgers (rustee-ai-batch-sqlx,                   *)
(* rustee-ai-eval-sqlx) and the jobs that carry them (-jobs crates), which a *)
(* queue delivers at least once.  All three reserve a row, load the work,    *)
(* act, and record the row; they differ in what names the row.               *)

CONSTANTS
  Handler,          \* deliveries of jobs
  RunKey,           \* scope and run key (or reconciliation key)
  CatalogId,        \* what the key stands for: catalog id, file id
  LedgerCapacity,   \* records of an in-memory ledger
  MaxDeliveries     \* bound on the deliveries of one handler slot

VARIABLES
  flavor,           \* which ledger: submission, artifact or evaluation, memory or postgres
  workRows,         \* set of rows [key, id, status, receipt]
  acted,            \* what reached the provider: set of [key, id, receipt]
  handler           \* [Handler -> state of its delivery]

onceVars == <<flavor, workRows, acted, handler>>

Flavors == {"submission-memory", "artifact-memory", "artifact-postgres",
            "evaluation-memory", "evaluation-postgres"}
InMemory == flavor \in {"submission-memory", "artifact-memory", "evaluation-memory"}

NoDelivery == [step |-> "idle", deliveries |-> 0]

(* The in-memory batch ledgers are keyed by the whole reference, the others  *)
(* by the key, with the rest of the reference compared.                      *)
KeyedByReference == flavor \in {"submission-memory", "artifact-memory"}
SameRow(row, ref) == row.key = ref.key /\ (KeyedByReference => row.id = ref.id)
RowOf(ref) == {row \in workRows : SameRow(row, ref)}
Conflicts(row, ref) == row.id # ref.id

Step(w, s) == handler' = [handler EXCEPT ![w].step = s]
Returns(w, result, receipt) ==
  handler' = [handler EXCEPT ![w].step = result, ![w].receipt = receipt]

(* The job handler: a job whose idempotency key is not the key of its        *)
(* payload is refused.                                                       *)
HandleJob(w, key, id, idempotencyKey) ==
  /\ handler[w].step \in {"idle", "failed"}
  /\ handler[w].deliveries < MaxDeliveries
  /\ handler[w].step = "failed" => handler[w].ref = [key |-> key, id |-> id]
  /\ handler' = [handler EXCEPT ![w] =
       [step |-> IF idempotencyKey = key THEN "reserve" ELSE "mismatch",
        ref |-> [key |-> key, id |-> id], receipt |-> 0,
        deliveries |-> handler[w].deliveries + 1]]
  /\ UNCHANGED <<flavor, workRows, acted>>

PendingRow(ref) == [key |-> ref.key, id |-> ref.id, status |-> "pending", receipt |-> 0]

(* What reserve answers when the row is there.                               *)
Existing(w, row) ==
  IF Conflicts(row, handler[w].ref) THEN Step(w, "failed")
  ELSE IF row.status = "pending" THEN Step(w, "failed")
  ELSE Returns(w, "existing", row.receipt)

(* reserve, in memory: one critical section.                                 *)
ReserveInMemory(w) ==
  /\ InMemory /\ handler[w].step = "reserve"
  /\ LET rows == RowOf(handler[w].ref)
     IN CASE rows # {} -> (\E row \in rows : Existing(w, row)) /\ UNCHANGED workRows
          [] rows = {} /\ Cardinality(workRows) = LedgerCapacity ->
               Step(w, "failed") /\ UNCHANGED workRows
          [] rows = {} /\ Cardinality(workRows) # LedgerCapacity ->
               Step(w, "load") /\ workRows' = workRows \cup {PendingRow(handler[w].ref)}
  /\ UNCHANGED <<flavor, acted>>

(* The INSERT without a look at the number of rows it has affected.          *)
ReserveUnchecked(w) ==
  /\ ~InMemory /\ handler[w].step = "reserve"
  /\ workRows' = IF RowOf(handler[w].ref) = {} THEN workRows \cup {PendingRow(handler[w].ref)}
                 ELSE workRows
  /\ Step(w, "load")
  /\ UNCHANGED <<flavor, acted>>

(* INSERT .. ON CONFLICT DO NOTHING; the statement may fail, before or after *)
(* PostgreSQL has applied it.                                                *)
ReserveRow(w) ==
  /\ ~InMemory /\ handler[w].step = "reserve"
  /\ LET free == RowOf(handler[w].ref) = {}
         inserted == workRows \cup {PendingRow(handler[w].ref)}
     IN \/ free /\ workRows' = inserted /\ Step(w, "load")
        \/ ~free /\ Step(w, "classify") /\ UNCHANGED workRows
        \/ /\ Step(w, "failed")
           /\ UNCHANGED workRows \/ (free /\ workRows' = inserted)
  /\ UNCHANGED <<flavor, acted>>

ClassifyExisting(w) ==
  /\ handler[w].step = "classify"
  /\ \E row \in RowOf(handler[w].ref) : Existing(w, row)
  /\ UNCHANGED <<flavor, workRows, acted>>

(* catalog.load or load_artifact.                                            *)
Load(w) ==
  /\ handler[w].step = "load"
  /\ Step(w, "act") \/ Step(w, "failed")
  /\ UNCHANGED <<flavor, workRows, acted>>

(* The provider, the processor or the evaluation runner: it acts and         *)
(* answers, fails before acting, or acts and its answer is lost.             *)
Act(w) ==
  /\ handler[w].step = "act"
  /\ LET receipt == Cardinality(acted) + 1
         effect == acted \cup {[key |-> handler[w].ref.key, id |-> handler[w].ref.id,
                                receipt |-> receipt]}
     IN \/ acted' = effect /\ Returns(w, "record", receipt)
        \/ UNCHANGED acted /\ Step(w, "failed")
        \/ acted' = effect /\ Step(w, "failed")
  /\ UNCHANGED <<flavor, workRows>>

(* The rows after recording: only a batch submission keeps a receipt.        *)
Recorded(ref, receipt) ==
  {IF SameRow(row, ref)
   THEN [row EXCEPT !.status = "done",
                    !.receipt = IF flavor = "submission-memory" THEN receipt ELSE 0]
   ELSE row : row \in workRows}

(* record_submission, record_reconciled, record_completed: the same          *)
(* reference, and for a submission the same receipt when there is one.       *)
TakesRecord(row, ref, receipt) ==
  /\ SameRow(row, ref) /\ ~Conflicts(row, ref)
  /\ flavor = "submission-memory" => row.status = "pending" \/ row.receipt = receipt

(* TRUE when the record answers Ok; PostgreSQL's UPDATE may also fail before *)
(* or after it is applied.                                                   *)
RecordWork(ref, receipt, ok) ==
  LET fits == \E row \in workRows : TakesRecord(row, ref, receipt)
  IN \/ ok /\ fits /\ workRows' = Recorded(ref, receipt)
     \/ ~ok /\ (InMemory => ~fits) /\ UNCHANGED workRows
     \/ ~ok /\ ~InMemory /\ fits /\ workRows' = Recorded(ref, receipt)

Record(w) ==
  /\ handler[w].step = "record"
  /\ \E ok \in BOOLEAN :
       /\ RecordWork(handler[w].ref, handler[w].receipt, ok)
       /\ Step(w, IF ok THEN "done" ELSE "failed")
  /\ UNCHANGED <<flavor, acted>>

(* The operator resolves a pending row, having found the effect at the       *)
(* provider.                                                                 *)
Resolve(e) ==
  /\ \E row \in workRows : SameRow(row, e) /\ row.status = "pending"
  /\ \E ok \in BOOLEAN : RecordWork([key |-> e.key, id |-> e.id], e.receipt, ok)
  /\ UNCHANGED <<flavor, acted, handler>>

(* A delivery is lost where it stands: its future is dropped, or its process *)
(* dies, which an in-memory ledger does not survive and is left out for it.  *)
Abandon(w) ==
  /\ handler[w].step \in {"reserve", "classify", "load", "act", "record"}
  /\ Step(w, "failed")
  /\ UNCHANGED <<flavor, workRows, acted>>

OnceInit ==
  /\ flavor \in Flavors
  /\ workRows = {}
  /\ acted = {}
  /\ handler = [w \in Handler |-> NoDelivery]

OnceNext ==
  \/ \E w \in Handler :
       \/ \E k, i \in RunKey, id \in CatalogId : HandleJob(w, k, id, i)
       \/ ReserveInMemory(w) \/ ReserveRow(w) \/ ClassifyExisting(w) \/ Load(w) \/ Act(w)
       \/ Record(w) \/ Abandon(w)
  \/ \E e \in acted : Resolve(e)

-----------------------------------------------------------------------------
OnceTypeOK ==
  /\ flavor \in Flavors
  /\ \A row \in workRows : row.key \in RunKey /\ row.id \in CatalogId
                           /\ row.status \in {"pending", "done"}
  /\ \A w \in Handler : handler[w].step \in {"idle", "mismatch", "reserve", "classify", "load",
       "act", "record", "done", "existing", "failed"}

(* However often a job is delivered and whatever is lost in between, its     *)
(* work reaches the provider at most once per ledger row (submit,            *)
(* reconcile).                                                               *)
ActedOnce ==
  \A e, f \in acted : (SameRow(e, f)) => e = f

(* What has reached the provider is on the ledger, under the same reference: *)
(* an answer that is lost leaves a pending row for the operator.             *)
ActedIsOnTheLedger ==
  \A e \in acted : \E row \in workRows : SameRow(row, e) /\ row.id = e.id

(* A row is done, and a submission's receipt is handed out, only for work    *)
(* that the provider has: with the receipt the provider gave for it.         *)
DoneWasActed ==
  /\ \A row \in workRows : row.status = "done" => \E e \in acted : SameRow(row, e)
  /\ \A w \in Handler :
       (handler[w].step \in {"done", "existing"}) =>
         \E e \in acted : /\ SameRow(e, handler[w].ref)
                          /\ flavor = "submission-memory" => e.receipt = handler[w].receipt

-----------------------------------------------------------------------------
(* The texts and counts that identify AI work on their way through three     *)
(* layers that each test them again: the constructor that admits a value     *)
(* (rustee-ai, -rag, -batch, -eval), the store that writes it and the CHECKs *)
(* of its table, and the decoder with which pending() reads it back (the     *)
(* -sqlx crates, RetrievedChunk).  pending() collects all rows, so that one  *)
(* row that no longer decodes hides all others.                              *)

CONSTANTS
  Length,           \* byte lengths of texts, around every limit
  Count             \* counts of a request, around MaxCount

VARIABLE trip       \* one value: record, and how far it got

(* A text as the tests see it.                                               *)
Text == {t \in [len : Length, blank : BOOLEAN, nul : BOOLEAN, plain : BOOLEAN] :
           /\ t.len = 0 => t.blank /\ ~t.nul /\ t.plain
           /\ t.len > 0 /\ t.plain => ~t.blank /\ ~t.nul
           /\ t.nul => ~t.blank}
Fine == [len |-> 1, blank |-> FALSE, nul |-> FALSE, plain |-> TRUE]

MAX_TENANT_BYTES == 255
MAX_SUBJECT_BYTES == 255
MAX_IDEMPOTENCY_KEY_BYTES == 512
MAX_MODEL_ALIAS_BYTES == 255
MAX_TOOL_NAME_BYTES == 255
MAX_TOOL_CALL_ID_BYTES == 255
MAX_IDENTIFIER_BYTES == 128
MAX_DOCUMENT_REFERENCE_FIELD_BYTES == 255
MAX_INGESTION_CHUNK_ID_BYTES == 255
MAX_INGESTION_CHUNK_CONTENT_BYTES == 512 * 1024
MAX_RETRIEVAL_IDENTIFIER_BYTES == 255
MAX_RETRIEVED_CHUNK_CONTENT_BYTES == 4 * 1024 * 1024
MaxCount == 3       \* stands for i64::MAX, below the largest usize

(* Not blank, no NUL byte, within a limit.                                   *)
Bounded(t, max) == ~t.blank /\ t.len <= max /\ ~t.nul

ValidateTenant(t) == Bounded(t, MAX_TENANT_BYTES)
ValidateSubject(t) == Bounded(t, MAX_SUBJECT_BYTES)

ValidateIdempotencyKey(t) == Bounded(t, MAX_IDEMPOTENCY_KEY_BYTES)
ValidateModelAlias(t) == Bounded(t, MAX_MODEL_ALIAS_BYTES)
ValidateToolName(t) == t.len \in 1..MAX_TOOL_NAME_BYTES /\ t.plain
ToolCallId(t) == Bounded(t, MAX_TOOL_CALL_ID_BYTES)

(* valid_identifier: ASCII letters, digits, underscore, hyphen and dot.      *)
ValidIdentifier(t) == t.len \in 1..MAX_IDENTIFIER_BYTES /\ t.plain

(* What PostgreSQL takes as TEXT.                                            *)
SqlText(t) == ~t.nul

-----------------------------------------------------------------------------
(* The values: which fields they have.                                       *)
Fields ==
  [usage |-> {"tenant", "subject", "key", "model"},
   audit |-> {"tenant", "subject", "key", "call", "tool"},
   artifact |-> {"scope", "catalog", "run", "file", "key"},
   evaluation |-> {"scope", "catalog", "run"},
   chunk |-> {"tenant", "document", "version", "checksum", "id", "content"}]
Kinds == DOMAIN Fields

(* AiExecutionContext, AiUsageReservation: any usize is a count.             *)
AdmitUsage(r) ==
  /\ ValidateTenant(r.tenant) /\ ValidateSubject(r.subject)
  /\ ValidateIdempotencyKey(r.key) /\ ValidateModelAlias(r.model)

(* valid_usage_reservation, before every statement.                          *)
StoreUsage(r, n) ==
  /\ Bounded(r.tenant, MAX_TENANT_BYTES) /\ Bounded(r.subject, MAX_SUBJECT_BYTES)
  /\ Bounded(r.key, MAX_IDEMPOTENCY_KEY_BYTES) /\ Bounded(r.model, MAX_MODEL_ALIAS_BYTES)
  /\ n <= MaxCount

(* PendingAiUsage::from_durable_metadata.                                    *)
DecodeUsage(r, n) == AdmitUsage(r) /\ StoreUsage(r, n)

AdmitAudit(r) ==
  /\ ValidateTenant(r.tenant) /\ ValidateSubject(r.subject) /\ ValidateIdempotencyKey(r.key)
  /\ ToolCallId(r.call) /\ ValidateToolName(r.tool)

(* valid_durable_metadata, before an approval and for a pending row.         *)
StoreAudit(r) ==
  /\ Bounded(r.tenant, MAX_TENANT_BYTES) /\ Bounded(r.subject, MAX_SUBJECT_BYTES)
  /\ Bounded(r.key, MAX_IDEMPOTENCY_KEY_BYTES) /\ Bounded(r.call, MAX_TOOL_CALL_ID_BYTES)
  /\ Bounded(r.tool, MAX_TOOL_NAME_BYTES)

(* AiBatchReference and AiBatchArtifactReference.                            *)
AdmitArtifact(r) == \A f \in Fields["artifact"] : ValidIdentifier(r[f])

(* validate_reference of the two ledgers.                                    *)
StoreReference(r, fields) ==
  \A f \in fields : r[f].len \in 1..MAX_IDENTIFIER_BYTES /\ ~r[f].nul

(* rustee_ai_batch_artifact_ledger_identifier_shape_check.                   *)
CheckArtifact(r) == \A f \in Fields["artifact"] : r[f].len \in 1..128 /\ r[f].plain

(* pending_from_row rebuilds the reference.                                  *)
DecodeArtifact(r) == AdmitArtifact(r)

AdmitEvaluation(r) == \A f \in Fields["evaluation"] : ValidIdentifier(r[f])

(* The CHECKs of rustee_ai_evaluation_run_ledger.                            *)
CheckEvaluation(r) == \A f \in Fields["evaluation"] : r[f].len \in 1..128

DecodeEvaluation(r) == AdmitEvaluation(r)

(* DocumentReference.                                                        *)
AdmitDocument(r) ==
  \A f \in {"tenant", "document", "version", "checksum"} :
    Bounded(r[f], MAX_DOCUMENT_REFERENCE_FIELD_BYTES)

(* IngestionChunk.                                                           *)
AdmitChunk(r) ==
  /\ AdmitDocument(r)
  /\ Bounded(r.id, MAX_INGESTION_CHUNK_ID_BYTES)
  /\ Bounded(r.content, MAX_INGESTION_CHUNK_CONTENT_BYTES)

(* RetrievedChunk, which a retrieval store builds from what was ingested.    *)
DecodeChunk(r) ==
  /\ Bounded(r.id, MAX_RETRIEVAL_IDENTIFIER_BYTES)
  /\ Bounded(r.document, MAX_RETRIEVAL_IDENTIFIER_BYTES)
  /\ Bounded(r.tenant, MAX_TENANT_BYTES)
  /\ Bounded(r.content, MAX_RETRIEVED_CHUNK_CONTENT_BYTES)

(* RetrievalScope, with which the tenant asks for the document.              *)
AdmitScope(r) ==
  Bounded(r.tenant, MAX_TENANT_BYTES) /\ Bounded(r.document, MAX_RETRIEVAL_IDENTIFIER_BYTES)

-----------------------------------------------------------------------------
Admitted(kind, r) ==
  CASE kind = "usage" -> AdmitUsage(r)
    [] kind = "audit" -> AdmitAudit(r)
    [] kind = "artifact" -> AdmitArtifact(r)
    [] kind = "evaluation" -> AdmitEvaluation(r)
    [] kind = "chunk" -> AdmitChunk(r)

(* The store's test of the value.                                            *)
Validated(kind, r, n) ==
  CASE kind = "usage" -> StoreUsage(r, n)
    [] kind = "audit" -> StoreAudit(r)
    [] kind \in {"artifact", "evaluation"} -> StoreReference(r, Fields[kind])
    [] kind = "chunk" -> TRUE

(* The statement: what the columns and the CHECKs accept.                    *)
Accepted(kind, r) ==
  CASE kind \in {"usage", "audit"} -> \A f \in Fields[kind] : SqlText(r[f])
    [] kind = "artifact" -> CheckArtifact(r)
    [] kind = "evaluation" -> CheckEvaluation(r) /\ \A f \in Fields[kind] : SqlText(r[f])
    [] kind = "chunk" -> TRUE

Decoded(kind, r, n) ==
  CASE kind = "usage" -> DecodeUsage(r, n)
    [] kind = "audit" -> StoreAudit(r)
    [] kind = "artifact" -> DecodeArtifact(r)
    [] kind = "evaluation" -> DecodeEvaluation(r)
    [] kind = "chunk" -> DecodeChunk(r) /\ AdmitScope(r)

(* A value is made, written and read back.  Every test is of one field, so   *)
(* one field of the value varies.                                            *)
MakeValue(kind, f, t, n) ==
  /\ trip.at = "start"
  /\ LET r == [x \in Fields[kind] |-> IF x = f THEN t ELSE Fine]
     IN trip' = [at |-> IF Admitted(kind, r) THEN "made" ELSE "refused",
                 kind |-> kind, value |-> r, count |-> n]

WriteValue ==
  /\ trip.at = "made"
  /\ trip' = [trip EXCEPT !.at =
       CASE ~Validated(trip.kind, trip.value, trip.count) -> "invalid"
         [] Validated(trip.kind, trip.value, trip.count) /\ ~Accepted(trip.kind, trip.value) -> "rejected"
         [] OTHER -> "stored"]

ReadValue ==
  /\ trip.at = "stored"
  /\ trip' = [trip EXCEPT !.at = IF Decoded(trip.kind, trip.value, trip.count) THEN "read"
                                 ELSE "undecodable"]

TextInit == trip = [at |-> "start"]
TextNext ==
  \/ \E kind \in Kinds : \E f \in Fields[kind], t \in Text, n \in Count :
       /\ kind # "usage" => n = 0
       /\ MakeValue(kind, f, t, n)
  \/ WriteValue
  \/ ReadValue

-----------------------------------------------------------------------------
TextTypeOK ==
  trip.at \in {"start", "made", "refused", "invalid", "rejected", "stored", "read", "undecodable"}

(* Whatever its constructor admits can be stored and is read back, so that   *)
(* no accepted call leaves work that pending() cannot show; only a count     *)
(* beyond i64 is turned away, before anything is written.                    *)
AdmittedIsDurable ==
  /\ trip.at \notin {"rejected", "undecodable"}
  /\ trip.at = "invalid" => trip.count > MaxCount

-----------------------------------------------------------------------------
(* A run of an evaluation suite (rustee-ai-eval): the suite is built from    *)
(* cases with identifiers of their own, and AiEvaluationRunner completes and *)
(* grades them one after the other until one fails.                          *)

CONSTANTS
  SuitesTried,      \* [name, cases]: cases is a sequence of identifiers
  InvalidIds,       \* what valid_identifier refuses
  MaxCases,         \* MAX_CASES_PER_SUITE
  GradesTried,      \* [outcome, score, label]
  InvalidLabels,    \* what valid_label refuses
  MaxScore,         \* MAX_SCORE_PER_MILLE
  TokensTried,      \* tokens that a response reports
  MaxTokens         \* u64::MAX

VARIABLES
  evaluation,       \* the run: its suite, phase, results and summary
  completions       \* ghost: the cases the executor was given, in order

evaluationVars == <<evaluation, completions>>

NoSummary == [total |-> 0, passed |-> 0, failed |-> 0, average |-> 0, tokens |-> 0]
NoEvaluation == [phase |-> "none", suite |-> <<>>, results |-> <<>>, tokens |-> 0, summary |-> NoSummary]

(* AiEvaluationCase::new and AiEvaluationSuite::new.                         *)
SuiteIsValid(suite) ==
  /\ ({suite.name} \cup Range(suite.cases)) \cap InvalidIds = {}
  /\ Len(suite.cases) \in 1..MaxCases
  /\ IsInjective(suite.cases)

(* AiEvaluationGrade::new                                                    *)
GradeIsValid(grade) == grade.score <= MaxScore /\ grade.label \notin InvalidLabels

SaturatingSum(a, b) == IF a + b > MaxTokens THEN MaxTokens ELSE a + b

(* summary: the average is rounded down, the tokens saturate.                *)
EvaluationSummary(results) ==
  LET passed == SelectSeq(results, LAMBDA r : r.grade.outcome = "passed") IN
  [total |-> Len(results), passed |-> Len(passed), failed |-> Len(results) - Len(passed),
   average |-> FoldLeft(LAMBDA n, r : n + r.grade.score, 0, results) \div Len(results),
   tokens |-> FoldLeft(LAMBDA n, r : SaturatingSum(n, r.tokens), 0, results)]

-----------------------------------------------------------------------------
BeginEvaluation(suite) ==
  /\ evaluation.phase = "none" /\ SuiteIsValid(suite)
  /\ evaluation' = [NoEvaluation EXCEPT !.phase = "next", !.suite = suite.cases]
  /\ UNCHANGED completions

CurrentCase == evaluation.suite[Len(evaluation.results) + 1]

CompleteForEvaluation(tokens) ==
  /\ evaluation.phase = "next" /\ Len(evaluation.results) < Len(evaluation.suite)
  /\ completions' = Append(completions, CurrentCase)
  /\ evaluation' = [evaluation EXCEPT !.phase = "grading", !.tokens = tokens]

EvaluationExecutorFails ==
  /\ evaluation.phase = "next" /\ Len(evaluation.results) < Len(evaluation.suite)
  /\ completions' = Append(completions, CurrentCase)
  /\ evaluation' = [evaluation EXCEPT !.phase = "executor_failed"]

GradeCase(grade) ==
  /\ evaluation.phase = "grading" /\ GradeIsValid(grade)
  /\ evaluation' = [evaluation EXCEPT !.phase = "next", !.results =
       Append(@, [id |-> CurrentCase, grade |-> grade, tokens |-> evaluation.tokens])]
  /\ UNCHANGED completions

(* The application's grader fails, or cannot make a valid grade.             *)
GraderFails ==
  /\ evaluation.phase = "grading"
  /\ evaluation' = [evaluation EXCEPT !.phase = "grader_failed"]
  /\ UNCHANGED completions

ReportEvaluation ==
  /\ evaluation.phase = "next" /\ Len(evaluation.results) = Len(evaluation.suite)
  /\ evaluation' = [evaluation EXCEPT !.phase = "reported",
                      !.summary = EvaluationSummary(evaluation.results)]
  /\ UNCHANGED completions

-----------------------------------------------------------------------------
EvaluationInit == evaluation = NoEvaluation /\ completions = <<>>

EvaluationNext ==
  \/ \E suite \in SuitesTried : BeginEvaluation(suite)
  \/ \E tokens \in TokensTried : CompleteForEvaluation(tokens)
  \/ EvaluationExecutorFails
  \/ \E grade \in GradesTried : GradeCase(grade)
  \/ GraderFails \/ ReportEvaluation

EvaluationTypeOK ==
  /\ evaluation.phase \in {"none", "next", "grading", "executor_failed", "grader_failed", "reported"}
  /\ Len(evaluation.results) <= Len(evaluation.suite)

(* A report is of the whole suite, in its order, names no case twice, and    *)
(* its numbers are those of its cases: each is counted once, the average lies between the lowest   *)
(* and the highest score, and no case has more tokens than the total.        *)
ReportIsOfTheSuite ==
  evaluation.phase = "reported" =>
    LET results == evaluation.results
        scores == {r.grade.score : r \in Range(results)}
        summary == evaluation.summary
    IN /\ [i \in DOMAIN results |-> results[i].id] = evaluation.suite
       /\ IsInjective(evaluation.suite)
       /\ summary.passed + summary.failed = Len(evaluation.suite)
       /\ Min(scores) <= summary.average /\ summary.average <= Max(scores)
       /\ \A r \in Range(results) : r.tokens <= summary.tokens

(* The executor is given each case at most once and none out of order or     *)
(* after a failure: a run that fails at a case has not started the next.     *)
NoCaseTwice ==
  /\ IsPrefix(completions, evaluation.suite)
  /\ Len(completions) <= Len(evaluation.results) + 1

-----------------------------------------------------------------------------
(* Ingestion for retrieval-augmented generation (rustee-ai-rag,              *)
(* rustee-ai-rag-jobs).  A job ingests one document revision: it is loaded,  *)
(* chunked, embedded in batches within the provider's limits and written to  *)
(* the index in one upsert.  Loader, chunker, provider and index are the     *)
(* application's: they answer anything their types allow.                    *)

CONSTANTS
  Ingestor,         \* deliveries of ingestion jobs, redeliveries included
  Document,         \* document references
  ChunkLists,       \* what a chunker may answer: sequences of [id, document, bytes]
  MaxInputs,        \* EmbeddingBatchLimits
  MaxContentBytes,
  Dimension         \* lengths of embedding vectors

VARIABLES
  ingest,           \* [Ingestor -> state of its ingestion]
  indexed           \* the last upsert the index has taken

ingestionVars == <<ingest, indexed>>

NoIngestion == [step |-> "idle"]
NothingIndexed == [chunks |-> <<>>, records |-> <<>>]
Bytes(chunks) ==
  LET upTo[j \in 0..Len(chunks)] == IF j = 0 THEN 0 ELSE upTo[j - 1] + chunks[j].bytes
  IN upTo[Len(chunks)]

IngestionFails(i) == ingest' = [ingest EXCEPT ![i] = [step |-> "failed"]]

(* RagIngestionHandler::handle and load: the loader may fail, or answer      *)
(* another document.                                                         *)
LoadDocument(i, requested, loaded) ==
  /\ ingest[i] = NoIngestion
  /\ \/ loaded = requested /\ ingest' = [ingest EXCEPT ![i] = [step |-> "chunk", document |-> requested]]
     \/ IngestionFails(i)
  /\ UNCHANGED indexed

Distinct(chunks) == \A j, k \in DOMAIN chunks : chunks[j].id = chunks[k].id => j = k

(* The chunks: some, all of the document, under distinct identifiers.        *)
ChunkDocument(i, chunks) ==
  /\ ingest[i].step = "chunk"
  /\ IF /\ chunks # <<>> /\ Distinct(chunks)
        /\ \A j \in DOMAIN chunks : chunks[j].document = ingest[i].document
     THEN ingest' = [ingest EXCEPT ![i] =
            [step |-> "collect", document |-> ingest[i].document, chunks |-> chunks, taken |-> 0,
             inputs |-> <<>>, batches |-> <<>>, embeddings |-> <<>>]]
     ELSE IngestionFails(i)
  /\ UNCHANGED indexed

(* Whether the next chunk still goes into the batch.                         *)
Fits(inputs, chunk) ==
  inputs = <<>> \/ (Len(inputs) < MaxInputs /\ Bytes(inputs) <= MaxContentBytes - chunk.bytes)

(* One turn of the loop over the chunks, or its end: the batch is sent when  *)
(* the next chunk does not fit, and when there is no next one.               *)
CollectChunk(i) ==
  /\ ingest[i].step = "collect"
  /\ LET g == ingest[i]
     IN IF g.taken = Len(g.chunks)
        THEN ingest' = [ingest EXCEPT ![i].step = "embed"]
        ELSE LET chunk == g.chunks[g.taken + 1]
             IN IF chunk.bytes > MaxContentBytes THEN IngestionFails(i)
                ELSE IF Fits(g.inputs, chunk)
                THEN ingest' = [ingest EXCEPT ![i].taken = @ + 1, ![i].inputs = Append(@, chunk)]
                ELSE ingest' = [ingest EXCEPT ![i].step = "embed"]
  /\ UNCHANGED indexed

(* Whether the batch's embeddings have the length of the earlier ones, and   *)
(* one each.                                                                 *)
EmbeddingsMatch(g, dims) ==
  /\ Len(dims) = Len(g.inputs)
  /\ \A j \in DOMAIN dims : dims[j] = IF g.embeddings = <<>> THEN dims[1]
                                      ELSE g.embeddings[1].dimension

(* embed_batch: the provider answers one vector per input in their order,    *)
(* too many or too few, or fails.                                            *)
EmbedBatch(i, dims) ==
  /\ ingest[i].step = "embed"
  /\ LET g == ingest[i]
         answered == [j \in DOMAIN dims |->
                        [of |-> IF j <= Len(g.inputs) THEN g.inputs[j].id ELSE "none",
                         dimension |-> dims[j]]]
     IN \/ /\ EmbeddingsMatch(g, dims)
           /\ ingest' = [ingest EXCEPT ![i].embeddings = @ \o answered, ![i].inputs = <<>>,
                           ![i].batches = Append(@, g.inputs),
                           ![i].step = IF g.taken = Len(g.chunks) THEN "upsert" ELSE "collect"]
        \/ IngestionFails(i)
  /\ UNCHANGED indexed

Records(g) ==
  [j \in 1..(IF Len(g.chunks) < Len(g.embeddings) THEN Len(g.chunks) ELSE Len(g.embeddings)) |->
     [chunk |-> g.chunks[j], embedding |-> g.embeddings[j]]]

(* index.upsert, once, with all records; its answer may be lost.             *)
UpsertDocument(i) ==
  /\ ingest[i].step = "upsert"
  /\ LET g == ingest[i]
     IN \/ /\ indexed' = [chunks |-> g.chunks, records |-> Records(g)]
           /\ ingest' = [ingest EXCEPT ![i] = [step |-> "done", document |-> g.document,
                                               count |-> Len(g.chunks), chunks |-> g.chunks,
                                               batches |-> g.batches]]
        \/ /\ indexed' = [chunks |-> g.chunks, records |-> Records(g)]
           /\ IngestionFails(i)
        \/ UNCHANGED indexed /\ IngestionFails(i)

Vectors == UNION {[1..n -> Dimension] : n \in 1..(MaxInputs + 1)}

IngestionInit ==
  /\ ingest = [i \in Ingestor |-> NoIngestion]
  /\ indexed = NothingIndexed

IngestionNext ==
  \/ \E i \in Ingestor :
       \/ \E d, e \in Document : LoadDocument(i, d, e)
       \/ \E chunks \in ChunkLists : ChunkDocument(i, chunks)
       \/ CollectChunk(i) \/ UpsertDocument(i)
       \/ \E dims \in Vectors : EmbedBatch(i, dims)

-----------------------------------------------------------------------------
IngestionTypeOK ==
  /\ \A i \in Ingestor : ingest[i].step \in {"idle", "chunk", "collect", "embed", "upsert", "done",
       "failed"}

(* No call to the embedding provider is empty or exceeds its limits, and     *)
(* no two consecutive calls could have been one (ingest's loop).             *)
BatchesAreTight ==
  \A i \in Ingestor :
    /\ ingest[i].step = "embed" =>
         /\ Len(ingest[i].inputs) \in 1..MaxInputs
         /\ Bytes(ingest[i].inputs) <= MaxContentBytes
    /\ ingest[i].step \in {"upsert", "done"} =>
         LET b == ingest[i].batches
         IN \A j \in 1..(Len(b) - 1) :
              \/ Len(b[j]) = MaxInputs
              \/ Bytes(b[j]) + b[j + 1][1].bytes > MaxContentBytes

(* What reaches the index is the whole document: every chunk, each with the  *)
(* embedding of its own content, all of one length (ingest, embed_batch).    *)
IndexedIsWhole ==
  /\ Len(indexed.records) = Len(indexed.chunks)
  /\ \A j \in DOMAIN indexed.records :
       /\ indexed.records[j].chunk = indexed.chunks[j]
       /\ indexed.records[j].embedding.of = indexed.chunks[j].id
       /\ indexed.records[j].embedding.dimension = indexed.records[1].embedding.dimension

-----------------------------------------------------------------------------
(* Retrieval for one request (rustee-ai-rag retrieval, rustee-ai-rag-advisor): *)
(* the store's answer to a query is checked against the scope and cut to the *)
(* query's limits before it becomes a message of the request.                *)

CONSTANTS
  ScopeTenant,
  ScopeDocument,
  StoreAnswers,     \* what a store may answer: sequences of [tenant, document, bytes]
  MaxChunks,        \* limits of the query
  MaxContextBytes

VARIABLE
  retrieval         \* query, answer of the store and outcome

NoRetrieval == [outcome |-> "none"]
ContextBytes(chunks) ==
  LET upTo[j \in 0..Len(chunks)] == IF j = 0 THEN 0 ELSE upTo[j - 1] + chunks[j].bytes
  IN upTo[Len(chunks)]

(* RetrievalScope: the tenant, and the documents it allows.                  *)
Permits(scope, chunk) == chunk.tenant = scope.tenant /\ chunk.document \in scope.documents

RetainedChunks(answer) == SubSeq(answer, 1, IF Len(answer) < MaxChunks THEN Len(answer) ELSE MaxChunks)

(* RagAdvisor::before_request and retrieve: anything outside the scope, even *)
(* beyond the number of chunks asked for, refuses the whole answer; so does  *)
(* too much context.  Building the query, the store and rendering may fail.  *)
Retrieve(scope, answer) ==
  /\ retrieval.outcome = "none"
  /\ LET kept == RetainedChunks(answer)
         refused == \/ \E j \in DOMAIN answer : ~Permits(scope, answer[j])
                    \/ ContextBytes(kept) > MaxContextBytes
     IN \/ ~refused /\ retrieval' = [outcome |-> "answered", scope |-> scope, answer |-> answer,
                                     message |-> kept]
        \/ retrieval' = [outcome |-> "failed"]

Scopes == [tenant : ScopeTenant, documents : (SUBSET ScopeDocument) \ {{}}]

RetrievalInit == retrieval = NoRetrieval
RetrievalNext == \E scope \in Scopes, answer \in StoreAnswers : Retrieve(scope, answer)

-----------------------------------------------------------------------------
(* A message carries the store's best chunks, in its order, all within the   *)
(* scope and the limits of the query (retrieve).                             *)
RetrievedInScope ==
  retrieval.outcome = "answered" =>
    /\ IsPrefix(retrieval.message, retrieval.answer)
    /\ Len(retrieval.message) <= MaxChunks
    /\ ContextBytes(retrieval.message) <= MaxContextBytes
    /\ \A j \in DOMAIN retrieval.message :
         /\ retrieval.message[j].tenant = retrieval.scope.tenant
         /\ retrieval.message[j].document \in retrieval.scope.documents

(* Durable work acts once per row and leaves a row for whatever was lost, in   *)
(* texts the ledger can store; a report is of its whole suite and runs no case *)
(* twice; what is indexed is the whole document in tight batches, and what is  *)
(* retrieved lies within its scope.                                            *)
WorkIsDoneOnce ==
  /\ OnceTypeOK
  /\ TextTypeOK
  /\ EvaluationTypeOK
  /\ IngestionTypeOK
  /\ ActedOnce
  /\ ActedIsOnTheLedger
  /\ DoneWasActed
  /\ AdmittedIsDurable
  /\ ReportIsOfTheSuite
  /\ NoCaseTwice
  /\ BatchesAreTight
  /\ IndexedIsWhole
  /\ RetrievedInScope
=============================================================================
