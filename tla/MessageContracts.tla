-------------------------- MODULE MessageContracts --------------------------
(* What producers and consumers of different releases agree on: job and event *)
(* envelopes, and the schemas deployments register.                         *)
EXTENDS EnvelopeText, Sequences, FiniteSets

-----------------------------------------------------------------------------
(***************************************************************************)
(* The typed job contract: a producer builds an envelope, encodes it and   *)
(* publishes it; a worker hands the bytes and the delivery's attempt to a  *)
(* registry that decodes them, strictly or through an upcaster, and calls  *)
(* the handler of the job's name.  Producers of other releases, and other  *)
(* programs, write to the same queue.                                      *)
(***************************************************************************)

CONSTANTS
    Jobs,               \* job types: records [name, version] (Job::NAME, Job::VERSION)
    JobKeys,            \* texts tried as idempotency keys
    JobTraces,          \* trace contexts tried
    JobPayloads,        \* payload sizes
    JobSpace,           \* MAX_JOB_ENVELOPE_BYTES
    JobNameSpace,       \* MAX_JOB_NAME_BYTES
    JobKeySpace,        \* MAX_JOB_IDEMPOTENCY_KEY_BYTES
    JobTraceSpace,      \* MAX_TRACEPARENT_LEN and MAX_TRACESTATE_LEN
    JobAttempts,        \* u16::MAX
    ForeignJobs         \* envelopes that other programs put on the queue

VARIABLES
    draft,              \* the envelope being built and its job type
    jobWire,            \* the bytes on the queue
    handlers,           \* the registry: [type, compatible], one per name
    jobCall             \* what the last dispatch came to

jobVars == <<draft, jobWire, handlers, jobCall>>

\* The payload keeps the version whose schema it follows (0: none), so neither
\* the deserializer nor the application's upcaster reads one of another schema.
JobEnvelopes == [id : Nat, name : {j.name : j \in Jobs} \cup {f.name : f \in ForeignJobs},
                 version : Nat, payload : [size : Nat, schema : Nat],
                 key : JobKeys \cup {NoText}, attempt : 0 .. JobAttempts,
                 trace : JobTraces \cup {NoTrace}]

JobEnvelopeErrors == {"TooLarge", "InvalidJobName", "UnexpectedJobName", "UnsupportedVersion",
                      "InvalidAttempt", "AttemptOverflow", "BlankIdempotencyKey",
                      "IdempotencyKeyTooLarge", "InvalidTraceContext", "Deserialize"}

NewJobEnvelope(job, size) ==
    [id |-> 1, name |-> job.name, version |-> job.version,
     payload |-> [size |-> size, schema |-> job.version],
     key |-> NoText, attempt |-> 1, trace |-> NoTrace]

IsValidJobName(name) ==
    /\ name.len # 0
    /\ name.len <= JobNameSpace
    /\ name.kind # "nul"
    /\ ~HasWhitespace(name)

JobTraceIsValid(trace) ==
    /\ TracePart(trace.parent, JobTraceSpace)
    /\ Absent(trace.state) \/ TracePart(trace.state, JobTraceSpace)

KeyError(key) ==
    IF Absent(key) \/ OptionalBounded(key, JobKeySpace) THEN "none"
    ELSE IF Blank(key) THEN "BlankIdempotencyKey" ELSE "IdempotencyKeyTooLarge"

JobMetadataError(job, e) ==
    CASE ~IsValidJobName(job.name) \/ ~IsValidJobName(e.name) -> "InvalidJobName"
      [] e.name # job.name -> "UnexpectedJobName"
      [] e.attempt = 0 -> "InvalidAttempt"
      [] KeyError(e.key) # "none" -> KeyError(e.key)
      [] e.trace # NoTrace /\ ~JobTraceIsValid(e.trace) -> "InvalidTraceContext"
      [] OTHER -> "none"

JobValidationError(job, e) ==
    IF JobMetadataError(job, e) # "none" THEN JobMetadataError(job, e)
    ELSE IF e.version # job.version THEN "UnsupportedVersion" ELSE "none"

\* What the serializer writes: the fields of variable length and the payload.
JobBytes(e) == e.payload.size + e.name.len + e.key.len + e.trace.parent.len + e.trace.state.len

JobEncodeError(job, e) ==
    IF JobValidationError(job, e) # "none" THEN JobValidationError(job, e)
    ELSE IF JobBytes(e) > JobSpace THEN "TooLarge" ELSE "none"

\* decode: the size, then the trace context (converted first), then validate.
JobDecode(job, e) ==
    LET error == CASE JobBytes(e) > JobSpace -> "TooLarge"
                   [] e.payload.schema # job.version -> "Deserialize"
                   [] e.trace # NoTrace /\ ~JobTraceIsValid(e.trace) -> "InvalidTraceContext"
                   [] OTHER -> JobValidationError(job, e)
    IN  [error |-> error, envelope |-> e]

\* The application's upcaster turns an older payload into a current one.
JobUpcast(job, e) == [e.payload EXCEPT !.schema = job.version]

JobDecodeCompatible(job, e) ==
    LET error == CASE JobBytes(e) > JobSpace -> "TooLarge"
                   [] e.trace # NoTrace /\ ~JobTraceIsValid(e.trace) -> "InvalidTraceContext"
                   [] JobMetadataError(job, e) # "none" -> JobMetadataError(job, e)
                   [] e.version > job.version -> "UnsupportedVersion"
                   [] e.payload.schema # e.version -> "Deserialize"
                   [] OTHER -> "none"
        payload == IF e.version = job.version THEN e.payload ELSE JobUpcast(job, e)
    IN  [error |-> error,
         envelope |-> [e EXCEPT !.version = job.version, !.payload = payload]]

JobMessageIsAccepted(name, attempt, bytes) ==
    /\ ~Blank(name)
    /\ IsValidJobName(name)
    /\ attempt # 0
    /\ bytes # 0
    /\ bytes <= JobSpace

----------------------------------------------------------------------------
NoDraft == [job |-> [name |-> NoText, version |-> 0], error |-> "none", sent |-> FALSE,
            envelope |-> NewJobEnvelope([name |-> NoText, version |-> 0], 0)]

NoJob == [from |-> "nobody", sent |-> NewJobEnvelope([name |-> NoText, version |-> 0], 0)]

NoCall == [by |-> "nobody", job |-> [name |-> NoText, version |-> 0], attempt |-> 0,
           context |-> NoJob.sent, upcast |-> FALSE, error |-> "none"]

JobInit ==
    /\ draft = NoDraft
    /\ jobWire = NoJob
    /\ handlers = {}
    /\ jobCall = NoCall

Building == draft # NoDraft /\ draft.error = "none" /\ ~draft.sent

Drafted(error, envelope) ==
    /\ draft' = IF error = "none" THEN [draft EXCEPT !.envelope = envelope]
                ELSE [draft EXCEPT !.error = error]
    /\ UNCHANGED <<jobWire, handlers, jobCall>>

NewJob ==
    /\ draft = NoDraft
    /\ \E job \in Jobs, size \in JobPayloads :
          draft' = [NoDraft EXCEPT !.job = job, !.envelope = NewJobEnvelope(job, size)]
    /\ UNCHANGED <<jobWire, handlers, jobCall>>

WithIdempotencyKey ==
    /\ Building
    /\ \E key \in JobKeys :
          Drafted(KeyError(key), [draft.envelope EXCEPT !.key = key])

WithJobTraceContext ==
    /\ Building
    /\ \E trace \in JobTraces :
          Drafted(IF JobTraceIsValid(trace) THEN "none" ELSE "InvalidTraceContext",
                  [draft.envelope EXCEPT !.trace = trace])

NextAttempt ==
    /\ Building
    /\ Drafted(IF draft.envelope.attempt = JobAttempts THEN "AttemptOverflow" ELSE "none",
               [draft.envelope EXCEPT !.attempt = @ + 1])

WithAttempt(e, attempt) ==
    IF attempt = 0 THEN [error |-> "InvalidAttempt", envelope |-> e]
    ELSE [error |-> "none", envelope |-> [e EXCEPT !.attempt = attempt]]

SetAttempt ==
    /\ Building
    /\ \E attempt \in 0 .. JobAttempts :
          LET set == WithAttempt(draft.envelope, attempt)
          IN  Drafted(set.error, set.envelope)

\* JobClient::enqueue: encode, then the publisher.
Enqueue ==
    /\ Building
    /\ jobWire = NoJob
    /\ LET error == JobEncodeError(draft.job, draft.envelope)
       IN  IF error # "none" THEN draft' = [draft EXCEPT !.error = error] /\ jobWire' = jobWire
           ELSE /\ draft' = [draft EXCEPT !.sent = TRUE]
                /\ jobWire' = [from |-> "client", sent |-> draft.envelope]
    /\ UNCHANGED <<handlers, jobCall>>

ForeignWrite ==
    /\ jobWire = NoJob
    /\ draft = NoDraft
    /\ \E e \in ForeignJobs : jobWire' = [from |-> "foreign", sent |-> e]
    /\ UNCHANGED <<draft, handlers, jobCall>>

\* A registry is built before it is served: no name twice, no invalid name.
Register(job, compatible) ==
    /\ jobCall = NoCall
    /\ IsValidJobName(job.name)
    /\ \A h \in handlers : h.job.name # job.name
    /\ handlers' = handlers \cup {[job |-> job, compatible |-> compatible]}
    /\ UNCHANGED <<draft, jobWire, jobCall>>

DispatchOutcome(error, handler, decoded, attempt) ==
    jobCall' = [by |-> IF error = "none" THEN "handler" ELSE "registry",
                job |-> handler.job, attempt |-> attempt,
                context |-> decoded, upcast |-> decoded.payload # jobWire.sent.payload,
                error |-> error]

StrictDispatch(h, attempt) ==
    LET read == JobDecode(h.job, jobWire.sent)
        set == WithAttempt(read.envelope, attempt)
    IN  DispatchOutcome(IF read.error = "none" THEN set.error ELSE "InvalidEnvelope",
                        h, set.envelope, attempt)

CompatibleDispatch(h, attempt) ==
    LET read == JobDecodeCompatible(h.job, jobWire.sent)
        set == WithAttempt(read.envelope, attempt)
    IN  DispatchOutcome(IF read.error = "none" THEN set.error ELSE "InvalidEnvelope",
                        h, set.envelope, attempt)

Dispatch(attempt) ==
    /\ jobWire # NoJob /\ jobCall = NoCall
    /\ LET e == jobWire.sent
           named == {h \in handlers : h.job.name = e.name}
           refused == [NoCall EXCEPT !.by = "registry", !.attempt = attempt]
       IN  CASE attempt = 0 -> jobCall' = [refused EXCEPT !.error = "InvalidAttempt"]
             [] attempt # 0 /\ JobBytes(e) > JobSpace ->
                   jobCall' = [refused EXCEPT !.error = "InvalidEnvelope"]
             [] attempt # 0 /\ JobBytes(e) <= JobSpace /\ named = {} ->
                   jobCall' = [refused EXCEPT !.error = "UnknownJob"]
             [] OTHER -> \E h \in named : IF h.compatible THEN CompatibleDispatch(h, attempt)
                                          ELSE StrictDispatch(h, attempt)
    /\ UNCHANGED <<draft, jobWire, handlers>>

JobNext ==
    \/ NewJob \/ WithIdempotencyKey \/ WithJobTraceContext \/ NextAttempt \/ SetAttempt
    \/ Enqueue \/ ForeignWrite
    \/ \E job \in Jobs, compatible \in BOOLEAN : Register(job, compatible)
    \/ \E attempt \in 0 .. JobAttempts : Dispatch(attempt)

JobSpec == JobInit /\ [][JobNext]_jobVars

----------------------------------------------------------------------------
JobTypeOK ==
    /\ draft = NoDraft \/ (draft.job \in Jobs /\ draft.envelope \in JobEnvelopes)
    /\ draft.error \in JobEnvelopeErrors \cup {"none"}
    /\ jobWire = NoJob \/ jobWire.sent \in JobEnvelopes
    /\ handlers \subseteq [job : Jobs, compatible : BOOLEAN]
    /\ jobCall.error \in {"none", "InvalidAttempt", "InvalidEnvelope", "UnknownJob"}

\* What a client of this library enqueued, a registry that serves the same job
\* type reads, whatever sequence of builder calls made it, and a relay can
\* rebuild its message from the stored parts; a registry of a later version
\* reads it too when it has an upcaster.
EnqueuedIsReadable ==
    jobWire.from = "client" =>
        /\ JobMessageIsAccepted(jobWire.sent.name, jobWire.sent.attempt, JobBytes(jobWire.sent))
        /\ jobCall.attempt # 0 =>
              \A h \in handlers :
                 /\ h.job.name = jobWire.sent.name
                 /\ \/ h.job.version = jobWire.sent.version
                    \/ h.compatible /\ h.job.version > jobWire.sent.version
                 => jobCall.by = "handler"

\* A handler runs only for its own job's name, at its own version, with the
\* attempt the broker counted and not the one stored in the bytes, and its
\* payload was upcast exactly when the bytes were written by an older version.
HandlerSeesItsContract ==
    jobCall.by = "handler" =>
        /\ jobCall.context.name = jobCall.job.name
        /\ jobCall.context.version = jobCall.job.version
        /\ jobCall.context.payload.schema = jobCall.job.version
        /\ jobCall.context.attempt = jobCall.attempt
        /\ jobCall.attempt # 0
        /\ jobCall.upcast <=> jobWire.sent.version < jobCall.job.version

\* A name that is already served keeps the handler that was registered first.
FirstHandlerStays ==
    [][\A h \in handlers : h \in handlers']_jobVars

-----------------------------------------------------------------------------
(***************************************************************************)
(* The typed event contract.  Unlike a job's, an event's envelope is       *)
(* validated field by field while it is built and not again when it is     *)
(* encoded, so that what is published can be read rests on the builders.   *)
(***************************************************************************)

CONSTANTS
    EventContracts,             \* event types: records [type, version] (Event::TYPE, Event::VERSION)
    PartitionKeys,      \* texts tried as partition keys
    MetadataIds,        \* texts tried as correlation and causation ids
    EventTraces,        \* trace contexts tried
    EventPayloads,      \* payload sizes
    EventSpace,         \* MAX_EVENT_ENVELOPE_BYTES and MAX_EVENT_PARTITION_KEY_BYTES
    EventTypeSpace,     \* MAX_EVENT_TYPE_BYTES
    MetadataIdSpace,    \* MAX_EVENT_METADATA_ID_BYTES
    EventTraceSpace,    \* MAX_TRACEPARENT_LEN and MAX_TRACESTATE_LEN
    ForeignEvents       \* envelopes that other programs publish

VARIABLES
    event,              \* the envelope being built and its event type
    eventWire,          \* the published bytes
    eventCall           \* what the last delivery came to

eventVars == <<event, eventWire, eventCall>>

EventEnvelopes == [id : Nat, type : {e.type : e \in EventContracts} \cup {f.type : f \in ForeignEvents},
                   version : Nat, key : PartitionKeys,
                   payload : [size : Nat, schema : Nat],
                   correlation : MetadataIds \cup {NoText},
                   causation : MetadataIds \cup {NoText},
                   trace : EventTraces \cup {NoTrace}]

EventEnvelopeErrors == {"TooLarge", "UnexpectedEventType", "InvalidEventType",
                        "UnsupportedVersion", "BlankKey", "KeyTooLarge", "InvalidMetadataId",
                        "InvalidTraceContext", "Deserialize"}

IsValidEventType(type) == ~Blank(type) /\ type.len <= EventTypeSpace /\ type.kind # "nul"

PartitionKeyError(key) ==
    CASE Blank(key) -> "BlankKey" [] key.len > EventSpace -> "KeyTooLarge" [] OTHER -> "none"

MetadataIdError(id) ==
    IF OptionalBounded(id, MetadataIdSpace) THEN "none" ELSE "InvalidMetadataId"

EventTraceIsValid(trace) ==
    /\ TracePart(trace.parent, EventTraceSpace)
    /\ Absent(trace.state) \/ TracePart(trace.state, EventTraceSpace)

EventMetadataError(type, e) ==
    CASE e.type # type.type -> "UnexpectedEventType"
      [] ~IsValidEventType(e.type) -> "InvalidEventType"
      [] PartitionKeyError(e.key) # "none" -> PartitionKeyError(e.key)
      [] MetadataIdError(e.correlation) # "none" -> MetadataIdError(e.correlation)
      [] MetadataIdError(e.causation) # "none" -> MetadataIdError(e.causation)
      [] e.trace # NoTrace /\ ~EventTraceIsValid(e.trace) -> "InvalidTraceContext"
      [] OTHER -> "none"

EventValidationError(type, e) ==
    IF EventMetadataError(type, e) # "none" THEN EventMetadataError(type, e)
    ELSE IF e.version # type.version THEN "UnsupportedVersion" ELSE "none"

EventBytes(e) == e.payload.size + e.type.len + e.key.len + e.correlation.len
                    + e.causation.len + e.trace.parent.len + e.trace.state.len

EventDecode(type, e) ==
    LET error == CASE EventBytes(e) > EventSpace -> "TooLarge"
                   [] e.payload.schema # type.version -> "Deserialize"
                   [] e.trace # NoTrace /\ ~EventTraceIsValid(e.trace) -> "InvalidTraceContext"
                   [] OTHER -> EventValidationError(type, e)
    IN  [error |-> error, envelope |-> e]

EventUpcast(type, e) == [e.payload EXCEPT !.schema = type.version]

EventDecodeCompatible(type, e) ==
    LET error == CASE EventBytes(e) > EventSpace -> "TooLarge"
                   [] e.trace # NoTrace /\ ~EventTraceIsValid(e.trace) -> "InvalidTraceContext"
                   [] EventMetadataError(type, e) # "none" -> EventMetadataError(type, e)
                   [] e.version > type.version -> "UnsupportedVersion"
                   [] e.payload.schema # e.version -> "Deserialize"
                   [] OTHER -> "none"
        payload == IF e.version = type.version THEN e.payload ELSE EventUpcast(type, e)
    IN  [error |-> error,
         envelope |-> [e EXCEPT !.version = type.version, !.payload = payload]]

EventMessageIsAccepted(type, key, bytes) ==
    /\ IsValidEventType(type)
    /\ ~Blank(key)
    /\ key.len <= EventSpace
    /\ bytes # 0
    /\ bytes <= EventSpace

----------------------------------------------------------------------------
NoEvent == [id |-> 1, type |-> NoText, version |-> 0, key |-> NoText,
            payload |-> [size |-> 0, schema |-> 0], correlation |-> NoText,
            causation |-> NoText, trace |-> NoTrace]

NoEventDraft == [type |-> [type |-> NoText, version |-> 0], envelope |-> NoEvent,
                 error |-> "none", sent |-> FALSE]

NoDelivery == [by |-> "nobody", type |-> NoEventDraft.type, compatible |-> FALSE,
               context |-> NoEvent, error |-> "none"]

EventInit ==
    /\ event = NoEventDraft
    /\ eventWire = [from |-> "nobody", sent |-> NoEvent]
    /\ eventCall = NoDelivery

BuildingEvent == event # NoEventDraft /\ event.error = "none" /\ ~event.sent

EventDrafted(error, envelope) ==
    /\ event' = IF error = "none" THEN [event EXCEPT !.envelope = envelope]
                ELSE [event EXCEPT !.error = error]
    /\ UNCHANGED <<eventWire, eventCall>>

NewEvent ==
    /\ event = NoEventDraft
    /\ \E type \in EventContracts, key \in PartitionKeys, size \in EventPayloads :
          event' = [NoEventDraft EXCEPT !.type = type,
                        !.error = IF ~IsValidEventType(type.type) THEN "InvalidEventType"
                                  ELSE PartitionKeyError(key),
                        !.envelope = [NoEvent EXCEPT !.type = type.type, !.key = key,
                                         !.version = type.version,
                                         !.payload = [size |-> size, schema |-> type.version]]]
    /\ UNCHANGED <<eventWire, eventCall>>

WithCorrelationId ==
    /\ BuildingEvent
    /\ \E id \in MetadataIds :
          EventDrafted(MetadataIdError(id), [event.envelope EXCEPT !.correlation = id])

WithCausationId ==
    /\ BuildingEvent
    /\ \E id \in MetadataIds :
          EventDrafted(MetadataIdError(id), [event.envelope EXCEPT !.causation = id])

\* EventTraceContext::new validates; with_trace_context only stores.
WithEventTraceContext ==
    /\ BuildingEvent
    /\ \E trace \in EventTraces :
          EventDrafted(IF EventTraceIsValid(trace) THEN "none" ELSE "InvalidTraceContext",
                       [event.envelope EXCEPT !.trace = trace])

\* EventClient::publish: encode checks the size and nothing else.
Publish ==
    /\ BuildingEvent
    /\ eventWire.from = "nobody"
    /\ IF EventBytes(event.envelope) > EventSpace
       THEN event' = [event EXCEPT !.error = "TooLarge"] /\ UNCHANGED eventWire
       ELSE /\ event' = [event EXCEPT !.sent = TRUE]
            /\ eventWire' = [from |-> "client", sent |-> event.envelope]
    /\ UNCHANGED eventCall

ForeignPublish ==
    /\ event = NoEventDraft
    /\ eventWire.from = "nobody"
    /\ \E e \in ForeignEvents : eventWire' = [from |-> "foreign", sent |-> e]
    /\ UNCHANGED <<event, eventCall>>

\* A consumer of one event type decodes the bytes and calls its handler.
Deliver(type, compatible) ==
    /\ eventWire.from # "nobody"
    /\ eventCall = NoDelivery
    /\ LET read == IF compatible THEN EventDecodeCompatible(type, eventWire.sent)
                   ELSE EventDecode(type, eventWire.sent)
       IN  eventCall' = [by |-> IF read.error = "none" THEN "handler" ELSE "consumer",
                         type |-> type, compatible |-> compatible,
                         context |-> read.envelope, error |-> read.error]
    /\ UNCHANGED <<event, eventWire>>

EventNext ==
    \/ NewEvent \/ WithCorrelationId \/ WithCausationId \/ WithEventTraceContext
    \/ Publish \/ ForeignPublish
    \/ \E type \in EventContracts, compatible \in BOOLEAN : Deliver(type, compatible)

EventSpec == EventInit /\ [][EventNext]_eventVars

----------------------------------------------------------------------------
EventTypeOK ==
    /\ event = NoEventDraft \/ (event.type \in EventContracts /\ event.envelope \in EventEnvelopes)
    /\ {event.error, eventCall.error} \subseteq EventEnvelopeErrors \cup {"none"}
    /\ eventWire.from = "nobody" \/ eventWire.sent \in EventEnvelopes

\* Although encoding an event validates nothing, every published event can be
\* rebuilt from its stored parts, and a consumer of the same event type reads
\* it, as does one of a later version that has an upcaster.
PublishedIsReadable ==
    eventWire.from = "client" =>
        /\ EventMessageIsAccepted(eventWire.sent.type, eventWire.sent.key,
                                  EventBytes(eventWire.sent))
        /\ /\ eventCall.type.type = eventWire.sent.type
           /\ \/ eventCall.type.version = eventWire.sent.version
              \/ eventCall.compatible /\ eventCall.type.version > eventWire.sent.version
           => eventCall.by = "handler"

\* A handler sees an event of its own type and version only, with the
\* producer's identity, key and causal metadata; a payload of another version
\* reaches it only from an older producer and through the upcaster.
ConsumerSeesItsContract ==
    eventCall.by = "handler" =>
        /\ eventCall.context.type = eventCall.type.type
        /\ eventCall.context.version = eventCall.type.version
        /\ eventCall.context.payload.schema = eventCall.type.version
        /\ \A f \in {"id", "key", "correlation", "causation", "trace"} :
              eventCall.context[f] = eventWire.sent[f]
        /\ eventWire.sent.version <= eventCall.type.version
        /\ eventWire.sent.version < eventCall.type.version => eventCall.compatible

-----------------------------------------------------------------------------
(***************************************************************************)
(* Deployments verify their catalog of event schemas against a shared      *)
(* Confluent schema registry before they serve: for each schema, in order, *)
(* the subject's compatibility policy, a lookup, and when the schema is    *)
(* missing a registration and a second lookup.  Any request may be lost    *)
(* before or after the registry applied it, deployments run concurrently   *)
(* and a failed one is started again.                                      *)
(***************************************************************************)

CONSTANTS
    Deployments,
    CatalogsTried,      \* sequences of schemas that deployments build a catalog from
    RemoteAnswers,      \* how the registry's answers arrive
    AnswerSpace,        \* max_response_bytes
    SchemaSpace,        \* MAX_SCHEMA_LEN
    SubjectSpace,       \* MAX_SUBJECT_LEN
    SchemaTypeSpace,    \* MAX_EVENT_TYPE_BYTES
    RemotePolicies      \* compatibility levels the subjects may have in the registry

VARIABLES
    catalog,            \* catalog[d]: the schemas of deployment d
    deploy,             \* deploy[d]: where its verification is
    remote,             \* remote[s]: the definitions of subject s, by version
    remotePolicy        \* remotePolicy[s]: the registry's level for s

schemaVars == <<catalog, deploy, remote, remotePolicy>>

SchemaSubjectIsValid(subject) ==
    /\ subject.len # 0
    /\ subject.len <= SubjectSpace
    /\ subject.kind = "plain"           \* not "." or "..", only letters, digits, . _ -

EventSchemaIsValid(schema) ==
    /\ ~Blank(schema.type) /\ schema.type.len <= SchemaTypeSpace
    /\ schema.type.kind = "plain"       \* no NUL, no whitespace, ASCII
    /\ schema.version # 0
    /\ schema.definition.len \in 1 .. SchemaSpace
    /\ schema.definition.shape = "object"

\* Schemas are added one by one, each checked against those of its subject.
CatalogIsConsistent(schemas) ==
    \A i, j \in DOMAIN schemas :
        i < j /\ schemas[i].subject = schemas[j].subject =>
            /\ schemas[i].type = schemas[j].type
            /\ schemas[i].compatibility = schemas[j].compatibility
            /\ schemas[i].version # schemas[j].version

CatalogIsBuilt(schemas) ==
    /\ \A i \in DOMAIN schemas :
          SchemaSubjectIsValid(schemas[i].subject) /\ EventSchemaIsValid(schemas[i])
    /\ CatalogIsConsistent(schemas)

Schemas(d) == {catalog[d][i] : i \in DOMAIN catalog[d]}

\* Verification walks the sorted catalog; subjects sort by their length here.
Before(s, t) ==
    \/ s.subject.len < t.subject.len
    \/ s.subject = t.subject /\ s.version < t.version

\* The mutated form of Pending: the newest version of a subject first.
NewestPending(d) ==
    CHOOSE s \in Schemas(d) \ deploy[d].verified :
        \A t \in Schemas(d) \ deploy[d].verified : s = t \/ ~Before(s, t)

Pending(d) ==
    CHOOSE s \in Schemas(d) \ deploy[d].verified :
        \A t \in Schemas(d) \ deploy[d].verified : s = t \/ Before(s, t)

TextSum(chunks) ==
    LET sum[i \in 0 .. Len(chunks)] == IF i = 0 THEN 0 ELSE sum[i - 1] + chunks[i]
    IN  sum[Len(chunks)]

HasRegistryContentType(answer) == answer.media \in {"registry", "json"}

DecodeAnswer(answer) ==
    CASE ~HasRegistryContentType(answer) -> "MalformedResponse"
      [] HasRegistryContentType(answer) /\ answer.declared > AnswerSpace -> "ResponseTooLarge"
      [] HasRegistryContentType(answer) /\ answer.declared <= AnswerSpace ->
            CASE TextSum(answer.chunks) > AnswerSpace -> "ResponseTooLarge"
              [] TextSum(answer.chunks) <= AnswerSpace /\ answer.cut -> "Request"
              [] OTHER -> IF answer.wellFormed THEN "none" ELSE "MalformedResponse"

VerifiedAgainst(schema, version, definition) ==
    version = schema.version /\ definition = schema.definition

----------------------------------------------------------------------------
AllSchemas == UNION {{schemas[i] : i \in DOMAIN schemas} : schemas \in CatalogsTried}

Idle == [at |-> "new", verified |-> {}, error |-> "none"]

SchemaInit ==
    /\ catalog \in [Deployments -> CatalogsTried]
    /\ deploy = [d \in Deployments |-> Idle]
    /\ remote = [s \in {t.subject : t \in AllSchemas} |-> <<>>]
    /\ remotePolicy \in [DOMAIN remote -> RemotePolicies]

Goto(d, at) == deploy' = [deploy EXCEPT ![d].at = at]

FailDeploy(d, error) ==
    deploy' = [deploy EXCEPT ![d].at = "failed", ![d].error = error]

BuildCatalog(d) ==
    /\ deploy[d].at = "new"
    /\ IF CatalogIsBuilt(catalog[d]) THEN Goto(d, "policy")
       ELSE deploy' = [deploy EXCEPT ![d].at = "refused"]
    /\ UNCHANGED <<catalog, remote, remotePolicy>>

CheckPolicy(d) ==
    /\ deploy[d].at = "policy"
    /\ Schemas(d) # deploy[d].verified
    /\ \E answer \in RemoteAnswers :
          CASE DecodeAnswer(answer) # "none" -> FailDeploy(d, DecodeAnswer(answer))
            [] remotePolicy[Pending(d).subject] # Pending(d).compatibility ->
                  FailDeploy(d, "CompatibilityPolicyMismatch")
            [] OTHER -> Goto(d, "lookup")
    /\ UNCHANGED <<catalog, remote, remotePolicy>>

\* The registry finds a schema by its definition and answers with its version.
RemoteVersions(schema) ==
    {v \in DOMAIN remote[schema.subject] : remote[schema.subject][v] = schema.definition}

Confirmed(d) ==
    deploy' = [deploy EXCEPT ![d].at = "policy", ![d].verified = @ \cup {Pending(d)}]

Lookup(d) ==
    /\ deploy[d].at \in {"lookup", "confirm"}
    /\ \E answer \in RemoteAnswers :
          IF RemoteVersions(Pending(d)) = {}
          THEN IF deploy[d].at = "lookup" THEN Goto(d, "register")
               ELSE FailDeploy(d, "RegistrationNotVisible")
          ELSE \E v \in RemoteVersions(Pending(d)) :
                  CASE DecodeAnswer(answer) # "none" -> FailDeploy(d, DecodeAnswer(answer))
                    [] ~VerifiedAgainst(Pending(d), v, remote[Pending(d).subject][v]) ->
                          FailDeploy(d, "ArtifactMismatch")
                    [] OTHER -> Confirmed(d)
    /\ UNCHANGED <<catalog, remote, remotePolicy>>

\* The registry keeps a definition once per subject.
Stored(schema) ==
    IF RemoteVersions(schema) = {}
    THEN [remote EXCEPT ![schema.subject] = Append(@, schema.definition)]
    ELSE remote

RegisterSchema(d) ==
    /\ deploy[d].at = "register"
    /\ \/ /\ remote' = Stored(Pending(d))
          /\ \E answer \in RemoteAnswers :
                IF DecodeAnswer(answer) = "none" THEN Goto(d, "confirm")
                ELSE FailDeploy(d, DecodeAnswer(answer))
       \/ /\ UNCHANGED remote
          /\ \E error \in {"IncompatibleSchema", "RegistrationRejected"} : FailDeploy(d, error)
    /\ UNCHANGED <<catalog, remotePolicy>>

\* A request that never arrived, or whose answer was lost after it was applied.
RequestLost(d) ==
    /\ deploy[d].at \in {"policy", "lookup", "register", "confirm"}
    /\ Schemas(d) # deploy[d].verified
    /\ FailDeploy(d, "Request")
    /\ \/ UNCHANGED remote
       \/ deploy[d].at = "register" /\ remote' = Stored(Pending(d))
    /\ UNCHANGED <<catalog, remotePolicy>>

VerifyEnds(d) ==
    /\ deploy[d].at = "policy"
    /\ Schemas(d) = deploy[d].verified
    /\ Goto(d, "served")
    /\ UNCHANGED <<catalog, remote, remotePolicy>>

Redeploy(d) ==
    /\ deploy[d].at = "failed"
    /\ deploy' = [deploy EXCEPT ![d] = Idle]
    /\ UNCHANGED <<catalog, remote, remotePolicy>>

SchemaNext ==
    \E d \in Deployments :
        BuildCatalog(d) \/ CheckPolicy(d) \/ Lookup(d) \/ RegisterSchema(d) \/ RequestLost(d)
            \/ VerifyEnds(d) \/ Redeploy(d)

SchemaSpec == SchemaInit /\ [][SchemaNext]_schemaVars

----------------------------------------------------------------------------
SchemaTypeOK ==
    /\ \A d \in Deployments :
          /\ deploy[d].at \in {"new", "policy", "lookup", "register", "confirm", "failed",
                               "served", "refused"}
          /\ deploy[d].verified \subseteq Schemas(d)
    /\ \A s \in DOMAIN remote : remote[s] \in Seq({t.definition : t \in AllSchemas})

\* A deployment serves only when every schema of its catalog is in the registry
\* with its own definition under its own version, whatever deployments with
\* other catalogs registered meanwhile.
ServedIsRegistered ==
    \A d \in Deployments :
        deploy[d].at = "served" =>
            \A s \in Schemas(d) :
                /\ s.version \in DOMAIN remote[s.subject]
                /\ remote[s.subject][s.version] = s.definition
                /\ remotePolicy[s.subject] = s.compatibility

\* The catalogs of all deployments name the same history: versions without a
\* gap, one definition for each, no definition twice.
Agreed ==
    LET all == UNION {Schemas(d) : d \in Deployments}
    IN  /\ \A d \in Deployments : CatalogIsBuilt(catalog[d])
        /\ \A s, t \in all : s.subject = t.subject =>
              (s.version = t.version <=> s.definition = t.definition)
        /\ \A d \in Deployments : \A s \in Schemas(d) : \A v \in 1 .. s.version :
              \E t \in Schemas(d) : t.subject = s.subject /\ t.version = v

\* Deployments that agree on the history, an old and a new release of one
\* service say, never make each other fail: lost answers, restarts and
\* concurrent registrations leave every version where the catalogs put it.
AgreedNeverMismatch ==
    Agreed => \A d \in Deployments :
        deploy[d].error \notin {"ArtifactMismatch", "RegistrationNotVisible"}

(* What one release publishes another one reads, a handler sees only its own   *)
(* contract and keeps its name, and a deployment serves only with its schemas  *)
(* registered, without making an agreeing one fail.                            *)
ContractsAreKept ==
  /\ [](JobTypeOK
        /\ EventTypeOK
        /\ SchemaTypeOK
        /\ EnqueuedIsReadable
        /\ HandlerSeesItsContract
        /\ PublishedIsReadable
        /\ ConsumerSeesItsContract
        /\ ServedIsRegistered
        /\ AgreedNeverMismatch)
  /\ FirstHandlerStays
=============================================================================
