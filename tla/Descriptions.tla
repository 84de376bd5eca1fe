---------------------------- MODULE Descriptions ----------------------------
(* What a service says about itself: its OpenAPI document and its metrics.  *)
EXTENDS EnvelopeText, Sequences, FiniteSets, Integers
LOCAL INSTANCE Functions
LOCAL INSTANCE SequencesExt

-----------------------------------------------------------------------------
(***************************************************************************)
(* Building an OpenAPI document: the calls of OpenApiDocument and of the   *)
(* operation builder, in any order.  Every call consumes its receiver, so  *)
(* a call that fails takes the whole document with it.                     *)
(***************************************************************************)

CONSTANTS
    MetadataSpace,      \* MAX_METADATA_CHARS
    SchemaLimit,        \* MAX_SCHEMA_BYTES
    Identifiers,        \* texts tried as names of schemes, components, operations
    Labels,             \* texts tried as summaries, tags, descriptions
    ParameterNames,     \* texts tried as parameter names
    SchemesTried,       \* arguments of the security scheme constructors
    RequirementsTried,  \* sequences of (scheme, scopes) handed to and_scoped
    SchemasTried,       \* arguments of the schema constructors
    RoutesTried,        \* route templates, as sequences of segments
    MaxCalls            \* calls in one run

VARIABLES
    document,           \* the document, or Lost after a failed call
    operation,          \* the operation being built, or NotBuilding
    apiCalls

openApiVars == <<document, operation, apiCalls>>

Lost == [status |-> "lost"]
NotBuilding == [status |-> "none"]
Refused == [status |-> "refused"]
Methods == {"get", "post"}
Locations == {"path", "query", "header"}
-----------------------------------------------------------------------------
MetadataIsValid(t) == ~Blank(t) /\ t.len <= MetadataSpace /\ t.kind # "nul"
IdentifierIsValid(t) ==
    t.len > 0 /\ t.len <= MetadataSpace /\ t.kind \in {"plain", "upper"}

(* Header names compare in lower case. *)
LowerCase(t) == IF t.kind = "upper" THEN [t EXCEPT !.kind = "plain"] ELSE t
HeaderNameIsValid(t) == t.len > 0 /\ t.kind \in {"plain", "upper"}

ScopeIsValid(t) == t.len > 0 /\ t.len <= MetadataSpace /\ t.kind \in {"plain", "upper"}

(* A URL is its scheme, whether its host is a loopback one, and whether it *)
(* carries credentials, a query or a fragment.                             *)
UrlIsValid(u) ==
    /\ u.scheme = "https" \/ (u.scheme = "http" /\ u.loopback)
    /\ ~u.extras
-----------------------------------------------------------------------------
(***************************************************************************)
(* Schemas: what a constructor is given, and the schema or Refused.        *)
(***************************************************************************)
FromValue(isObject, size) ==
    IF isObject /\ size <= SchemaLimit
    THEN [status |-> "schema", size |-> size] ELSE Refused

ObjectSchema(properties, required, size) ==
    IF /\ \A n \in required : MetadataIsValid(n) /\ n \in properties
       /\ \A n \in properties : MetadataIsValid(n)
    THEN FromValue(TRUE, size) ELSE Refused

ComponentReference(name) ==
    IF IdentifierIsValid(name) THEN FromValue(TRUE, name.len) ELSE Refused

SchemaFrom(a) ==
    CASE a.form = "value" -> FromValue(a.isObject, a.size)
      [] a.form = "object" -> ObjectSchema(a.properties, a.required, a.size)
      [] a.form = "reference" -> ComponentReference(a.name)
-----------------------------------------------------------------------------
(***************************************************************************)
(* Security schemes and requirements.                                      *)
(***************************************************************************)
NoDuplicates(s) == Cardinality(Range(s)) = Len(s)

OAuthScopes(scopes) ==
    /\ \A i \in DOMAIN scopes : ScopeIsValid(scopes[i])
    /\ NoDuplicates(scopes)

AuthorizationCode(f) == UrlIsValid(f.authorize) /\ UrlIsValid(f.token) /\ OAuthScopes(f.scopes)
ClientCredentials(f) == UrlIsValid(f.token) /\ OAuthScopes(f.scopes)
FlowIsValid(f) ==
    IF f.flow = "authorizationCode" THEN AuthorizationCode(f) ELSE ClientCredentials(f)

ApiKey(a) ==
    /\ MetadataIsValid(a.name)
    /\ a.location = "header" => HeaderNameIsValid(a.name)

OAuth2(flows) ==
    /\ NoDuplicates([i \in DOMAIN flows |-> flows[i].flow])
    /\ flows # <<>>

SchemeFrom(a) ==
    IF CASE a.type = "apiKey" -> ApiKey(a)
         [] a.type = "openIdConnect" -> UrlIsValid(a.url)
         [] a.type = "oauth2" -> /\ \A i \in DOMAIN a.flows : FlowIsValid(a.flows[i])
                                 /\ OAuth2(a.flows)
         [] OTHER -> TRUE
    THEN [status |-> "scheme", type |-> a.type,
          scopes |-> IF a.type # "oauth2" THEN {}
                     ELSE UNION {Range(a.flows[i].scopes) : i \in DOMAIN a.flows}]
    ELSE Refused

(* anonymous() followed by one and_scoped per pair. *)
AndScoped(requirement, pair) ==
    IF \/ requirement = Refused
       \/ ~IdentifierIsValid(pair.scheme)
       \/ \E i \in DOMAIN pair.scopes : ~ScopeIsValid(pair.scopes[i])
       \/ pair.scheme \in DOMAIN requirement.schemes
    THEN Refused
    ELSE [requirement EXCEPT !.schemes =
             [n \in DOMAIN @ \cup {pair.scheme} |->
                 IF n = pair.scheme THEN Range(pair.scopes) ELSE @[n]]]

Anonymous == [status |-> "requirement", schemes |-> [n \in {} |-> {}]]

RequirementFrom(pairs) == FoldLeft(AndScoped, Anonymous, pairs)

RequiredScopesAreValid(scheme, scopes) ==
    \/ scopes = {}
    \/ scheme.type = "openIdConnect"
    \/ scheme.type = "oauth2" /\ scopes \subseteq scheme.scopes

RequirementIsValid(d, r) ==
    \A n \in DOMAIN r.schemes :
        /\ n \in DOMAIN d.schemes
        /\ RequiredScopesAreValid(d.schemes[n], r.schemes[n])
-----------------------------------------------------------------------------
(***************************************************************************)
(* Routes.  A segment is [param |-> BOOLEAN, name |-> text]; the template  *)
(* is refused on an invalid or repeated parameter.                         *)
(***************************************************************************)
RouteParameters(segments) == {s \in Range(segments) : s.param}

FromRustee(segments) ==
    IF /\ \A s \in RouteParameters(segments) :
              s.name.len > 0 /\ s.name.kind \in {"plain", "upper"}
       /\ \A i, j \in DOMAIN segments :
              segments[i].param /\ segments[i] = segments[j] => i = j
    THEN [status |-> "route", path |-> segments,
          parameters |-> {s.name : s \in RouteParameters(segments)}]
    ELSE Refused
-----------------------------------------------------------------------------
(***************************************************************************)
(* The operation builder.  asked counts the responses the application gave *)
(* it; every other field is the builder's.                                 *)
(***************************************************************************)
NewOperation(id) ==
    [status |-> "building", id |-> id, labels |-> {}, parameters |-> <<>>,
     body |-> FALSE, responses |-> [s \in {} |-> NoText], duplicate |-> FALSE,
     inherits |-> TRUE, security |-> <<>>, asked |-> 0]

WithResponse(b, code, text) ==
    [b EXCEPT !.duplicate = @ \/ code \in DOMAIN b.responses,
              !.responses = [s \in DOMAIN @ \cup {code} |-> IF s = code THEN text ELSE @[s]],
              !.asked = @ + 1]

SecurityRequirement(b, r) ==
    [b EXCEPT !.inherits = FALSE, !.security = Append(@, r)]

AnonymousAccess(b) ==
    [b EXCEPT !.inherits = FALSE, !.security = Append(@, Anonymous)]

ClearSecurityRequirements(b) == [b EXCEPT !.inherits = FALSE, !.security = <<>>]

ParameterKey(p) ==
    <<p.location, IF p.location = "header" THEN LowerCase(p.name) ELSE p.name>>

BuildSucceeds(b) ==
    /\ IdentifierIsValid(b.id)
    /\ \A l \in b.labels : MetadataIsValid(l)
    /\ \A i \in DOMAIN b.parameters :
           /\ MetadataIsValid(b.parameters[i].name)
           /\ b.parameters[i].location = "header"
                  => HeaderNameIsValid(b.parameters[i].name)
    /\ NoDuplicates([i \in DOMAIN b.parameters |-> ParameterKey(b.parameters[i])])
    /\ ~b.duplicate
    /\ DOMAIN b.responses # {}
    /\ \A s \in DOMAIN b.responses : MetadataIsValid(b.responses[s])

PathParameterNames(b) ==
    {p.name : p \in {p \in Range(b.parameters) : p.location = "path"}}
-----------------------------------------------------------------------------
NewDocument ==
    [status |-> "open", operations |-> [k \in {} |-> NotBuilding], ids |-> {},
     components |-> {}, schemes |-> [n \in {} |-> Refused], security |-> <<>>]

OpenApiInit ==
    /\ document = NewDocument
    /\ operation = NotBuilding
    /\ apiCalls = 0

Call == document # Lost /\ apiCalls < MaxCalls /\ apiCalls' = apiCalls + 1

(* A fallible document call: the new document, or none at all. *)
Becomes(ok, d) ==
    /\ document' = IF ok THEN d ELSE Lost
    /\ UNCHANGED operation

Component(name, a) ==
    /\ Call
    /\ SchemaFrom(a) # Refused
    /\ Becomes(IdentifierIsValid(name) /\ name \notin document.components,
               [document EXCEPT !.components = @ \cup {name}])

SecurityScheme(name, a) ==
    /\ Call
    /\ SchemeFrom(a) # Refused
    /\ Becomes(IdentifierIsValid(name) /\ name \notin DOMAIN document.schemes,
               [document EXCEPT !.schemes =
                   [n \in DOMAIN @ \cup {name} |-> IF n = name THEN SchemeFrom(a) ELSE @[n]]])

GlobalSecurityRequirement(r) ==
    /\ Call
    /\ r # Refused
    /\ Becomes(RequirementIsValid(document, r),
               [document EXCEPT !.security = Append(@, r)])

StartOperation(id) ==
    /\ document # Lost
    /\ operation = NotBuilding
    /\ operation' = NewOperation(id)
    /\ UNCHANGED <<document, apiCalls>>

(* The builder's infallible setters. *)
Describe ==
    /\ Call
    /\ operation # NotBuilding
    /\ \/ \E l \in Labels : operation' = [operation EXCEPT !.labels = @ \cup {l}]
       \/ \E n \in ParameterNames, w \in Locations :
              operation' = [operation EXCEPT !.parameters =
                               Append(@, [name |-> n, location |-> w])]
       \/ operation' = [operation EXCEPT !.body = TRUE]
       \/ \E code \in {200, 404}, l \in Labels :
              operation' = WithResponse(operation, code, l)
       \/ \E pairs \in RequirementsTried :
              /\ RequirementFrom(pairs) # Refused
              /\ operation' = SecurityRequirement(operation, RequirementFrom(pairs))
       \/ operation' = AnonymousAccess(operation)
       \/ operation' = ClearSecurityRequirements(operation)
    /\ UNCHANGED document

(* build() refuses the operation alone: the document is not in the call. *)
BuildRefused ==
    /\ document # Lost /\ operation # NotBuilding
    /\ ~BuildSucceeds(operation)
    /\ operation' = NotBuilding
    /\ UNCHANGED <<document, apiCalls>>

(* build() and the document's operation(). *)
AddOperation(route, method) ==
    /\ document # Lost /\ operation # NotBuilding
    /\ BuildSucceeds(operation)
    /\ operation' = NotBuilding
    /\ document' =
           IF /\ route.parameters = PathParameterNames(operation)
              /\ \A i \in DOMAIN operation.security :
                     RequirementIsValid(document, operation.security[i])
              /\ <<route.path, method>> \notin DOMAIN document.operations
              /\ operation.id \notin document.ids
           THEN [document EXCEPT
                    !.ids = @ \cup {operation.id},
                    !.operations = [k \in DOMAIN @ \cup {<<route.path, method>>} |->
                        IF k = <<route.path, method>> THEN operation ELSE @[k]]]
           ELSE Lost
    /\ UNCHANGED apiCalls

OpenApiNext ==
    \/ \E n \in Identifiers :
           \/ \E a \in SchemasTried : Component(n, a)
           \/ \E a \in SchemesTried : SecurityScheme(n, a)
           \/ StartOperation(n)
    \/ \E pairs \in RequirementsTried : GlobalSecurityRequirement(RequirementFrom(pairs))
    \/ Describe
    \/ BuildRefused
    \/ \E segments \in RoutesTried, m \in Methods :
           /\ FromRustee(segments) # Refused
           /\ AddOperation(FromRustee(segments), m)

OpenApiSpec == OpenApiInit /\ [][OpenApiNext]_openApiVars
-----------------------------------------------------------------------------
(***************************************************************************)
(* What to_value renders.                                                  *)
(***************************************************************************)
OperationValue(o) ==
    [operationId |-> o.id,
     parameters |-> {[name |-> p.name, in |-> p.location] : p \in Range(o.parameters)},
     security |-> IF o.inherits THEN <<>> ELSE <<o.security>>,
     responses |-> DOMAIN o.responses]

DocumentValue(d) ==
    [paths |-> [k \in DOMAIN d.operations |-> OperationValue(d.operations[k])],
     security |-> d.security,
     schemes |-> d.schemes]

OpenApiTypeOK ==
    /\ apiCalls \in 0..MaxCalls
    /\ document.status \in {"open", "lost"}
    /\ operation.status \in {"none", "building"}
    /\ document # Lost =>
           /\ document.ids \subseteq Identifiers
           /\ DOMAIN document.schemes \subseteq Identifiers
           /\ document.components \subseteq Identifiers

(* The alternatives a client has for one rendered operation. *)
Alternatives(v, k) ==
    IF v.paths[k].security = <<>> THEN v.security ELSE v.paths[k].security[1]

(***************************************************************************)
(* In the document that is served, whatever the order of calls that built  *)
(* it, every alternative of every operation, its own or the document's,    *)
(* names schemes the document declares and scopes those schemes offer.     *)
(***************************************************************************)
SecurityResolves ==
    document # Lost =>
        LET v == DocumentValue(document)
        IN  \A k \in DOMAIN v.paths : \A i \in DOMAIN Alternatives(v, k) :
                LET r == Alternatives(v, k)[i].schemes
                IN  \A n \in DOMAIN r :
                        /\ n \in DOMAIN v.schemes
                        /\ r[n] # {} => \/ v.schemes[n].type = "openIdConnect"
                                        \/ /\ v.schemes[n].type = "oauth2"
                                           /\ r[n] \subseteq v.schemes[n].scopes

(***************************************************************************)
(* No two operations of a served document share an id, no operation lists  *)
(* a header twice in two spellings, and its path parameters are exactly    *)
(* those of the template it is served under.                               *)
(***************************************************************************)
OperationsMatchTheirRoutes ==
    document # Lost =>
        LET v == DocumentValue(document)
        IN  /\ \A k, l \in DOMAIN v.paths :
                   v.paths[k].operationId = v.paths[l].operationId => k = l
            /\ \A k \in DOMAIN v.paths :
                   /\ {p.name : p \in {p \in v.paths[k].parameters : p.in = "path"}}
                          = FromRustee(k[1]).parameters
                   /\ \A p, q \in v.paths[k].parameters :
                          p.in = "header" /\ q.in = "header"
                              /\ LowerCase(p.name) = LowerCase(q.name) => p = q

(***************************************************************************)
(* A response the application declared is never silently replaced: an      *)
(* operation in a served document has as many responses as were declared,  *)
(* in whatever order the builder was called.                               *)
(***************************************************************************)
NoResponseIsReplaced ==
    document # Lost =>
        \A k \in DOMAIN document.operations :
            Cardinality(DocumentValue(document).paths[k].responses)
                = document.operations[k].asked

-----------------------------------------------------------------------------
(***************************************************************************)
(* The metrics of the framework: six collectors of the same build (job and *)
(* event deliveries, outbox relay passes, scheduler fire passes, delayed   *)
(* Kafka retry passes, HTTP requests), the observation guards that feed    *)
(* them from the tasks they watch, and the Prometheus text a scrape        *)
(* returns.  A guard reports its start when it is made and its end exactly *)
(* once: by finish, or by its destructor when the task is dropped.  Every  *)
(* collector method takes one mutex, so a method is one step.              *)
(***************************************************************************)

CONSTANTS
    Tasks,              \* the tasks that are watched
    Providers,          \* the provider names deliveries come from
    DirectLabels,       \* MAX_DIRECT_PROVIDER_LABELS
    Durations,          \* how long a task may take
    BucketsTried,       \* bucket lists handed to with_duration_buckets
    MaxBuckets,         \* MAX_DURATION_BUCKETS
    CounterMax,         \* u64::MAX, small enough to be reached
    MaxStarts           \* starts before the run stops

VARIABLES
    which,              \* the collector this behaviour watches
    metric,             \* the state behind its mutex
    watched,            \* task -> the guard it holds
    starts,             \* how many guards were made
    happened            \* (guard key, duration) -> how many ended so

metricVars == <<which, metric, watched, starts, happened>>

OtherProvider == "other"
Collectors == {"job", "event", "relay", "fire", "kafka", "request"}
NoGuard == [key |-> "none"]

SaturatingAdd(a, b) == IF a + b > CounterMax THEN CounterMax ELSE a + b
SaturatingSub(a, b) == IF a < b THEN 0 ELSE a - b

(* `*map.entry(k).or_default()` raised by n. *)
Raised(f, k, n) ==
    [x \in DOMAIN f \cup {k} |->
        IF x # k THEN f[x]
        ELSE SaturatingAdd(IF k \in DOMAIN f THEN f[k] ELSE 0, n)]

OneMore(f, k) ==
    [x \in DOMAIN f \cup {k} |->
        (IF x \in DOMAIN f THEN f[x] ELSE 0) + (IF x = k THEN 1 ELSE 0)]

EmptyMap == [x \in {} |-> 0]
-----------------------------------------------------------------------------
(***************************************************************************)
(* The duration histogram every collector owns.                            *)
(***************************************************************************)
ValidBuckets(b) ==
    /\ b # <<>>
    /\ Len(b) <= MaxBuckets
    /\ \A i \in 1..Len(b) : b[i] # 0
    /\ \A i \in 1..(Len(b) - 1) : b[i] < b[i + 1]

NewHistogram(b) == [bounds |-> b, counts |-> [i \in 1..Len(b) |-> 0], total |-> 0]

Observe(h, d) ==
    [h EXCEPT !.counts = [i \in DOMAIN @ |->
                              IF d <= h.bounds[i] THEN SaturatingAdd(@[i], 1) ELSE @[i]],
              !.total = @ + d]

NewMetrics(b) ==
    [in_flight |-> 0, started |-> 0, completed |-> 0, direct |-> {},
     outcomes |-> EmptyMap, rows |-> EmptyMap, published |-> 0,
     backlog |-> "none", histogram |-> NewHistogram(b)]
-----------------------------------------------------------------------------
(***************************************************************************)
(* The collectors' own methods.  Started is shared by the five that count  *)
(* starts; a request is only counted as in flight.                         *)
(***************************************************************************)
Started(s) ==
    [s EXCEPT !.in_flight = SaturatingAdd(@, 1), !.started = SaturatingAdd(@, 1)]

RequestStarted(s) == [s EXCEPT !.in_flight = SaturatingAdd(@, 1)]

GuardEnded(s, d) ==
    [s EXCEPT !.in_flight = SaturatingSub(@, 1),
              !.completed = SaturatingAdd(@, 1),
              !.histogram = Observe(@, d)]

BoundedProvider(s, p) ==
    IF \/ p \in s.direct
       \/ p # OtherProvider /\ Cardinality(s.direct) < DirectLabels
    THEN p ELSE OtherProvider

JobFinished(s, p, outcome, d) ==
    LET label == BoundedProvider(s, p)
    IN  [GuardEnded(s, d) EXCEPT
            !.direct = @ \cup ({label} \ {OtherProvider}),
            !.outcomes = Raised(@, <<label, outcome>>, 1)]

EventFinished(s, p, outcome, d) ==
    LET label == BoundedProvider(s, p)
    IN  [GuardEnded(s, d) EXCEPT
            !.direct = @ \cup ({label} \ {OtherProvider}),
            !.outcomes = Raised(@, <<label, outcome>>, 1)]

(* record_report: the row counts of one pass, one after the other. *)
RelayReportRecorded(rows, kind, report) ==
    FoldLeft(LAMBDA f, c : Raised(f, <<kind, c>>, report[c]), rows,
             <<"claimed", "published", "retry_scheduled", "lease_lost">>)

FireReportRecorded(rows, report) ==
    FoldLeft(LAMBDA f, c : Raised(f, c, report[c]), rows,
             <<"claimed", "staged", "rate_limited">>)

RelayFinished(s, kind, outcome, report, d) ==
    [GuardEnded(s, d) EXCEPT
        !.outcomes = Raised(@, <<kind, outcome>>, 1),
        !.rows = IF report = <<>> THEN @ ELSE RelayReportRecorded(@, kind, report[1])]

FireFinished(s, outcome, report, d) ==
    [GuardEnded(s, d) EXCEPT
        !.outcomes = Raised(@, outcome, 1),
        !.rows = IF report = <<>> THEN @ ELSE FireReportRecorded(@, report[1])]

KafkaFinished(s, outcome, published, d) ==
    [GuardEnded(s, d) EXCEPT
        !.outcomes = Raised(@, outcome, 1),
        !.published = IF published = <<>> THEN @ ELSE SaturatingAdd(@, published[1])]

RequestFinished(s, class, route, d) ==
    [GuardEnded(s, d) EXCEPT
        !.outcomes = Raised(@, class, 1),
        !.rows = IF route = "none" THEN @ ELSE Raised(@, <<route, class>>, 1)]

RequestCancelled(s) == [s EXCEPT !.in_flight = SaturatingSub(@, 1)]
-----------------------------------------------------------------------------
(***************************************************************************)
(* What the ends of a guard report.  A task that is dropped without finish *)
(* is reported by the guard's destructor.                                  *)
(***************************************************************************)
Report == [claimed |-> 2, published |-> 1, retry_scheduled |-> 1, lease_lost |-> 0,
           staged |-> 1, rate_limited |-> 1]

JobDelivered(s, p, d) ==
    {JobFinished(s, p, o, d) : o \in {"acknowledged", "retried", "dead_lettered"}}
JobDropped(s, p, d) == JobFinished(s, p, "unsettled", d)

EventDelivered(s, p, d) ==
    {EventFinished(s, p, o, d) : o \in {"acknowledged", "retried", "dead_lettered"}}
EventDropped(s, p, d) == EventFinished(s, p, "unsettled", d)

(* A failed pass carries a report only when the publisher failed. *)
RelayPassEnded(s, kind, d) ==
    {RelayFinished(s, kind, "succeeded", <<Report>>, d)}
        \cup {RelayFinished(s, kind, "failed", r, d) : r \in {<<>>, <<Report>>}}
RelayPassDropped(s, kind, d) == RelayFinished(s, kind, "abandoned", <<>>, d)

FirePassEnded(s, d) ==
    {FireFinished(s, "succeeded", <<Report>>, d), FireFinished(s, "failed", <<>>, d)}
FirePassDropped(s, d) == FireFinished(s, "abandoned", <<>>, d)

KafkaPassEnded(s, d) ==
    {KafkaFinished(s, "succeeded", <<1>>, d), KafkaFinished(s, "failed", <<>>, d)}
KafkaPassDropped(s, d) == KafkaFinished(s, "abandoned", <<>>, d)

RequestServed(s, d) ==
    {RequestFinished(s, class, route, d) : class \in {2, 5}, route \in {"none", "item"}}

(* The keys a guard of this collector is made with. *)
GuardKeys ==
    CASE which \in {"job", "event"} -> Providers
      [] which = "relay" -> {"event", "job"}
      [] OTHER -> {"-"}

EndsOf(s, key, d) ==
    CASE which = "job" -> JobDelivered(s, key, d)
      [] which = "event" -> EventDelivered(s, key, d)
      [] which = "relay" -> RelayPassEnded(s, key, d)
      [] which = "fire" -> FirePassEnded(s, d)
      [] which = "kafka" -> KafkaPassEnded(s, d)
      [] which = "request" -> RequestServed(s, d)

DropOf(s, key, d) ==
    CASE which = "job" -> JobDropped(s, key, d)
      [] which = "event" -> EventDropped(s, key, d)
      [] which = "relay" -> RelayPassDropped(s, key, d)
      [] which = "fire" -> FirePassDropped(s, d)
      [] which = "kafka" -> KafkaPassDropped(s, d)
      [] which = "request" -> RequestCancelled(s)
-----------------------------------------------------------------------------
(***************************************************************************)
(* Prometheus text: the samples of one snapshot.  The collectors differ in *)
(* their families, and share the histogram's.                              *)
(***************************************************************************)
DurationSamples(s) ==
    [buckets |-> s.histogram.counts, inf |-> s.completed,
     sum |-> s.histogram.total, count |-> s.completed]

With(samples, more) ==
    [x \in DOMAIN samples \cup DOMAIN more |->
        IF x \in DOMAIN more THEN more[x] ELSE samples[x]]

JobEncode(s) ==
    With(DurationSamples(s),
         [total |-> s.started, in_flight |-> s.in_flight, outcomes |-> s.outcomes])

EventEncode(s) ==
    With(DurationSamples(s),
         [total |-> s.started, in_flight |-> s.in_flight, outcomes |-> s.outcomes])

RelayEncode(s) ==
    With(DurationSamples(s),
         [total |-> s.started, in_flight |-> s.in_flight, outcomes |-> s.outcomes,
          rows |-> s.rows])

FireEncode(s) ==
    With(DurationSamples(s),
         [total |-> s.started, in_flight |-> s.in_flight, outcomes |-> s.outcomes,
          rows |-> s.rows])

KafkaBacklogSamples(s) ==
    IF s.backlog = "none" THEN EmptyMap
    ELSE [c \in {"unpublished", "due", "leased"}
               \cup (IF s.backlog = "due" THEN {"oldest_due"} ELSE {}) |-> 0]

KafkaEncode(s) ==
    With(With(DurationSamples(s), [backlog |-> KafkaBacklogSamples(s)]),
         [total |-> s.started, in_flight |-> s.in_flight, outcomes |-> s.outcomes,
          published |-> s.published])

(* A request has no count of starts; its outcomes are status classes. *)
RequestEncode(s) ==
    With(DurationSamples(s),
         [in_flight |-> s.in_flight, outcomes |-> s.outcomes, rows |-> s.rows])

Encode(s) ==
    CASE which = "job" -> JobEncode(s)
      [] which = "event" -> EventEncode(s)
      [] which = "relay" -> RelayEncode(s)
      [] which = "fire" -> FireEncode(s)
      [] which = "kafka" -> KafkaEncode(s)
      [] which = "request" -> RequestEncode(s)
-----------------------------------------------------------------------------
MetricInit ==
    /\ which \in Collectors
    /\ \E b \in BucketsTried : ValidBuckets(b) /\ metric = NewMetrics(b)
    /\ watched = [t \in Tasks |-> NoGuard]
    /\ starts = 0
    /\ happened = EmptyMap

(* A worker takes a delivery, a relay starts a pass, the layer is called. *)
StartTask(t, key) ==
    /\ watched[t] = NoGuard
    /\ starts < MaxStarts
    /\ metric' = IF which = "request" THEN RequestStarted(metric) ELSE Started(metric)
    /\ watched' = [watched EXCEPT ![t] = [key |-> key]]
    /\ starts' = starts + 1
    /\ UNCHANGED <<which, happened>>

FinishTask(t, d) ==
    /\ watched[t] # NoGuard
    /\ metric' \in EndsOf(metric, watched[t].key, d)
    /\ watched' = [watched EXCEPT ![t] = NoGuard]
    /\ happened' = OneMore(happened, <<watched[t].key, d>>)
    /\ UNCHANGED <<which, starts>>

(* Mutant of DropTask: a dropped task is not recorded.                       *)
DropIsSilent(t, d) ==
    /\ watched[t] # NoGuard
    /\ watched' = [watched EXCEPT ![t] = NoGuard]
    /\ UNCHANGED <<metric, happened, which, starts>>

DropTask(t, d) ==
    /\ watched[t] # NoGuard
    /\ metric' = DropOf(metric, watched[t].key, d)
    /\ watched' = [watched EXCEPT ![t] = NoGuard]
    /\ happened' = IF which = "request" THEN happened
                   ELSE OneMore(happened, <<watched[t].key, d>>)
    /\ UNCHANGED <<which, starts>>

(* The application reads the delayed-retry backlog and records it. *)
RecordBacklog(b) ==
    /\ which = "kafka"
    /\ metric.backlog # b
    /\ metric' = [metric EXCEPT !.backlog = b]
    /\ UNCHANGED <<which, watched, starts, happened>>

MetricNext ==
    \/ \E t \in Tasks : \E key \in GuardKeys : StartTask(t, key)
    \/ \E t \in Tasks, d \in Durations : FinishTask(t, d) \/ DropTask(t, d)
    \/ \E b \in {"due", "nothing_due"} : RecordBacklog(b)

MetricSpec == MetricInit /\ [][MetricNext]_metricVars
-----------------------------------------------------------------------------
MetricTypeOK ==
    /\ which \in Collectors
    /\ metric.in_flight \in 0..CounterMax
    /\ metric.started \in 0..CounterMax
    /\ metric.completed \in 0..CounterMax
    /\ metric.direct \subseteq Providers
    /\ metric.backlog \in {"none", "due", "nothing_due"}
    /\ watched \in [Tasks -> {NoGuard} \cup [key : Providers \cup {"event", "job", "-"}]]

SumOver(f) == FoldFunction(LAMBDA a, b : a + b, 0, f)
EndsWith(P) == SumOver([k \in P |-> happened[k]])
Scraped == Encode(metric)

(***************************************************************************)
(* A snapshot adds up.  However tasks start, finish and are dropped, the   *)
(* gauge of a scrape is the number of tasks that are running, what was     *)
(* started is what is running plus what ended, and the outcome counters    *)
(* together are the ends, as long as no counter is at its maximum.         *)
(***************************************************************************)
SnapshotAddsUp ==
    starts <= CounterMax =>
        LET scraped == Scraped
        IN  /\ scraped.in_flight = Cardinality({t \in Tasks : watched[t] # NoGuard})
            /\ which # "request" => scraped.total = scraped.in_flight + scraped.count
            /\ scraped.count = SumOver(happened)
            /\ SumOver(scraped.outcomes) = scraped.count

(***************************************************************************)
(* A scraped histogram is one Prometheus accepts: cumulative, bounded by   *)
(* its +Inf bucket, and each bucket counts exactly the ends that took no   *)
(* longer than its bound, up to the counters' maximum.                     *)
(***************************************************************************)
HistogramIsCumulative ==
    LET scraped == Scraped
        b == scraped.buckets
    IN  /\ \A i \in 1..(Len(b) - 1) : b[i] <= b[i + 1]
        /\ b[Len(b)] <= scraped.inf
        /\ \A i \in DOMAIN b :
               b[i] = SaturatingAdd(0, EndsWith({k \in DOMAIN happened :
                                             k[2] <= metric.histogram.bounds[i]}))

(***************************************************************************)
(* The deliveries of one provider are all counted under one label, and     *)
(* there are at most DirectLabels labels besides "other": which label a    *)
(* provider gets is decided by its first end and never changes.            *)
(***************************************************************************)
OneLabelPerProvider ==
    which \in {"job", "event"} =>
        LET outcomes == Scraped.outcomes
            direct == {k[1] : k \in DOMAIN outcomes} \ {OtherProvider}
            counted(p) == {k \in DOMAIN outcomes : k[1] = p}
        IN  /\ Cardinality(direct) <= DirectLabels
            /\ \A p \in direct :
                   starts <= CounterMax =>
                       SumOver([k \in counted(p) |-> outcomes[k]])
                           = EndsWith({k \in DOMAIN happened : k[1] = p})

(***************************************************************************)
(* No counter falls from one scrape to a later one, not even at the        *)
(* counters' maximum: a reader would take that for a restart that did not  *)
(* happen.  Only the in-flight and backlog gauges go down.                 *)
(***************************************************************************)
CountersNeverFall ==
    [][ metric' # metric =>
        /\ Scraped'.count >= Scraped.count
        /\ which # "request" => Scraped'.total >= Scraped.total
        /\ \A i \in DOMAIN Scraped.buckets : Scraped'.buckets[i] >= Scraped.buckets[i]
        /\ \A k \in DOMAIN Scraped.outcomes : Scraped'.outcomes[k] >= Scraped.outcomes[k]
      ]_metricVars

(* The served document names only what it declares and loses no response, and a *)
(* scrape adds up, is cumulative, and never falls.                             *)
DescriptionsAreTrue ==
  /\ [](OpenApiTypeOK
        /\ MetricTypeOK
        /\ SecurityResolves
        /\ OperationsMatchTheirRoutes
        /\ NoResponseIsReplaced
        /\ SnapshotAddsUp
        /\ HistogramIsCumulative
        /\ OneLabelPerProvider)
  /\ CountersNeverFall
=============================================================================
