---------------------------- MODULE MCContracts ----------------------------
(* What two programs must agree on, for TLC in one state graph: envelopes,   *)
(* schemas, checkpoints, shared documents and cache entries, the OpenAPI     *)
(* document, the metrics, the settings of a worker and of its queue, and the *)
(* lag of a consumer.  A behaviour runs one component, chosen at the start,  *)
(* and the others rest.                                                      *)
EXTENDS MessageContracts, ChangeStreams, SharedData, Descriptions, BrokerSettings
LOCAL INSTANCE TLC

VARIABLE part

contractSide == <<jobVars, eventVars, schemaVars>>
storeSide == <<streamVars, scopeVars, cacheVars>>
readSide == <<openApiVars, metricVars>>
queueSide == <<sqsLeaseVars, auditVars, lagVars>>
-----------------------------------------------------------------------------
(* Envelopes: three contracts of which one name is refused, keys and trace  *)
(* parts at and beyond their limits, and what other programs may send.      *)
Plain(n) == Text(n, "plain")
Trace(parent, state) == [parent |-> parent, state |-> state]
JobTypes == {[name |-> Plain(1), version |-> 1], [name |-> Plain(1), version |-> 2],
             [name |-> Text(2, "spaced"), version |-> 1]}
KeysTried == {Plain(0), Plain(1), Plain(2), Plain(3), Text(1, "blank")}
TracesTried == {Trace(Plain(1), NoText), Trace(Plain(1), Plain(1)),
                Trace(Text(1, "wide"), NoText), Trace(Plain(1), Plain(3))}
ForeignJob == [id |-> 1, name |-> Plain(1), version |-> 2, payload |-> [size |-> 1, schema |-> 2],
               key |-> NoText, attempt |-> 1, trace |-> NoTrace]
ForeignJobsTried ==
  {ForeignJob, [ForeignJob EXCEPT !.attempt = 0], [ForeignJob EXCEPT !.key = Text(1, "blank")],
   [ForeignJob EXCEPT !.version = 3, !.payload.schema = 3],
   [ForeignJob EXCEPT !.version = 1, !.payload.schema = 1],
   [ForeignJob EXCEPT !.payload.schema = 0], [ForeignJob EXCEPT !.name = Plain(2)],
   [ForeignJob EXCEPT !.payload.size = 9],
   [ForeignJob EXCEPT !.trace = Trace(Text(1, "wide"), NoText)]}
EventTypes == {[type |-> Plain(1), version |-> 1], [type |-> Plain(1), version |-> 2],
               [type |-> Text(2, "nul"), version |-> 1]}
PartitionKeysTried == {Plain(1), Text(1, "blank"), Plain(9)}
ForeignEvent == [id |-> 1, type |-> Plain(1), version |-> 2, key |-> Plain(1),
                 payload |-> [size |-> 1, schema |-> 2], correlation |-> NoText,
                 causation |-> NoText, trace |-> NoTrace]
ForeignEventsTried ==
  {ForeignEvent, [ForeignEvent EXCEPT !.key = Text(1, "blank")],
   [ForeignEvent EXCEPT !.causation = Plain(3)],
   [ForeignEvent EXCEPT !.version = 3, !.payload.schema = 3],
   [ForeignEvent EXCEPT !.version = 1, !.payload.schema = 1],
   [ForeignEvent EXCEPT !.payload.schema = 0], [ForeignEvent EXCEPT !.type = Plain(2)],
   [ForeignEvent EXCEPT !.type = Text(2, "nul")], [ForeignEvent EXCEPT !.payload.size = 9],
   [ForeignEvent EXCEPT !.trace = Trace(Text(1, "wide"), NoText)]}

(* Catalogs of one or two versions, out of order, with drift, invalid.      *)
Definition(n) == [len |-> 1, shape |-> "object", n |-> n]
Schema(v, n) == [subject |-> Plain(1), type |-> Plain(1), version |-> v,
                 compatibility |-> "full", definition |-> Definition(n)]
SecondSubject == [Schema(1, 3) EXCEPT !.subject = Plain(2)]
CatalogsSeen ==
  {<<Schema(1, 1)>>, <<Schema(2, 2), Schema(1, 1)>>, <<Schema(1, 2)>>, <<Schema(2, 2)>>,
   <<Schema(1, 1), Schema(2, 1)>>, <<Schema(1, 1), SecondSubject>>,
   <<Schema(1, 1), [Schema(2, 2) EXCEPT !.compatibility = "none"]>>,
   <<[Schema(1, 1) EXCEPT !.definition.shape = "scalar"]>>,
   <<[Schema(1, 1) EXCEPT !.type = Text(1, "spaced")]>>}
HttpAnswer(media, declared, chunks, cut, ok) ==
  [media |-> media, declared |-> declared, chunks |-> chunks, cut |-> cut, wellFormed |-> ok]
AnswersSeen ==
  {HttpAnswer("json", 2, <<1, 1>>, FALSE, TRUE), HttpAnswer("text", 1, <<1>>, FALSE, TRUE),
   HttpAnswer("registry", 0, <<2, 1>>, FALSE, TRUE), HttpAnswer("registry", 2, <<1>>, TRUE, FALSE),
   HttpAnswer("registry", 1, <<1>>, FALSE, FALSE)}

(* Updates that keep, move, overwrite or nest the tenant field.             *)
Change(operator, path, to) == [operator |-> operator, path |-> path, to |-> to]
UpdatesSeen ==
  {{Change("$set", <<"a">>, "a")}, {Change("$set", <<"tenant_id">>, "a")},
   {Change("$unset", <<"a">>, "a"), Change("$push", <<"b", "a">>, "a")},
   {Change("$rename", <<"a">>, "tenant_id")}, {Change("a", <<"a">>, "a")},
   {Change("$set", <<"b", "tenant_id">>, "a")}, {Change("$unset", <<"tenant_id", "a">>, "a")}}
TargetsSeen == [name : {"n"}, kind : {"plain", "dollar"}]

(* Security schemes with safe and unsafe URLs and scopes, requirements that  *)
(* name one scheme or the same one twice, schemas and routes of each form.   *)
Url(scheme, loopback, extras) == [scheme |-> scheme, loopback |-> loopback, extras |-> extras]
SafeUrl == Url("https", FALSE, FALSE)
MachineFlow(scopes) == [flow |-> "clientCredentials", token |-> SafeUrl, scopes |-> scopes]
SchemesSeen ==
  {[type |-> "http"], [type |-> "openIdConnect", url |-> SafeUrl],
   [type |-> "openIdConnect", url |-> Url("http", FALSE, FALSE)],
   [type |-> "oauth2", flows |-> <<MachineFlow(<<Plain(1)>>)>>],
   [type |-> "oauth2", flows |-> <<MachineFlow(<<Plain(1), Plain(1)>>)>>],
   [type |-> "apiKey", name |-> Text(1, "spaced"), location |-> "header"]}
Needs(scopes) == [scheme |-> Plain(1), scopes |-> scopes]
RequirementsSeen ==
  {<<Needs(<<>>)>>, <<Needs(<<Plain(1)>>)>>, <<Needs(<<Plain(2)>>)>>,
   <<Needs(<<>>), Needs(<<Plain(1)>>)>>}
SchemasSeen ==
  {[form |-> "value", isObject |-> TRUE, size |-> 1],
   [form |-> "value", isObject |-> FALSE, size |-> 1],
   [form |-> "object", properties |-> {Plain(1)}, required |-> {Plain(2)}, size |-> 1],
   [form |-> "reference", name |-> Text(1, "spaced")]}
Fixed == [param |-> FALSE, name |-> Plain(1)]
Parameter == [param |-> TRUE, name |-> Plain(1)]
RoutesSeen == {<<Fixed>>, <<Fixed, Parameter>>, <<Parameter, Parameter>>}
IdentifiersSeen == {Plain(1), Plain(2)}
LabelsSeen == {Plain(1), Text(1, "blank")}
ParameterNamesSeen == {Plain(1), Text(1, "upper")}

BucketsSeen == {<<1, 2>>, <<>>, <<2, 1>>, <<0, 1>>, <<1, 2, 3>>}

LeaseDefault == [longPoll |-> 2, request |-> 3, visibility |-> 8, heartbeat |-> 3, handler |-> 5]

(* Retry policies that the queue can and cannot follow, and queues whose     *)
(* settings come from arguments, from a policy, from both, or are wrong.     *)
Retry(max, initial, cap) == [max |-> max, initial |-> initial, cap |-> cap]
PoliciesSeen == {Retry(3, 2, 6), Retry(4, 2, 8), Retry(3, 3, 3), Retry(4, 2, 2)}
Short == NameValue(1, "plain")
Long == NameValue(3, "plain")
NamesSeen ==
  {<<Short, Short, Short, Short>>, <<NameValue(1, "dots"), Short, Short, Short>>,
   <<Short, NameValue(1, "spaced"), Short, Short>>, <<Short, Short, Long, Short>>}
AllSettings(limit, min, max) ==
  ("limit" :> IntValue(limit)) @@ ("retry-type" :> TextValue("failed")) @@ ("retry-min" :> IntValue(min))
  @@ ("retry-max" :> IntValue(max)) @@ ("exchange" :> Short) @@ ("key" :> Short)
NoSettings == [name \in {} |-> NoValue]
Quorum(arguments, policy) ==
  [type |-> "quorum", durable |-> TRUE, autoDelete |-> FALSE, arguments |-> arguments, policy |-> policy]
QueuesSeen ==
  {Quorum(NoSettings, AllSettings(3, 1, 3)), Quorum("limit" :> IntValue(2), AllSettings(3, 1, 3)),
   Quorum("limit" :> IntValue(4), AllSettings(2, 1, 3)), Quorum("retry-max" :> IntValue(1), AllSettings(4, 1, 3)),
   Quorum("limit" :> TextValue("4"), AllSettings(3, 1, 1)), Quorum(AllSettings(3, 1, 1), NoSettings),
   Quorum("key" :> Long, AllSettings(3, 1, 3)), Quorum(NoSettings, NoSettings),
   [Quorum(NoSettings, AllSettings(3, 1, 3)) EXCEPT !.type = "classic"]}
AuditAnswer(status, media, declared, size, ok) ==
  [status |-> status, media |-> media, declared |-> declared, size |-> size, wellFormed |-> ok]
AuditAnswersSeen ==
  {AuditAnswer("ok", "json", 1, 1, TRUE), AuditAnswer("ok", "json", 3, 1, TRUE),
   AuditAnswer("ok", "json", 0, 3, TRUE), AuditAnswer("ok", "json", 1, 1, FALSE),
   AuditAnswer("missing", "json", 1, 1, TRUE), AuditAnswer("failed", "json", 1, 1, TRUE)}
ManagementApi == [scheme |-> "https", loopback |-> FALSE, extras |-> FALSE, user |-> "name",
                  password |-> "some", vhost |-> Short, timeout |-> 1, limit |-> 2]
ManagementSeen ==
  {ManagementApi, [ManagementApi EXCEPT !.scheme = "http"], [ManagementApi EXCEPT !.limit = 0]}
-----------------------------------------------------------------------------
(* A busy partition, and an empty one whose rows have no position.          *)
OffsetsSeen == [p \in LagPartitions |-> IF p = "p1" THEN 2 ELSE 0]

ContractsInit ==
  /\ part \in {"job", "event", "schema", "streams", "scope", "cache", "openapi", "metrics", "lease", "audit",
              "lag"}
  /\ part # "schema" => /\ catalog = [d \in Deployments |-> <<Schema(1, 1)>>]
                        /\ remotePolicy = [s \in {Plain(1), Plain(2)} |-> "full"]
  /\ JobInit /\ EventInit /\ SchemaInit
  /\ part # "streams" => leasing = TRUE
  /\ StreamInit /\ ScopeInit /\ CacheInit /\ OpenApiInit
  /\ part # "metrics" => which = "job"
  /\ MetricInit
  /\ SqsLeaseInit
  /\ part # "audit" => provisioned = Quorum(NoSettings, NoSettings)
  /\ AuditInit /\ LagInit

ContractsNext ==
  \/ part = "job" /\ JobNext /\ UNCHANGED <<part, eventVars, schemaVars, storeSide, readSide, queueSide>>
  \/ part = "event" /\ EventNext /\ UNCHANGED <<part, jobVars, schemaVars, storeSide, readSide, queueSide>>
  \/ part = "schema" /\ SchemaNext /\ UNCHANGED <<part, jobVars, eventVars, storeSide, readSide, queueSide>>
  \/ part = "streams" /\ StreamNext
     /\ UNCHANGED <<part, contractSide, scopeVars, cacheVars, readSide, queueSide>>
  \/ part = "scope" /\ ScopeNext
     /\ UNCHANGED <<part, contractSide, streamVars, cacheVars, readSide, queueSide>>
  \/ part = "cache" /\ CacheNext
     /\ UNCHANGED <<part, contractSide, streamVars, scopeVars, readSide, queueSide>>
  \/ part = "openapi" /\ OpenApiNext /\ UNCHANGED <<part, contractSide, storeSide, metricVars, queueSide>>
  \/ part = "metrics" /\ MetricNext /\ UNCHANGED <<part, contractSide, storeSide, openApiVars, queueSide>>
  \/ part = "lease" /\ SqsLeaseNext
     /\ UNCHANGED <<part, contractSide, storeSide, readSide, auditVars, lagVars>>
  \/ part = "audit" /\ AuditNext
     /\ UNCHANGED <<part, contractSide, storeSide, readSide, sqsLeaseVars, lagVars>>
  \/ part = "lag" /\ LagNext
     /\ UNCHANGED <<part, contractSide, storeSide, readSide, sqsLeaseVars, auditVars>>

ContractsSpec == ContractsInit /\ [][ContractsNext]_<<part, contractSide, storeSide, readSide, queueSide>>

=============================================================================
