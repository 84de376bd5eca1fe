----------------------------- MODULE SharedData -----------------------------
(* Data that several clients share: the documents of a tenant-scoped        *)
(* collection, and the entries of a Redis cache.                            *)
EXTENDS Naturals, Sequences, FiniteSets

-----------------------------------------------------------------------------
(***************************************************************************)
(* Tenants that share a MongoDB collection.  Filters, documents and        *)
(* updates go through the tenant's scope; the application chooses their    *)
(* content.  A document is a function from fields to values, an update a   *)
(* set of operator applications to field paths.                            *)
(***************************************************************************)

CONSTANTS
    Tenants,
    Slots,              \* identities of the documents in the collection
    Fields,             \* application fields besides tenant_id
    UpdatesTried,       \* updates: sets of [operator, path, to]
    StageTargets        \* names given to $lookup and $unionWith: [name, kind]

VARIABLES
    documents,          \* documents[i]: [tenant, fields, by], or NoDocument
    readBy              \* [tenant, slot]: what the scoped reads returned

scopeVars == <<documents, readBy>>

TenantField == "tenant_id"

NoDocument == [tenant |-> "nobody", fields |-> {}, by |-> "nobody"]

ScopeInit ==
    /\ documents = [i \in Slots |-> NoDocument]
    /\ readBy = {}

Present == {i \in Slots : documents[i] # NoDocument}

\* "$and": [tenant equality, filter]: the caller's filter selects any documents.
ScopedFilter(tenant, selected) == {i \in selected : documents[i].tenant = tenant}

\* document(): the tenant is inserted, or must already be the scope's own.
DocumentIsScoped(tenant, given) == given \in {"absent", tenant}

Insert(tenant, i, given, fields) ==
    /\ documents[i] = NoDocument
    /\ DocumentIsScoped(tenant, given)
    /\ documents' = [documents EXCEPT ![i] =
          [tenant |-> tenant, fields |-> fields, by |-> tenant]]
    /\ UNCHANGED readBy

ReplaceDocument(tenant, selected, given, fields) ==
    /\ DocumentIsScoped(tenant, given)
    /\ \E i \in ScopedFilter(tenant, selected) :
          documents' = [documents EXCEPT ![i].fields = fields]
    /\ UNCHANGED readBy

\* A path names the tenant field when its first segment is it, or when a nested
\* document of the operator has such a key.
ContainsTenantField(update) ==
    \E op \in update : \E i \in DOMAIN op.path : op.path[i] = TenantField

UpdateIsAccepted(update) ==
    /\ \A op \in update : op.operator \in {"$set", "$unset", "$rename", "$push"}
    /\ \A op \in update : op.operator # "$rename"
    /\ ~ContainsTenantField(update)

\* What the server does to one document (external): the operator acts on the
\* first segment of its path, $rename also on its target.
AppliedUpdate(document, update) ==
    LET touches(op) == Head(op.path)
        renamed == {op.to : op \in {o \in update : o.operator = "$rename"}}
        removed == {touches(op) : op \in {o \in update : o.operator \in {"$unset", "$rename"}}}
        written == {touches(op) : op \in {o \in update : o.operator \in {"$set", "$push"}}}
    IN  [document EXCEPT
            !.fields = (@ \ removed) \cup ((written \cup renamed) \ {TenantField}),
            !.tenant = IF TenantField \in removed \cup written \cup renamed THEN "changed" ELSE @]

Update(tenant, selected, update) ==
    /\ UpdateIsAccepted(update)
    /\ documents' = [i \in Slots |->
          IF i \in ScopedFilter(tenant, selected) THEN AppliedUpdate(documents[i], update)
          ELSE documents[i]]
    /\ UNCHANGED readBy

\* aggregation_pipeline puts the scoped $match in front of the caller's stages.
AggregationPipeline(tenant, selected) == ScopedFilter(tenant, selected)

StageTargetIsValid(target) == target.kind \notin {"blank", "nul", "dollar"}

Read(tenant, selected) ==
    /\ readBy' = readBy \cup {[tenant |-> tenant, slot |-> i] :
                                 i \in AggregationPipeline(tenant, selected)}
    /\ UNCHANGED documents

\* $lookup and $unionWith: the foreign pipeline is scoped in the same way.
LookupStage(tenant, from, as, selected) ==
    /\ StageTargetIsValid(from)
    /\ StageTargetIsValid(as)
    /\ Read(tenant, selected)

UnionWithStage(tenant, collection, selected) ==
    /\ StageTargetIsValid(collection)
    /\ Read(tenant, selected)

ScopeNext ==
    \E tenant \in Tenants :
        \/ \E i \in Slots, given \in Tenants \cup {"absent", "malformed"},
              fields \in SUBSET Fields : Insert(tenant, i, given, fields)
        \/ \E selected \in SUBSET Present :
              \/ \E given \in Tenants \cup {"absent", "malformed"}, fields \in SUBSET Fields :
                    ReplaceDocument(tenant, selected, given, fields)
              \/ \E update \in UpdatesTried : Update(tenant, selected, update)
              \/ \E from, as \in StageTargets : LookupStage(tenant, from, as, selected)
              \/ \E collection \in StageTargets : UnionWithStage(tenant, collection, selected)

ScopeSpec == ScopeInit /\ [][ScopeNext]_scopeVars

----------------------------------------------------------------------------
ScopeTypeOK ==
    /\ \A i \in Slots : documents[i].fields \subseteq Fields
    /\ readBy \subseteq [tenant : Tenants, slot : Slots]

\* A document belongs to the tenant that inserted it for good: no update or
\* replacement that the scope accepts moves it to another tenant, and no
\* tenant's scoped read returns another tenant's document.
DocumentsStayWithTheirTenant ==
    /\ \A i \in Present : documents[i].tenant = documents[i].by
    /\ \A read \in readBy : documents[read.slot].by = read.tenant

\* A step changes documents of one tenant only.
OneTenantPerStep ==
    [][\A i, j \in Slots :
          /\ documents[i] # documents'[i]
          /\ documents[j] # documents'[j]
          => documents'[i].by = documents'[j].by]_scopeVars

-----------------------------------------------------------------------------
(***************************************************************************)
(* The JSON cache primitives over one Redis key that the session, login    *)
(* and idempotency stores are built from: set, set if absent, get, take    *)
(* and delete, unbounded and bounded by a byte limit.  Each is one command *)
(* or one script of the server; entries expire, and an answer may be lost  *)
(* after the command ran.                                                  *)
(***************************************************************************)

CONSTANTS
    CacheClients,
    ValueSizes,         \* encoded sizes tried
    ValueLimit,         \* max_bytes of the bounded calls
    TtlsTried,          \* seconds
    MaxTtl,             \* MAX_REDIS_TTL_SECONDS
    CacheClock,         \* bound of the clock
    MaxWrites           \* bound of the writes, which number the values

VARIABLES
    entry,              \* what the key holds, and which call wrote it; value 0 when absent
    cacheNow,
    writes,             \* number of values written so far
    takes,              \* takes[v]: how often value v was taken
    retired,            \* ghost: values that were taken, deleted, expired or replaced by a plain set
    answers             \* answers[c]: what client c was last told

cacheStore == <<entry, cacheNow, writes, takes>>
cacheVars == <<cacheStore, retired, answers>>

NoEntry == [value |-> 0, size |-> 0, expires |-> 0, parses |-> TRUE, by |-> "none"]

Told(outcome, value) == [outcome |-> outcome, value |-> value]

CacheInit ==
    /\ entry = NoEntry
    /\ cacheNow = 0
    /\ writes = 0
    /\ takes = [v \in 1 .. MaxWrites |-> 0]
    /\ retired = {}
    /\ answers = [c \in CacheClients |-> Told("nothing", 0)]

Answer(c, outcome, value) == answers' = [answers EXCEPT ![c] = Told(outcome, value)]

TtlError(ttl) ==
    CASE ttl = 0 -> "ZeroTtl" [] ttl > MaxTtl -> "TtlOutOfRange" [] OTHER -> "none"

EncodeBoundedError(size) == IF size > ValueLimit THEN "ValueTooLarge" ELSE "none"

\* The answer to an applied command, or the lost answer.
Answered(c, outcome, value) ==
    Answer(c, outcome, value) \/ Answer(c, "Redis", 0)

Written(size, ttl, by) ==
    /\ writes' = writes + 1
    /\ entry' = [value |-> writes + 1, size |-> size, expires |-> cacheNow + ttl,
                 parses |-> TRUE, by |-> by]

\* The ttl is validated first, then a bounded value is encoded.
CacheRefused(c, error) == error # "none" /\ Answer(c, error, 0) /\ UNCHANGED cacheStore

SetJson(c, size, ttl) ==
    \/ CacheRefused(c, TtlError(ttl))
    \/ /\ TtlError(ttl) = "none"
       /\ writes < MaxWrites
       /\ Written(size, ttl, "set")
       /\ Answered(c, "stored", writes + 1)
       /\ UNCHANGED <<cacheNow, takes>>

SetJsonBounded(c, size, ttl) ==
    \/ TtlError(ttl) = "none" /\ CacheRefused(c, EncodeBoundedError(size))
    \/ EncodeBoundedError(size) = "none" /\ SetJson(c, size, ttl)

\* SET NX EX: one command.
SetJsonIfAbsent(c, size, ttl) ==
    \/ CacheRefused(c, TtlError(ttl))
    \/ /\ TtlError(ttl) = "none" /\ entry # NoEntry
       /\ Answered(c, "EntryExists", 0)
       /\ UNCHANGED cacheStore
    \/ /\ TtlError(ttl) = "none" /\ entry = NoEntry
       /\ writes < MaxWrites
       /\ Written(size, ttl, "create")
       /\ Answered(c, "created", writes + 1)
       /\ UNCHANGED <<cacheNow, takes>>

SetJsonBoundedIfAbsent(c, size, ttl) ==
    \/ TtlError(ttl) = "none" /\ CacheRefused(c, EncodeBoundedError(size))
    \/ EncodeBoundedError(size) = "none" /\ SetJsonIfAbsent(c, size, ttl)

Decoded(e) == IF e.parses THEN "found" ELSE "Json"

GetJson(c) ==
    /\ IF entry = NoEntry THEN Answered(c, "missing", 0)
       ELSE Answered(c, Decoded(entry), entry.value)
    /\ UNCHANGED <<entry, cacheNow, writes, takes>>

Taken == [takes EXCEPT ![entry.value] = @ + 1]

\* GETDEL
TakeJson(c) ==
    /\ IF entry = NoEntry THEN Answered(c, "missing", 0) /\ UNCHANGED <<entry, takes>>
       ELSE /\ entry' = NoEntry
            /\ takes' = Taken
            /\ Answered(c, Decoded(entry), entry.value)
    /\ UNCHANGED <<cacheNow, writes>>

\* The status of the two scripts: 0 missing, 1 the value, 2 over the limit.
DecodeBoundedResponse(c, status) ==
    CASE status = 0 -> Answered(c, "missing", 0)
      [] status = 1 -> Answered(c, Decoded(entry), entry.value)
      [] status = 2 -> Answered(c, "ValueTooLarge", 0)

BoundedStatus ==
    CASE entry = NoEntry -> 0 [] entry # NoEntry /\ entry.size > ValueLimit -> 2 [] OTHER -> 1

GetJsonBounded(c) ==
    /\ DecodeBoundedResponse(c, BoundedStatus)
    /\ UNCHANGED <<entry, cacheNow, writes, takes>>

\* The mutated form of TakeJsonBounded: the read and the delete are two commands
\* and the delete comes late.
TakeWithoutDelete(c) ==
    /\ DecodeBoundedResponse(c, BoundedStatus)
    /\ takes' = IF BoundedStatus = 1 THEN Taken ELSE takes
    /\ UNCHANGED <<entry, cacheNow, writes>>

TakeJsonBounded(c) ==
    /\ DecodeBoundedResponse(c, BoundedStatus)
    /\ IF BoundedStatus = 1 THEN entry' = NoEntry /\ takes' = Taken
       ELSE UNCHANGED <<entry, takes>>
    /\ UNCHANGED <<cacheNow, writes>>

Delete(c) ==
    /\ entry' = NoEntry
    /\ Answered(c, "deleted", 0)
    /\ UNCHANGED <<cacheNow, writes, takes>>

\* Someone else wrote the key, or an older release with another shape.
Corrupt ==
    /\ entry # NoEntry /\ entry.parses
    /\ entry' = [entry EXCEPT !.parses = FALSE]
    /\ UNCHANGED <<cacheNow, writes, takes, answers>>

Expire ==
    /\ cacheNow < CacheClock
    /\ cacheNow' = cacheNow + 1
    /\ entry' = IF entry.expires <= cacheNow' THEN NoEntry ELSE entry
    /\ UNCHANGED <<writes, takes, answers>>

CacheStep ==
    \/ \E c \in CacheClients :
          \/ GetJson(c) \/ TakeJson(c) \/ GetJsonBounded(c) \/ TakeJsonBounded(c) \/ Delete(c)
          \/ \E size \in ValueSizes, ttl \in TtlsTried :
                \/ SetJson(c, size, ttl) \/ SetJsonBounded(c, size, ttl)
                \/ SetJsonIfAbsent(c, size, ttl) \/ SetJsonBoundedIfAbsent(c, size, ttl)
    \/ Corrupt \/ Expire

CacheNext ==
    /\ CacheStep
    /\ retired' = IF entry'.value # entry.value /\ entry'.by # "create"
                  THEN retired \cup {entry.value} ELSE retired

CacheSpec == CacheInit /\ [][CacheNext]_cacheVars

----------------------------------------------------------------------------
CacheTypeOK ==
    /\ entry \in [value : 0 .. MaxWrites, size : ValueSizes \cup {0},
                  expires : 0 .. CacheClock + MaxTtl, parses : BOOLEAN,
                  by : {"none", "set", "create"}]
    /\ cacheNow \in 0 .. CacheClock
    /\ writes \in 0 .. MaxWrites
    /\ retired \subseteq 0 .. MaxWrites

\* A value is handed to at most one taker, however many clients take at once,
\* and no client is told of a value after it was taken unless it read it before.
TakenOnce == \A v \in 1 .. MaxWrites : takes[v] <= 1

\* Of two clients told that they created the entry, the earlier one's value was
\* gone (taken, deleted, expired or replaced by a plain set) before the later
\* one's was created: the entry is a lock that has one holder
\* (set_json_if_absent).
CreatedByOne ==
    \A c, d \in CacheClients :
        /\ answers[c].outcome = "created"
        /\ answers[d].outcome = "created"
        /\ answers[c].value < answers[d].value
        => answers[c].value \in retired

(* A document stays with its tenant and a step touches one tenant only; a cache *)
(* entry is taken by one client and created by one at a time.                  *)
SharedDataIsKept ==
  /\ [](ScopeTypeOK
        /\ CacheTypeOK
        /\ DocumentsStayWithTheirTenant
        /\ TakenOnce
        /\ CreatedByOne)
  /\ OneTenantPerStep
=============================================================================
