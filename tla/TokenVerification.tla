------------------------- MODULE TokenVerification -------------------------
(* The two ways to verify a bearer token: signing keys fetched and cached, and *)
(* answers of an introspection endpoint, cached as well.                    *)
EXTENDS Integers, FiniteSets

-----------------------------------------------------------------------------
(* The key cache of the JWKS authenticator (rustee-auth-oidc, jwks.rs):     *)
(* token validations look a key up by its identifier, refresh the key set   *)
(* behind a gate when the cache cannot answer, and may be dropped at any    *)
(* await.  The identity provider rotates its keys meanwhile and may fail.   *)

CONSTANTS
  Validation,        \* concurrent token validations
  Kid,               \* key identifiers a token can name
  Document,          \* key sets the provider can publish: sets of [kid, usable],
                     \* usable by algorithm, use and operations
  KeyTtl,            \* cache_ttl
  RefreshInterval,   \* minimum_refresh_interval
  FetchTimeout,      \* timeout of the HTTP client
  KeyHorizon         \* bound on the clock

VARIABLES
  keyTime,           \* Instant::now()
  published,         \* the key set of the provider now: a set of [kid, usable]
  lastPublished,     \* per kid: when the provider last published it as usable
  keyCache,          \* JwksCache
  gate,              \* who holds refresh_gate: a set of at most one validation
  lookup             \* per validation: key_for in progress, or its answer

jwksVars == <<keyTime, published, lastPublished, keyCache, gate, lookup>>

Never == -1
NoLookup == [step |-> "none"]
NoRefresh == [keys |-> {}, okAt |-> Never, triedAt |-> Never, unknownAt |-> Never, failed |-> FALSE]

(* compatible_keys and is_compatible_jwk: usable keys whose identifier      *)
(* appears once.                                                            *)
CompatibleKeys(doc) ==
  {k \in Kid : [kid |-> k, usable |-> TRUE] \in doc /\ [kid |-> k, usable |-> FALSE] \notin doc}

Fresh == keyCache.okAt # Never /\ keyTime - keyCache.okAt < KeyTtl
RefreshAllowed == keyCache.triedAt = Never \/ keyTime - keyCache.triedAt >= RefreshInterval
UnknownKeyRefreshAllowed ==
  keyCache.unknownAt = Never \/ keyTime - keyCache.unknownAt >= RefreshInterval

(* cache_lookup, under the read lock.                                       *)
CacheLookup(k) ==
  LET has == k \in keyCache.keys
  IN CASE has /\ Fresh -> "key"
       [] ~has /\ ~UnknownKeyRefreshAllowed -> IF keyCache.failed THEN "unavailable" ELSE "missing"
       [] has /\ ~Fresh /\ ~RefreshAllowed -> "unavailable"
       [] has /\ ~Fresh /\ RefreshAllowed -> "expired_cache"
       [] OTHER -> "unknown_key"

Answered(v, k, answer) ==
  [lookup EXCEPT ![v] = [step |-> "answered", kid |-> k, answer |-> answer, at |-> keyTime]]

-----------------------------------------------------------------------------
(* verification_key up to the first lookup of key_for.                      *)
Look(v, k) ==
  /\ lookup[v].step \in {"none", "answered"}
  /\ lookup' = IF CacheLookup(k) \in {"expired_cache", "unknown_key"}
               THEN [lookup EXCEPT ![v] = [step |-> "waits", kid |-> k]]
               ELSE Answered(v, k, CacheLookup(k))
  /\ UNCHANGED <<keyTime, published, lastPublished, keyCache, gate>>

(* The first half of fetch_and_store: the attempt is recorded, then the     *)
(* fetch is awaited with the gate held.                                     *)
StartFetch(v, k, reason) ==
  /\ gate' = {v}
  /\ keyCache' = [keyCache EXCEPT !.triedAt = keyTime,
                                  !.unknownAt = IF reason = "unknown_key" THEN keyTime ELSE @]
  /\ lookup' = [lookup EXCEPT ![v] = [step |-> "fetches", kid |-> k, since |-> keyTime, got |-> {}]]

(* The gate is obtained: the cache is asked a second time, since whoever    *)
(* held the gate before may have refreshed it.                              *)
PassGate(v) ==
  /\ lookup[v].step = "waits" /\ gate = {}
  /\ LET again == CacheLookup(lookup[v].kid)
     IN IF again \in {"expired_cache", "unknown_key"}
        THEN StartFetch(v, lookup[v].kid, again)
        ELSE lookup' = Answered(v, lookup[v].kid, again) /\ UNCHANGED <<keyCache, gate>>
  /\ UNCHANGED <<keyTime, published, lastPublished>>

(* refresh: an explicit refresh takes the gate and fetches whatever the     *)
(* cache says.  It asks for no key.                                         *)
Refresh(v) ==
  /\ lookup[v].step \in {"none", "answered"} /\ gate = {}
  /\ \E k \in Kid : StartFetch(v, k, "explicit")
  /\ UNCHANGED <<keyTime, published, lastPublished>>

(* The provider answers with the document of this moment...                 *)
ProviderAnswers(v) ==
  /\ lookup[v].step = "fetches"
  /\ lookup' = [lookup EXCEPT ![v] = [@ EXCEPT !.step = "stores", !.got = published]]
  /\ UNCHANGED <<keyTime, published, lastPublished, keyCache, gate>>

(* ... and fetch_and_store puts its compatible keys in the cache.  The age  *)
(* of the set is counted from here.                                         *)
Store(v) ==
  /\ lookup[v].step = "stores"
  /\ LET keys == CompatibleKeys(lookup[v].got)
     IN /\ keyCache' = [keyCache EXCEPT !.keys = keys, !.okAt = keyTime, !.failed = FALSE]
        /\ lookup' = Answered(v, lookup[v].kid, IF lookup[v].kid \in keys THEN "key" ELSE "missing")
  /\ gate' = {}
  /\ UNCHANGED <<keyTime, published, lastPublished>>

(* The fetch fails or times out; the keys stay.                             *)
FetchFails(v) ==
  /\ lookup[v].step = "fetches"
  /\ keyCache' = [keyCache EXCEPT !.failed = TRUE]
  /\ lookup' = Answered(v, lookup[v].kid, "unavailable")
  /\ gate' = {}
  /\ UNCHANGED <<keyTime, published, lastPublished>>

(* The request behind a validation is dropped: its future, and with it the  *)
(* gate, goes away at whatever await it was.                                *)
Drop(v) ==
  /\ lookup[v].step \in {"waits", "fetches", "stores"}
  /\ lookup' = [lookup EXCEPT ![v] = NoLookup]
  /\ gate' = gate \ {v}
  /\ UNCHANGED <<keyTime, published, lastPublished, keyCache>>

-----------------------------------------------------------------------------
(* The provider publishes another document.                                 *)
RotateKeys ==
  /\ published' \in Document \ {published}
  /\ lastPublished' = [k \in Kid |-> IF k \in CompatibleKeys(published') THEN keyTime ELSE lastPublished[k]]
  /\ UNCHANGED <<keyTime, keyCache, gate, lookup>>

(* A fetch is over, one way or the other, within the client's timeout.      *)
KeyTimePasses ==
  /\ keyTime < KeyHorizon
  /\ \A v \in Validation : lookup[v].step \in {"fetches", "stores"} =>
       keyTime < lookup[v].since + FetchTimeout
  /\ keyTime' = keyTime + 1
  /\ lastPublished' = [k \in Kid |-> IF k \in CompatibleKeys(published) THEN keyTime + 1
                                                                       ELSE lastPublished[k]]
  /\ UNCHANGED <<published, keyCache, gate, lookup>>

JwksInit ==
  /\ keyTime = 0
  /\ published = {} /\ lastPublished = [k \in Kid |-> Never]
  /\ keyCache = NoRefresh
  /\ gate = {}
  /\ lookup = [v \in Validation |-> NoLookup]

JwksNext ==
  \/ \E v \in Validation :
       \/ \E k \in Kid : Look(v, k)
       \/ PassGate(v) \/ Refresh(v) \/ ProviderAnswers(v) \/ Store(v) \/ FetchFails(v) \/ Drop(v)
  \/ RotateKeys \/ KeyTimePasses

JwksSpec == JwksInit /\ [][JwksNext]_jwksVars

-----------------------------------------------------------------------------
(* Every variable has its type, and the gate is held by who fetches.        *)
JwksTypeOK ==
  /\ keyTime \in 0..KeyHorizon
  /\ published \in Document
  /\ keyCache.keys \subseteq Kid
  /\ {keyCache.okAt, keyCache.triedAt, keyCache.unknownAt} \subseteq Never..KeyHorizon
  /\ gate = {v \in Validation : lookup[v].step \in {"fetches", "stores"}}
  /\ Cardinality(gate) <= 1

(* A key is handed to a validation only if the provider published it, alone *)
(* under its identifier, less than the cache's time to live and the length  *)
(* of one fetch ago: a withdrawn key is honoured no longer than that,       *)
(* whatever refreshes fail, are dropped or run late.                        *)
KeyIsRecent ==
  \A v \in Validation :
    (lookup[v].step = "answered" /\ lookup[v].answer = "key") =>
      /\ lookup[v].kid \in {k \in Kid : lastPublished[k] # Never}
      /\ lookup[v].at - lastPublished[lookup[v].kid] < KeyTtl + FetchTimeout

(* Fetches for unknown identifiers are at least the refresh interval apart, *)
(* however many validations of unknown identifiers wait at the gate.        *)
UnknownKeyFetchesAreSpaced ==
  [][\A v \in Validation :
       (lookup[v].step = "waits" /\ lookup'[v].step = "fetches" /\ lookup[v].kid \notin keyCache.keys) =>
         (keyCache.unknownAt = Never \/ keyTime - keyCache.unknownAt >= RefreshInterval)]_jwksVars

-----------------------------------------------------------------------------
(* Opaque access tokens (rustee-auth-oidc, introspection): a bearer token   *)
(* is looked up in a bounded cache, else the introspection endpoint is      *)
(* asked and an accepted answer is cached.  The endpoint is external: a     *)
(* token may be revoked there at any time.                                  *)
(*                                                                          *)
(* The clock ticks twice a second: expiry is compared in whole seconds      *)
(* (unix_seconds), cache lifetime with a monotonic clock (Instant).         *)

CONSTANTS
  Bearer,             \* concurrent validations
  Opaque,             \* tokens
  TokenExp,           \* Opaque -> expiry in seconds, or NoExp: no exp in the answer
  NoExp,
  TokenLeeway,        \* leeway_seconds
  AnswerTtl,          \* cache_ttl, in ticks
  MaxAnswers,         \* max_cache_entries
  AskTimeout,         \* timeout of the HTTP client, in ticks
  TokenHorizon        \* bound on the clock, in ticks

VARIABLES
  tick,               \* the clock
  revoked,            \* tokens revoked at the endpoint: a set of [token, at]
  answers,            \* OpaqueTokenCache::entries: a set of [token, until, asked]
  check               \* per validation: authenticate in progress, or its answer

introspectionVars == <<tick, revoked, answers, check>>

NoCheck == [step |-> "none"]
UnixSeconds == tick \div 2
Lesser(a, b) == IF a < b THEN a ELSE b
IsRevoked(t) == \E r \in revoked : r.token = t

Accepted(b, t, asked, how) ==
  [check EXCEPT ![b] = [step |-> "accepted", token |-> t, asked |-> asked, at |-> tick, how |-> how]]

-----------------------------------------------------------------------------
(* The cache, under its mutex.                                             *)

LiveAnswers == {e \in answers : e.until > tick}

(* OpaqueTokenCache::enabled.                                               *)
CacheEnabled == MaxAnswers > 0 /\ AnswerTtl > 0


(* The cache_ttl computed by validated_principal: none without an expiry,   *)
(* and never past what is left of it in whole seconds.                      *)
AnswerLifetime(t) ==
  IF TokenExp[t] = NoExp \/ TokenExp[t] <= UnixSeconds THEN 0
  ELSE Lesser(AnswerTtl, 2 * (TokenExp[t] - UnixSeconds))

(* cache_principal: a full cache keeps its live entries and does not take a *)
(* new token in.                                                            *)
CachePrincipal(t, asked) ==
  LET others == {e \in LiveAnswers : e.token # t}
      new == [token |-> t, until |-> tick + AnswerLifetime(t), asked |-> asked]
  IN IF ~CacheEnabled \/ AnswerLifetime(t) = 0 THEN answers
     ELSE IF Cardinality(LiveAnswers) >= MaxAnswers /\ others = LiveAnswers THEN LiveAnswers
     ELSE others \cup {new}

-----------------------------------------------------------------------------
(* authenticate up to the request: a live cached answer is used.            *)
Present(b, t) ==
  /\ check[b].step \in {"none", "accepted", "refused"}
  /\ answers' = IF CacheEnabled THEN LiveAnswers ELSE answers
  /\ check' = IF \E e \in LiveAnswers : CacheEnabled /\ e.token = t
              THEN Accepted(b, t, (CHOOSE e \in LiveAnswers : e.token = t).asked, "cache")
              ELSE [check EXCEPT ![b] = [step |-> "asks", token |-> t, since |-> tick]]
  /\ UNCHANGED <<tick, revoked>>

(* The endpoint answers: active for this issuer and audience unless the     *)
(* token is revoked.                                                        *)
EndpointAnswers(b) ==
  /\ check[b].step = "asks"
  /\ check' = [check EXCEPT ![b] = [step |-> "decides", token |-> check[b].token,
                                    since |-> check[b].since, active |-> ~IsRevoked(check[b].token),
                                    asked |-> tick]]
  /\ UNCHANGED <<tick, revoked, answers>>

EndpointFails(b) ==
  /\ check[b].step = "asks"
  /\ check' = [check EXCEPT ![b] = [step |-> "refused", why |-> "provider_unavailable"]]
  /\ UNCHANGED <<tick, revoked, answers>>

(* validated_principal: active and inside its time bounds.                  *)
Validated(t, active) ==
  active /\ (TokenExp[t] # NoExp => TokenExp[t] + TokenLeeway > UnixSeconds)

(* The answer is validated and an accepted one cached.                      *)
Decide(b) ==
  /\ check[b].step = "decides"
  /\ LET c == check[b]
     IN IF Validated(c.token, c.active)
        THEN check' = Accepted(b, c.token, c.asked, "endpoint") /\ answers' = CachePrincipal(c.token, c.asked)
        ELSE /\ check' = [check EXCEPT ![b] = [step |-> "refused", why |-> "rejected"]]
             /\ UNCHANGED answers
  /\ UNCHANGED <<tick, revoked>>

-----------------------------------------------------------------------------
Revoke(t) ==
  /\ ~IsRevoked(t)
  /\ revoked' = revoked \cup {[token |-> t, at |-> tick]}
  /\ UNCHANGED <<tick, answers, check>>

TickPasses ==
  /\ tick < TokenHorizon
  /\ \A b \in Bearer : check[b].step \in {"asks", "decides"} => tick < check[b].since + AskTimeout
  /\ tick' = tick + 1
  /\ UNCHANGED <<revoked, answers, check>>

IntrospectionInit ==
  /\ tick = 0 /\ revoked = {} /\ answers = {}
  /\ check = [b \in Bearer |-> NoCheck]

IntrospectionNext ==
  \/ \E b \in Bearer : (\E t \in Opaque : Present(b, t)) \/ EndpointAnswers(b) \/ EndpointFails(b) \/ Decide(b)
  \/ \E t \in Opaque : Revoke(t)
  \/ TickPasses

IntrospectionSpec == IntrospectionInit /\ [][IntrospectionNext]_introspectionVars

-----------------------------------------------------------------------------
(* Every variable has its type, and the cache stays within its bound.       *)
IntrospectionTypeOK ==
  /\ tick \in 0..TokenHorizon
  /\ revoked \subseteq [token : Opaque, at : Nat]
  /\ answers \subseteq [token : Opaque, until : Nat, asked : Nat]
  /\ Cardinality(answers) <= MaxAnswers
  /\ \A b \in Bearer : check[b].step \in {"none", "asks", "decides", "accepted", "refused"}

(* A token is accepted after its revocation for at most the cache lifetime  *)
(* and one request to the endpoint, also when an answer given before the    *)
(* revocation is stored after it.                                           *)
RevocationTakesHold ==
  \A b \in Bearer, r \in revoked :
    (check[b].step = "accepted" /\ check[b].token = r.token) =>
      check[b].at - r.at <= AnswerTtl + AskTimeout

(* A token is accepted less than a second after it expired, whatever the    *)
(* cache holds (and the configured leeway after it at the endpoint).        *)
ExpiryTakesHold ==
  \A b \in Bearer :
    (check[b].step = "accepted" /\ TokenExp[check[b].token] # NoExp) =>
      check[b].at < 2 * (TokenExp[check[b].token] + IF check[b].how = "cache" THEN 0 ELSE TokenLeeway) + 1

(* A live answer is not evicted for another token.                          *)
LiveAnswersStay ==
  [][\A e \in answers : e.until > tick => \E f \in answers' : f.token = e.token]_introspectionVars

=============================================================================
