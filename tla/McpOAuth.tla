------------------------------ MODULE McpOAuth ------------------------------
(* The OAuth side of MCP: token sets and their refresh, authorization       *)
(* transactions, discovery of metadata through challenges, and stored secrets. *)
EXTENDS FiniteSets, Integers, Sequences

-----------------------------------------------------------------------------
(* The token sets of an MCP client (rustee-ai-mcp-oauth): the operations of   *)
(* McpOAuthAuthorizationFlow on the token store, the gate that coalesces       *)
(* refreshes of one key, and the stores in memory and in Redis.               *)
(*                                                                            *)
(* A token set is numbered in the order the authorization server issued it.   *)
(* The server is external: it may answer, refuse, or issue a set whose answer *)
(* is lost.  An operation is a future, and the application may drop it at any *)
(* of its awaits.                                                             *)

CONSTANTS
  TokenKeys,         \* McpOAuthTokenStoreKey
  TokenTasks,        \* concurrent operations of one flow
  TokenOps,          \* a subset of {"refresh", "revoke", "save"}
  OpsPerTokenTask,
  MaxIssued,         \* bound on the token sets the server issues
  MaxTokenSets,      \* MAX_IN_MEMORY_TOKEN_SETS
  Unrefreshable      \* sets issued by a login without a refresh token

VARIABLES
  tokenStore,        \* "memory" or "redis"
  tokens,            \* key -> the stored set, 0 for none
  gates,             \* RefreshGateRegistry::gates: key -> gate, 0 for none
  gateLocked,        \* gates whose mutex is held
  issued,            \* token sets issued so far
  redeemed,          \* sets whose refresh token bought a set that was then stored
  nextGate,          \* gates created so far
  tokenTask          \* per task: where it is

tokenVars == <<tokenStore, tokens, gates, gateLocked, issued, redeemed, nextGate, tokenTask>>

IdleTask(n) == [pc |-> "idle", left |-> n]
\* refresh_request; a refreshed set falls back to the refresh token that bought it.
HasRefreshToken(set) == set \notin Unrefreshable

McpTokensInit ==
  /\ tokenStore \in {"memory", "redis"}
  /\ tokens = [k \in TokenKeys |-> 0]
  /\ gates = [k \in TokenKeys |-> 0]
  /\ gateLocked = {} /\ issued = 0 /\ redeemed = {} /\ nextGate = 0
  /\ tokenTask = [t \in TokenTasks |-> IdleTask(OpsPerTokenTask)]

StepTo(t, pc) == tokenTask' = [tokenTask EXCEPT ![t].pc = pc]
FinishTask(t) == tokenTask' = [tokenTask EXCEPT ![t] = IdleTask(tokenTask[t].left)]

-----------------------------------------------------------------------------
(* The stores *)

\* InMemoryMcpOAuthTokenStore::save: a slot in use may always be updated.
SaveInMemory(k, set, answer, after) ==
  LET full == tokens[k] = 0 /\ Cardinality({j \in TokenKeys : tokens[j] # 0}) >= MaxTokenSets
  IN /\ answer = ~full
     /\ after = IF full THEN tokens ELSE [tokens EXCEPT ![k] = set]
\* RedisMcpOAuthTokenStore::save: sealed, then SET EX; the answer may be lost either way.
SaveInRedis(k, set, answer, after) ==
  /\ after \in {tokens, [tokens EXCEPT ![k] = set]}
  /\ answer => after[k] = set
SaveTokens(k, set, answer, after) ==
  IF tokenStore = "memory" THEN SaveInMemory(k, set, answer, after) ELSE SaveInRedis(k, set, answer, after)
RemoveTokens(k, answer, after) ==
  /\ after \in {tokens, [tokens EXCEPT ![k] = 0]}
  /\ answer => after[k] = 0
  /\ tokenStore = "memory" => answer
\* load_bound_token: the stored set, if the store answers and has one bound to this resource.
LoadBoundToken(k, answer) ==
  \/ answer = 0 /\ (tokens[k] = 0 \/ tokenStore = "redis")
  \/ answer = tokens[k]

\* The record in Redis expires after token_ttl.
ExpireTokens(k) ==
  /\ tokenStore = "redis" /\ tokens[k] # 0
  /\ tokens' = [tokens EXCEPT ![k] = 0]
  /\ UNCHANGED <<tokenStore, gates, gateLocked, issued, redeemed, nextGate, tokenTask>>

-----------------------------------------------------------------------------
(* save *)

\* save after a completed authorization.
SaveAuthorized(t, k) ==
  /\ tokenTask[t].pc = "idle" /\ tokenTask[t].left > 0 /\ "save" \in TokenOps
  /\ issued < MaxIssued
  /\ issued' = issued + 1
  /\ \E answer \in BOOLEAN : SaveTokens(k, issued', answer, tokens')
  /\ tokenTask' = [tokenTask EXCEPT ![t].left = @ - 1]
  /\ UNCHANGED <<tokenStore, gates, gateLocked, redeemed, nextGate>>

-----------------------------------------------------------------------------
(* refresh *)
BeginRefresh(t, k) ==
  /\ tokenTask[t].pc = "idle" /\ tokenTask[t].left > 0 /\ "refresh" \in TokenOps
  /\ \E observed \in 0..MaxIssued :
       /\ LoadBoundToken(k, observed)
       /\ tokenTask' = [tokenTask EXCEPT ![t] =
            IF observed = 0 THEN IdleTask(@.left - 1)
            ELSE [pc |-> "lease", left |-> @.left - 1, key |-> k, observed |-> observed]]
  /\ UNCHANGED <<tokenStore, tokens, gates, gateLocked, issued, redeemed, nextGate>>

\* The tasks that own an Arc of gate g: Arc::strong_count.
Owners(g) == {t \in TokenTasks : "gate" \in DOMAIN tokenTask[t] /\ tokenTask[t].gate = g}
Leased(t, g) == tokenTask' = [tokenTask EXCEPT ![t] =
  [pc |-> "lock", left |-> @.left, key |-> @.key, observed |-> @.observed, gate |-> g]]
\* RefreshGateRegistry::lease, under the registry's lock.
Lease(t) ==
  /\ tokenTask[t].pc = "lease"
  /\ LET k == tokenTask[t].key IN
     \/ /\ gates[k] # 0 /\ Owners(gates[k]) # {}
        /\ Leased(t, gates[k]) /\ UNCHANGED <<gates, nextGate>>
     \/ /\ gates[k] = 0 \/ Owners(gates[k]) = {}
        /\ nextGate' = nextGate + 1
        /\ gates' = [gates EXCEPT ![k] = nextGate']
        /\ Leased(t, nextGate')
  /\ UNCHANGED <<tokenStore, tokens, gateLocked, issued, redeemed>>

\* Wait for the gate.
LockGate(t) ==
  /\ tokenTask[t].pc = "lock" /\ tokenTask[t].gate \notin gateLocked
  /\ gateLocked' = gateLocked \cup {tokenTask[t].gate}
  /\ StepTo(t, "reload")
  /\ UNCHANGED <<tokenStore, tokens, gates, issued, redeemed, nextGate>>

\* Load again under the gate: another refresh's replacement is this one's answer.
ReloadAndRefresh(t) ==
  /\ tokenTask[t].pc = "reload"
  /\ \E current \in 0..MaxIssued :
       /\ LoadBoundToken(tokenTask[t].key, current)
       /\ StepTo(t, IF current # 0 /\ current = tokenTask[t].observed /\ HasRefreshToken(current)
                  THEN "exchange" ELSE "unlock")
  /\ UNCHANGED <<tokenStore, tokens, gates, gateLocked, issued, redeemed, nextGate>>

\* exchanger.refresh: refused, lost, or a new set (with the old refresh token if it carries none).
ExchangeRefresh(t) ==
  /\ tokenTask[t].pc = "exchange"
  /\ \/ issued' = issued /\ StepTo(t, "unlock")
     \/ /\ issued < MaxIssued /\ issued' = issued + 1
        /\ \/ StepTo(t, "unlock")
           \/ tokenTask' = [tokenTask EXCEPT ![t] =
                [pc |-> "save", left |-> @.left, key |-> @.key, observed |-> @.observed,
                 gate |-> @.gate, refreshed |-> issued']]
  /\ UNCHANGED <<tokenStore, tokens, gates, gateLocked, redeemed, nextGate>>

SaveRefreshed(t) ==
  /\ tokenTask[t].pc = "save"
  /\ \E answer \in BOOLEAN : SaveTokens(tokenTask[t].key, tokenTask[t].refreshed, answer, tokens')
  /\ redeemed' = IF tokens'[tokenTask[t].key] = tokenTask[t].refreshed
                 THEN redeemed \cup {tokenTask[t].observed} ELSE redeemed
  /\ StepTo(t, "unlock")
  /\ UNCHANGED <<tokenStore, gates, gateLocked, issued, nextGate>>

\* The guard is dropped first, then the lease: its Drop, then the Arc it held.
UnlockGate(t) ==
  /\ tokenTask[t].pc = "unlock"
  /\ gateLocked' = gateLocked \ {tokenTask[t].gate}
  /\ tokenTask' = [tokenTask EXCEPT ![t] =
       [pc |-> "drop", left |-> @.left, key |-> @.key, gate |-> @.gate]]
  /\ UNCHANGED <<tokenStore, tokens, gates, issued, redeemed, nextGate>>

\* Drop for RefreshGateLease, under the registry's lock.
DropLease(t) ==
  /\ tokenTask[t].pc = "drop"
  /\ LET k == tokenTask[t].key  g == tokenTask[t].gate IN
     gates' = IF Owners(g) = {t} /\ gates[k] = g THEN [gates EXCEPT ![k] = 0] ELSE gates
  /\ StepTo(t, "dropArc")
  /\ UNCHANGED <<tokenStore, tokens, gateLocked, issued, redeemed, nextGate>>
\* The lease's fields are dropped after its Drop returned, outside the registry's lock.
DropArc(t) ==
  /\ tokenTask[t].pc = "dropArc"
  /\ FinishTask(t)
  /\ UNCHANGED <<tokenStore, tokens, gates, gateLocked, issued, redeemed, nextGate>>

\* The caller drops the future at one of its awaits; the provider and the store may already have acted.
CancelRefresh(t) ==
  /\ \/ /\ tokenTask[t].pc = "lock"
        /\ tokenTask' = [tokenTask EXCEPT ![t] =
             [pc |-> "drop", left |-> @.left, key |-> @.key, gate |-> @.gate]]
     \/ tokenTask[t].pc \in {"reload", "exchange", "save"} /\ StepTo(t, "unlock")
  /\ UNCHANGED <<tokenStore, tokens, gates, gateLocked, issued, redeemed, nextGate>>

-----------------------------------------------------------------------------
(* revoke_and_remove *)
BeginRevoke(t, k) ==
  /\ tokenTask[t].pc = "idle" /\ tokenTask[t].left > 0 /\ "revoke" \in TokenOps
  /\ \E set \in 0..MaxIssued :
       /\ LoadBoundToken(k, set)
       /\ tokenTask' = [tokenTask EXCEPT ![t] =
            IF set = 0 THEN IdleTask(@.left - 1)
            ELSE [pc |-> "revoke", left |-> @.left - 1, key |-> k]]
  /\ UNCHANGED <<tokenStore, tokens, gates, gateLocked, issued, redeemed, nextGate>>
\* revoker.revoke: confirmed, or not confirmed and the record stays.
RevokeToken(t) ==
  /\ tokenTask[t].pc = "revoke"
  /\ StepTo(t, "remove") \/ FinishTask(t)
  /\ UNCHANGED <<tokenStore, tokens, gates, gateLocked, issued, redeemed, nextGate>>
RemoveRevoked(t) ==
  /\ tokenTask[t].pc = "remove"
  /\ \E answer \in BOOLEAN : RemoveTokens(tokenTask[t].key, answer, tokens')
  /\ FinishTask(t)
  /\ UNCHANGED <<tokenStore, gates, gateLocked, issued, redeemed, nextGate>>

-----------------------------------------------------------------------------
McpTokensNext ==
  \/ \E k \in TokenKeys : ExpireTokens(k)
  \/ \E t \in TokenTasks, k \in TokenKeys : SaveAuthorized(t, k) \/ BeginRefresh(t, k) \/ BeginRevoke(t, k)
  \/ \E t \in TokenTasks :
       \/ Lease(t) \/ LockGate(t) \/ ReloadAndRefresh(t) \/ ExchangeRefresh(t) \/ SaveRefreshed(t)
       \/ UnlockGate(t) \/ DropLease(t) \/ DropArc(t) \/ CancelRefresh(t)
       \/ RevokeToken(t) \/ RemoveRevoked(t)

-----------------------------------------------------------------------------
(* Properties *)

Refreshing(t) == tokenTask[t].pc \in {"reload", "exchange", "save", "unlock"}
AtProvider(t) == tokenTask[t].pc \in {"exchange", "save"}

\* Two refreshes of one key never hold two gates at once: lease upgrades the gate
\* others still hold, and Drop for RefreshGateLease removes only a gate nobody else holds.
OneRefreshPerKey ==
  \A t, u \in TokenTasks : Refreshing(t) /\ Refreshing(u) /\ tokenTask[t].key = tokenTask[u].key => t = u

\* A refresh token whose replacement was stored is not presented again by this flow:
\* whoever waited for the gate loads the replacement instead (refresh).
StoredRefreshIsNotRepeated ==
  [][\A t \in TokenTasks :
       ~AtProvider(t) /\ AtProvider(t)' => tokenTask[t].observed \notin redeemed]_tokenVars

-----------------------------------------------------------------------------
(* Authorization transactions of an MCP client (rustee-ai-mcp-oauth,          *)
(* begin and complete of McpOAuthAuthorizationFlow) over the store in memory  *)
(* and the encrypted one in Redis (rustee-ai-mcp-oauth-redis).                *)
(*                                                                            *)
(* The value generator is the application's: two begins may draw one state.   *)
(* A callback is whatever reaches the redirect URI, so any state, any number  *)
(* of times and in any order.  Several instances of the service with          *)
(* different key rings share the Redis store.                                 *)

CONSTANTS
  States,            \* values the generator may draw for state
  MaxBegins,         \* bound on the calls of begin; a call's number stands for its verifier
  Callbacks,         \* callbacks handled concurrently
  TransactionTtl,    \* McpOAuthClientConfig::transaction_ttl
  AuthorizationEnd,  \* bound on the clock
  MaxPending,        \* MAX_IN_MEMORY_TRANSACTIONS
  Rings              \* the key rings of the instances: [active, keys]

VARIABLES
  pendingStore,      \* "memory" or "redis"
  pending,           \* state -> the stored transaction, or NoTransaction
  clock,             \* unix_seconds
  begun,             \* begins that ran: a set of [call, state]
  handled,           \* callbacks that were handled
  exchanges          \* code exchanges performed: a set of [callback, state, verifier, at, expires]

authorizationVars == <<pendingStore, pending, clock, begun, handled, exchanges>>

NoTransaction == [verifier |-> 0]

McpAuthorizationInit ==
  /\ pendingStore \in {"memory", "redis"}
  /\ pending = [s \in States |-> NoTransaction]
  /\ clock = 0
  /\ begun = {}
  /\ handled = {}
  /\ exchanges = {}

IsPending(s) == pending[s] # NoTransaction
TransactionExpired(tx) == tx.expires <= clock
Unexpired == [s \in States |-> IF IsPending(s) /\ TransactionExpired(pending[s]) THEN NoTransaction ELSE pending[s]]

-----------------------------------------------------------------------------
(* InMemoryMcpOAuthTransactionStore *)
SavePending(tx, answer, after) ==
  LET taken == Unexpired[tx.state] # NoTransaction
      full == Cardinality({s \in States : Unexpired[s] # NoTransaction}) >= MaxPending
  IN /\ answer = (~taken /\ ~full)
     /\ after = IF answer THEN [Unexpired EXCEPT ![tx.state] = tx] ELSE Unexpired

(* RedisMcpOAuthTransactionStore *)
\* seal: under the active key of the instance's ring, bound to the record's key.
Seal(ring, tx) == [state |-> tx.state, verifier |-> tx.verifier, expires |-> tx.expires, key |-> ring.active]
\* open: the ring must hold the key; the record's key authenticates the transaction's state.
Open(ring, s, tx) == tx.key \in ring.keys /\ tx.state = s
\* save: SET NX EX with the seconds left to the transaction; the answer may be lost.
SaveSealed(tx, ring, answer, after) ==
  LET absent == ~IsPending(tx.state)
      written == [pending EXCEPT ![tx.state] = Seal(ring, tx)]
  IN /\ after \in {pending} \cup (IF absent /\ tx.expires > clock THEN {written} ELSE {})
     /\ answer => after = written
\* take: one script reads and deletes; then the envelope is opened.
TakeSealed(s, ring, answer, after) ==
  \/ after \in {pending, [pending EXCEPT ![s] = NoTransaction]} /\ answer = NoTransaction
  \/ /\ IsPending(s) /\ Open(ring, s, pending[s])
     /\ after = [pending EXCEPT ![s] = NoTransaction] /\ answer = pending[s]

\* Mutant of TakePending: the transaction stays in place.
PeekPending(s, answer, after) == answer = pending[s] /\ after = pending
TakePending(s, answer, after) == answer = pending[s] /\ after = [pending EXCEPT ![s] = NoTransaction]

-----------------------------------------------------------------------------
\* begin: the redirect is built and checked first, then the transaction is saved.
BeginAuthorization(s, ring) ==
  /\ Cardinality(begun) < MaxBegins
  /\ LET b == Cardinality(begun) + 1
         tx == [state |-> s, verifier |-> b, expires |-> clock + TransactionTtl, key |-> 0] IN
     \E answer \in BOOLEAN :
       /\ \/ answer = FALSE /\ UNCHANGED pending                       \* rejected value or redirect
          \/ IF pendingStore = "memory" THEN SavePending(tx, answer, pending')
                                        ELSE SaveSealed(tx, ring, answer, pending')
       /\ begun' = begun \cup {[call |-> b, state |-> s]}
  /\ UNCHANGED <<pendingStore, clock, handled, exchanges>>

\* is_valid_for and is_expired, after take.
Admits(s, tx) == tx # NoTransaction /\ tx.state = s /\ ~TransactionExpired(tx)

\* complete: take, then the checks, then the exchange.  content is the first check the callback fails.
Complete(c, s, ring, content) ==
  /\ c \notin handled
  /\ handled' = handled \cup {c}
  /\ IF content = "no_state" THEN UNCHANGED <<pending, exchanges>>
     ELSE \E tx \in {NoTransaction, pending[s]} :
       /\ IF pendingStore = "memory" THEN TakePending(s, tx, pending') ELSE TakeSealed(s, ring, tx, pending')
       /\ exchanges' = IF Admits(s, tx) /\ content = "code"
                       THEN exchanges \cup {[callback |-> c, state |-> s, verifier |-> tx.verifier,
                                             at |-> clock, expires |-> tx.expires]}
                       ELSE exchanges
  /\ UNCHANGED <<pendingStore, clock, begun>>

\* Redis drops a record when its time is over; that may be a little after the transaction's own expiry.
ExpirePending(s) ==
  /\ pendingStore = "redis" /\ IsPending(s) /\ TransactionExpired(pending[s])
  /\ pending' = [pending EXCEPT ![s] = NoTransaction]
  /\ UNCHANGED <<pendingStore, clock, begun, handled, exchanges>>
Tick ==
  /\ clock < AuthorizationEnd /\ clock' = clock + 1
  /\ UNCHANGED <<pendingStore, pending, begun, handled, exchanges>>

McpAuthorizationNext ==
  \/ \E s \in States, ring \in Rings : BeginAuthorization(s, ring)
  \/ \E c \in Callbacks, s \in States, ring \in Rings, content \in {"code", "error", "no_state"} :
       Complete(c, s, ring, content)
  \/ \E s \in States : ExpirePending(s)
  \/ Tick

-----------------------------------------------------------------------------
(* Properties *)

\* A transaction buys at most one exchange, however often and concurrently its
\* callback arrives: take removes it before anything is checked (complete).
TransactionUsedOnce == \A x, y \in exchanges : x.verifier = y.verifier => x.callback = y.callback

\* An exchange presents the verifier of a begin that drew the callback's state,
\* and happens before that transaction's expiry (is_valid_for, is_expired).
ExchangeIsBound ==
  \A x \in exchanges :
    /\ x.at < x.expires
    /\ \E d \in begun : d.call = x.verifier /\ d.state = x.state

\* While a login is pending nobody replaces its verifier: a second begin that draws
\* the same state fails instead (save of both stores).
PendingIsNotReplaced ==
  [][\A s \in States :
       IsPending(s) /\ ~TransactionExpired(pending[s]) /\ pending'[s] # NoTransaction
         => pending'[s].verifier = pending[s].verifier]_authorizationVars

-----------------------------------------------------------------------------
(* How an MCP client finds the authorization server of an MCP resource: the   *)
(* resource server's layer, challenge and metadata document (rustee-mcp-oauth)*)
(* and the client's reading of them (rustee-ai-mcp-oauth, discovery/).        *)
(*                                                                            *)
(* A header is the sequence of its comma-separated segments, each with the    *)
(* scheme it starts (if any) and the parameter it carries; URLs and scopes    *)
(* are told apart by name and length.  The network between the two sides is   *)
(* the answer each URL gives.                                                 *)

CONSTANTS
  ServerConfigs,     \* arguments of McpOAuthResourceServerConfig::new and with_required_scopes
  OtherChallenges,   \* challenges other layers and proxies add: a set of headers
  MetadataAnswers    \* what a metadata URL may answer: "document", "not_found", "error", "mismatch"

VARIABLE discovery   \* one request to the resource and the discovery that follows it

MaxUrlBytes == 2048
MaxAuthorizationServers == 8
MaxRequiredScopes == 32
MaxScopeBytes == 256
MaxWwwAuthenticateBytes == 8192
MaxDiscoveryUrls == 3
MaxMetadataBytes == (1 + MaxAuthorizationServers) * MaxUrlBytes + MaxRequiredScopes * MaxScopeBytes + 512

-----------------------------------------------------------------------------
(* The resource server *)

\* McpOAuthResourceServerConfig::new; valid_public_url bounds every URL.
NewConfig(c) ==
  /\ c.resource <= MaxUrlBytes /\ c.metadata <= MaxUrlBytes
  /\ c.servers \in 1..MaxAuthorizationServers /\ c.server <= MaxUrlBytes

\* The scopes of a challenge are joined by single spaces.
ScopeParameter(c) == c.scopes * c.scope + c.scopes - 1
ChallengeHeaderLen(c) == 26 + c.metadata + 10 + ScopeParameter(c) + 10 + 18 + 1

\* with_required_scopes, or none configured.
WithRequiredScopes(c) ==
  \/ c.scopes = 0
  \/ /\ c.scopes <= MaxRequiredScopes /\ c.scope <= MaxScopeBytes
     /\ ChallengeHeaderLen(c) <= MaxWwwAuthenticateBytes

\* challenge_header: the metadata URL, the scopes and the error code.
Segment(scheme, parameter) == [scheme |-> scheme, parameter |-> parameter]
ErrorBytes(error) == CASE error = "invalid_token" -> 13 [] error = "insufficient_scope" -> 18 [] OTHER -> 0
ChallengeHeader(c, error) ==
  [bytes |-> 27 + c.metadata + (IF c.scopes = 0 THEN 0 ELSE 10 + ScopeParameter(c))
               + (IF error = "none" THEN 0 ELSE 10 + ErrorBytes(error)),
   segments |-> <<Segment("bearer", "resource_metadata")>>
                  \o (IF c.scopes = 0 THEN <<>> ELSE <<Segment("none", "scope")>>)
                  \o (IF error = "none" THEN <<>> ELSE <<Segment("none", "error")>>)]

\* authentication_response
AuthenticationResponse(c, failure) ==
  CASE failure = "unavailable" -> [status |-> 503, challenge |-> <<>>]
    [] failure = "missing" -> [status |-> 401, challenge |-> <<ChallengeHeader(c, "none")>>]
    [] OTHER -> [status |-> 401, challenge |-> <<ChallengeHeader(c, "invalid_token")>>]
InsufficientScopeResponse(c) == [status |-> 403, challenge |-> <<ChallengeHeader(c, "insufficient_scope")>>]

\* McpOAuthResourceServer::call: the header, the authenticator, the issuer, the scopes, then the service.
ResourceServer(c, fails) ==
  CASE fails = "missing" -> AuthenticationResponse(c, "missing")
    [] fails = "malformed" -> AuthenticationResponse(c, "invalid")
    [] fails = "provider" -> AuthenticationResponse(c, "unavailable")
    [] fails = "rejected" -> AuthenticationResponse(c, "rejected")
    [] fails = "issuer" -> AuthenticationResponse(c, "rejected")
    [] fails = "scope" /\ c.scopes > 0 -> InsufficientScopeResponse(c)
    [] OTHER -> [status |-> 200, challenge |-> <<>>]

\* McpOAuthProtectedResourceMetadata::handle: the document's JSON, within its bound.
DocumentBytes(c) == 102 + c.resource + c.servers * (c.server + 3) - 1
                    + (IF c.scopes = 0 THEN 0 ELSE c.scopes * (c.scope + 3) - 1)
ServeMetadata(c) == IF DocumentBytes(c) <= MaxMetadataBytes THEN "document" ELSE "error"

-----------------------------------------------------------------------------
(* The client *)
InvalidChallenge == [ok |-> FALSE]
Found(value) == [ok |-> TRUE, value |-> value]

\* www_authenticate_value: all the challenges of the response in one, within the limit.
WwwAuthenticateValue(headers) ==
  LET joined[i \in 0..Len(headers)] ==
        IF i = 0 THEN Found([bytes |-> 0, segments |-> <<>>])
        ELSE LET before == joined[i - 1]
                 separator == IF i = 1 THEN 0 ELSE 2
             IN IF ~before.ok \/ headers[i].bytes > MaxWwwAuthenticateBytes - before.value.bytes - separator
                THEN InvalidChallenge
                ELSE Found([bytes |-> before.value.bytes + separator + headers[i].bytes,
                            segments |-> before.value.segments \o headers[i].segments])
  IN joined[Len(headers)]

\* bearer_parameter: one pass that remembers whether it is inside a Bearer challenge.
BearerParameter(segments) ==
  LET pass[i \in 0..Len(segments)] ==
        IF i = 0 THEN [ok |-> TRUE, bearer |-> FALSE, value |-> {}]
        ELSE LET before == pass[i - 1]
                 bearer == IF segments[i].scheme = "none" THEN before.bearer ELSE segments[i].scheme = "bearer"
                 hit == bearer /\ segments[i].parameter = "resource_metadata"
             IN [ok |-> before.ok /\ ~(hit /\ before.value # {}),
                 bearer |-> bearer,
                 value |-> IF hit THEN {i} ELSE before.value]
  IN IF pass[Len(segments)].ok THEN Found(pass[Len(segments)].value) ELSE InvalidChallenge

\* resource_metadata_urls: the challenge's URL alone, or the well-known ones; all of them bounded.
WellKnownPrefixBytes == 37
ResourceMetadataUrls(resource, headers) ==
  LET header == WwwAuthenticateValue(headers)
      hit == BearerParameter(header.value.segments)
  IN IF ~header.ok \/ ~hit.ok THEN InvalidChallenge
     ELSE IF hit.value # {} THEN Found(<<"challenge">>)
     ELSE IF resource + WellKnownPrefixBytes > MaxUrlBytes THEN InvalidChallenge
     ELSE Found(<<"path", "root">>)

\* authorization_server_metadata_urls
AuthorizationServerMetadataUrls(hasPath) ==
  IF hasPath THEN <<"oauth", "oidc_inserted", "oidc_appended">> ELSE <<"oauth", "oidc_inserted">>

\* ResourceMetadataWire::into_public and AuthorizationServerMetadataWire::into_public.
IntoResourceMetadata(answer, servers) == answer = "document" /\ servers <= MaxDiscoveryUrls
IntoServerMetadata(answer) == answer = "document"

\* The loop of discover_resource_metadata and discover_authorization_server: only 404 goes on.
FirstAnswer(urls, answers) ==
  LET some == {i \in 1..Len(urls) : answers[urls[i]] # "not_found"}
  IN IF some = {} THEN "not_found" ELSE answers[urls[CHOOSE i \in some : \A j \in some : i <= j]]
DiscoverResourceMetadata(c, headers, answers) ==
  LET urls == ResourceMetadataUrls(c.resource, headers)
  IN urls.ok /\ IntoResourceMetadata(FirstAnswer(urls.value, answers), c.servers)
DiscoverAuthorizationServer(hasPath, answers) ==
  IntoServerMetadata(FirstAnswer(AuthorizationServerMetadataUrls(hasPath), answers))

-----------------------------------------------------------------------------
McpDiscoveryInit == discovery = [asked |-> FALSE]

\* A request is refused and its challenge, among those of others, is followed.
RefuseAndDiscover ==
  /\ ~discovery.asked
  /\ \E c \in ServerConfigs, others \in OtherChallenges, before \in BOOLEAN,
        fails \in {"missing", "malformed", "provider", "rejected", "issuer", "scope", "none"},
        path \in MetadataAnswers, root \in MetadataAnswers :
       /\ NewConfig(c) /\ WithRequiredScopes(c)
       /\ LET reply == ResourceServer(c, fails)
              headers == IF before THEN others \o reply.challenge ELSE reply.challenge \o others
              answers == [challenge |-> ServeMetadata(c), path |-> path, root |-> root]
          IN discovery' = [asked |-> TRUE, server |-> FALSE, config |-> c, status |-> reply.status,
                           challenge |-> reply.challenge, others |-> others, headers |-> headers,
                           found |-> DiscoverResourceMetadata(c, headers, answers)]
\* Then the authorization server's own metadata is looked for.
DiscoverServer ==
  /\ discovery.asked /\ discovery.found /\ ~discovery.server
  /\ \E hasPath \in BOOLEAN, answers \in [{"oauth", "oidc_inserted", "oidc_appended"} -> MetadataAnswers] :
       discovery' = [discovery EXCEPT !.server = TRUE, !.found = DiscoverAuthorizationServer(hasPath, answers)]

McpDiscoveryNext == RefuseAndDiscover \/ DiscoverServer

-----------------------------------------------------------------------------
(* Properties *)

\* The reading of a header by bearer_parameter against its definition: a parameter counts
\* when the last scheme before it is Bearer, and two of them make the header invalid.
ReferenceBearerParameter(segments) ==
  LET inBearer(i) == \E j \in 1..i : /\ segments[j].scheme = "bearer"
                                     /\ \A k \in (j + 1)..i : segments[k].scheme = "none"
      hits == {i \in 1..Len(segments) : segments[i].parameter = "resource_metadata" /\ inBearer(i)}
  IN IF Cardinality(hits) > 1 THEN InvalidChallenge ELSE Found(hits)
OnlyBearerChallengesAreRead ==
  discovery.asked =>
    LET header == WwwAuthenticateValue(discovery.headers)
    IN header.ok => BearerParameter(header.value.segments) = ReferenceBearerParameter(header.value.segments)

\* Every refusal of a resource server that any configuration builder admitted carries a
\* challenge the client can read whole, and it leads to the metadata document, which the
\* server can render: the lengths checked by with_required_scopes, the client's
\* MAX_WWW_AUTHENTICATE_BYTES and MAX_PROTECTED_RESOURCE_METADATA_BYTES fit together.
\* (A client takes at most three authorization servers.)
RefusalLeadsToMetadata ==
  discovery.asked /\ ~discovery.server /\ discovery.status \in {401, 403} /\ discovery.others = <<>>
    /\ discovery.config.servers <= MaxDiscoveryUrls
    => discovery.found

-----------------------------------------------------------------------------
(* The encrypted records of rustee-ai-mcp-oauth-redis: a value is sealed with *)
(* the active key of a key ring, stored through the bounded JSON functions of *)
(* rustee-redis, and opened later, possibly by an instance with another ring  *)
(* and at another record.  A value is its serialized length; AES-256-GCM is   *)
(* external: it opens what was sealed with the same key and associated data.  *)

CONSTANTS
  PlainSizes,        \* lengths of serialized values
  KeyIds,            \* key ids; the first ring's active key, its successor, ...
  Records,           \* record keys of the store
  EnvelopeOverhead   \* JSON around the key id, the nonce and the ciphertext

VARIABLE sealed      \* the rings, the record in Redis, and the last outcome

MaxPlaintextBytes == 64 * 1024
MaxCiphertextBytes == 96 * 1024     \* MAX_ENCODED_CIPHERTEXT_BYTES
MaxEnvelopeBytes == 128 * 1024      \* MAX_SERIALIZED_ENVELOPE_BYTES
TagBytes == 16
NonceBytes == 12
Purposes == {"transaction", "token"}

\* URL_SAFE_NO_PAD: four characters for every three bytes, none for padding.
Encoded(n) == (4 * n + 2) \div 3
DecodedLen(n) == (3 * n) \div 4

-----------------------------------------------------------------------------
(* McpOAuthSecretKeyRing: the active key and the retired ones. *)
NewRing(k) == [active |-> k, keys |-> {k}]
WithRetiredKey(ring, k) == IF k \in ring.keys THEN ring ELSE [ring EXCEPT !.keys = @ \cup {k}]
\* A rotation: a new active key, the old ones kept as retired keys.
Rotations(k, old) == WithRetiredKey(NewRing(k), old)

(* McpOAuthSecretCipher *)
Rejected == [ok |-> FALSE]
\* bounded_plaintext and seal.
SealValue(ring, purpose, record, bytes) ==
  IF bytes > MaxPlaintextBytes THEN Rejected
  ELSE [ok |-> TRUE, key |-> ring.active, nonce |-> Encoded(NonceBytes),
        ciphertext |-> Encoded(bytes + TagBytes), aad |-> <<purpose, record>>, bytes |-> bytes]
EnvelopeBytes(e) == EnvelopeOverhead + e.nonce + e.ciphertext

\* open: the shape of the envelope, the key, the tag over ciphertext and associated data.
OpenValue(ring, purpose, record, e) ==
  /\ e.nonce <= 64 /\ DecodedLen(e.nonce) = NonceBytes
  /\ e.ciphertext <= MaxCiphertextBytes
  /\ DecodedLen(e.ciphertext) <= MaxPlaintextBytes + TagBytes
  /\ e.key \in ring.keys
  /\ e.aad = <<purpose, record>>

(* rustee-redis, cache/write.rs and cache/bounded.rs *)
SetJsonBounded(e) == EnvelopeBytes(e) <= MaxEnvelopeBytes
GetJsonBounded(e) == EnvelopeBytes(e) <= MaxEnvelopeBytes

-----------------------------------------------------------------------------
McpSecretsInit == sealed = [step |-> "empty"]

SaveSecret ==
  /\ sealed.step = "empty"
  /\ \E k \in KeyIds, purpose \in Purposes, record \in Records, bytes \in PlainSizes :
       LET ring == NewRing(k)
           e == SealValue(ring, purpose, record, bytes)
       IN sealed' = IF e.ok /\ SetJsonBounded(e)
                    THEN [step |-> "stored", envelope |-> e, purpose |-> purpose, record |-> record]
                    ELSE [step |-> "refused", bytes |-> bytes]
LoadSecret ==
  /\ sealed.step = "stored"
  /\ \E k \in KeyIds, old \in KeyIds, purpose \in Purposes, record \in Records :
       LET ring == Rotations(k, old)
       IN sealed' = [step |-> "loaded", envelope |-> sealed.envelope, ring |-> ring,
                     same |-> purpose = sealed.purpose /\ record = sealed.record,
                     opened |-> GetJsonBounded(sealed.envelope)
                                /\ OpenValue(ring, purpose, record, sealed.envelope)]
McpSecretsNext == SaveSecret \/ LoadSecret

-----------------------------------------------------------------------------
(* Properties *)

\* What the store accepted it also gives back: the limit on the plaintext (seal), on the
\* encoded ciphertext (open) and on the stored envelope (set_json_bounded, get_json_bounded)
\* agree, for every ring that still holds the sealing key; and a record opens only for its
\* purpose and at its own record key (associated_data).
StoredOpensWhereItBelongs ==
  sealed.step = "loaded" =>
    (sealed.opened <=> sealed.same /\ sealed.envelope.key \in sealed.ring.keys)

(* A grant is used once and only where it belongs: one refresh per key at a    *)
(* time, one exchange per transaction and within its time, no replaced refresh *)
(* token again, challenges that lead to metadata, and secrets that open only   *)
(* where they were sealed.                                                     *)
GrantsAreBound ==
  /\ [](OneRefreshPerKey
        /\ TransactionUsedOnce
        /\ ExchangeIsBound
        /\ OnlyBearerChallengesAreRead
        /\ RefusalLeadsToMetadata
        /\ StoredOpensWhereItBelongs)
  /\ StoredRefreshIsNotRepeated
  /\ PendingIsNotReplaced
=============================================================================
