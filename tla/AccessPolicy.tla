---------------------------- MODULE AccessPolicy ----------------------------
(* The API-key store, and the layers of authentication, policy and tenant in *)
(* front of a handler.                                                      *)
EXTENDS Naturals, Sequences, FiniteSets
LOCAL INSTANCE SequencesExt

-----------------------------------------------------------------------------
(* API keys: the PostgreSQL store of keyed fingerprints (rustee-auth-sqlx)  *)
(* and the authenticator that tries the fingerprints of a key under the     *)
(* active pepper and then under the retired ones (rustee-auth, api_key).    *)
(*                                                                          *)
(* PostgreSQL is external: read committed, a unique fingerprint, and row    *)
(* locks held to the end of a transaction.  A statement that meets a lock   *)
(* waits: the action is not enabled.  A transaction may be lost before its  *)
(* commit, which undoes it.                                                 *)

CONSTANTS
  Admin,            \* management calls in progress: register, rotate, clone, revoke
  Caller,           \* authentications, one each
  RecordId,         \* key_id values, 1..n
  ApiKey,           \* raw keys
  PepperRing,       \* sequence of peppers: the active one, then the retired ones
  Expiry,           \* expiries a registration can carry; 0 is none
  KeyClockHorizon   \* bound on clock_timestamp()

VARIABLES
  keyClock,
  credentials,      \* committed rows: a set of [id, print, expires, status]
  audit,            \* per record: rows of the audit table
  successors,       \* pairs <<previous, replacement>> of committed rotations
  clones,           \* pairs <<source, copy>> of committed clones
  txn,              \* per admin: its open transaction
  attempt           \* per caller: its authentication

apiKeyVars == <<keyClock, credentials, audit, successors, clones, txn, attempt>>

Pepper == {PepperRing[i] : i \in DOMAIN PepperRing}
Fingerprint == Pepper \X ApiKey

NoTxn == [step |-> "none"]
NoAttempt == [step |-> "none"]

Row(i) == CHOOSE r \in credentials : r.id = i
Exists(i) == \E r \in credentials : r.id = i
Usable(r) == r.status = "active" /\ (r.expires = 0 \/ r.expires > keyClock)
Taken(f) == \E r \in credentials : r.print = f

(* Rows and fingerprints another transaction holds.                         *)
Inserting(f) == \E a \in Admin : txn[a].step # "none" /\ txn[a].row.print = f

RowLocked(i) ==
  \/ \E a \in Admin : txn[a].step = "cloned" /\ txn[a].source = i
  \/ \E c \in Caller : attempt[c].step = "audit" /\ attempt[c].id = i

Drawn(i) == Exists(i) \/ \E a \in Admin : txn[a].step # "none" /\ txn[a].row.id = i

(* Uuid::new_v4: identifiers are numbered in the order they are drawn.      *)
FreshId(i) == ~Drawn(i) /\ \A j \in RecordId : j < i => Drawn(j)

NewRow(i, f, e) == [id |-> i, print |-> f, expires |-> e, status |-> "active"]
RevokedRows(i) == {IF r.id = i THEN [r EXCEPT !.status = "revoked"] ELSE r : r \in credentials}

-----------------------------------------------------------------------------
(* Management.                                                             *)

(* register: a fingerprint is never overwritten.                            *)
Register(i, f, e) ==
  /\ FreshId(i) /\ ~Inserting(f)
  /\ ~Taken(f)
  /\ credentials' = credentials \cup {NewRow(i, f, e)}
  /\ UNCHANGED <<keyClock, audit, successors, clones, txn, attempt>>

(* rotate, its insert: a taken fingerprint ends it.  A previous record that *)
(* was never there ends like a lost transaction and is left out of Next.    *)
RotateInsert(a, previous, i, f, e) ==
  /\ txn[a].step = "none"
  /\ FreshId(i) /\ ~Inserting(f) /\ ~Taken(f)
  /\ txn' = [txn EXCEPT ![a] = [step |-> "inserted", source |-> previous, row |-> NewRow(i, f, e)]]
  /\ UNCHANGED <<keyClock, credentials, audit, successors, clones, attempt>>

(* rotate that commits whatever its update matched.                         *)
RotateRevokeUnchecked(a) ==
  /\ txn[a].step = "inserted" /\ ~RowLocked(txn[a].source)
  /\ credentials' = RevokedRows(txn[a].source) \cup {txn[a].row}
  /\ successors' = successors \cup {<<txn[a].source, txn[a].row.id>>}
  /\ txn' = [txn EXCEPT ![a] = NoTxn]
  /\ UNCHANGED <<keyClock, audit, clones, attempt>>

(* rotate, its update and its end: the replacement is kept only with the    *)
(* revocation of an active, unexpired previous record.                      *)
RotateRevoke(a) ==
  /\ txn[a].step = "inserted" /\ ~RowLocked(txn[a].source)
  /\ IF Exists(txn[a].source) /\ Usable(Row(txn[a].source))
     THEN /\ credentials' = RevokedRows(txn[a].source) \cup {txn[a].row}
          /\ successors' = successors \cup {<<txn[a].source, txn[a].row.id>>}
     ELSE UNCHANGED <<credentials, successors>>
  /\ txn' = [txn EXCEPT ![a] = NoTxn]
  /\ UNCHANGED <<keyClock, audit, clones, attempt>>

(* clone_active_record, its insert: the source row is locked by FOR UPDATE, *)
(* principal and expiry are copied.  No eligible source or a taken          *)
(* fingerprint ends it.                                                     *)
CloneInsert(a, source, i, f) ==
  /\ txn[a].step = "none"
  /\ ~RowLocked(source) /\ FreshId(i) /\ ~Inserting(f) /\ ~Taken(f)
  /\ Exists(source) /\ Usable(Row(source))
  /\ txn' = [txn EXCEPT ![a] = [step |-> "cloned", source |-> source,
                                row |-> NewRow(i, f, Row(source).expires)]]
  /\ UNCHANGED <<keyClock, credentials, audit, successors, clones, attempt>>

CloneCommit(a) ==
  /\ txn[a].step = "cloned"
  /\ credentials' = credentials \cup {txn[a].row}
  /\ clones' = clones \cup {<<txn[a].source, txn[a].row.id>>}
  /\ txn' = [txn EXCEPT ![a] = NoTxn]
  /\ UNCHANGED <<keyClock, audit, successors, attempt>>

(* The connection is lost: rollback.                                        *)
TransactionLost(a) ==
  /\ txn[a].step # "none"
  /\ txn' = [txn EXCEPT ![a] = NoTxn]
  /\ UNCHANGED <<keyClock, credentials, audit, successors, clones, attempt>>

(* revoke: harmless on a record that is not active.                         *)
RevokeRecord(i) ==
  /\ Exists(i) /\ ~RowLocked(i)
  /\ Row(i).status = "active"
  /\ credentials' = RevokedRows(i)
  /\ UNCHANGED <<keyClock, audit, successors, clones, txn, attempt>>

-----------------------------------------------------------------------------
(* Authentication.                                                         *)

Prints(k) == [n \in DOMAIN PepperRing |-> <<PepperRing[n], k>>]

PresentKey(c, k) ==
  /\ attempt[c].step = "none"
  /\ attempt' = [attempt EXCEPT ![c] = [step |-> "looks", key |-> k, nth |-> 1]]
  /\ UNCHANGED <<keyClock, credentials, audit, successors, clones, txn>>

(* authenticate_fingerprint, its update: a usable row is locked; no usable  *)
(* row is a rejection, after which the next pepper is tried.                *)
LookUp(c) ==
  /\ attempt[c].step = "looks"
  /\ LET f == Prints(attempt[c].key)[attempt[c].nth]
         hits == {r \in credentials : r.print = f /\ Usable(r)}
     IN IF hits # {}
        THEN /\ \A r \in hits : ~RowLocked(r.id)
             /\ attempt' = [attempt EXCEPT ![c] = [step |-> "audit", id |-> (CHOOSE r \in hits : TRUE).id]]
        ELSE attempt' = [attempt EXCEPT ![c] = IF @.nth < Len(PepperRing) THEN [@ EXCEPT !.nth = @ + 1]
                                               ELSE [step |-> "rejected"]]
  /\ UNCHANGED <<keyClock, credentials, audit, successors, clones, txn>>

(* authenticate_fingerprint: the audit row and the commit.                  *)
AuditAndCommit(c) ==
  /\ attempt[c].step = "audit"
  /\ audit' = [audit EXCEPT ![attempt[c].id] = @ + 1]
  /\ attempt' = [attempt EXCEPT ![c] = [step |-> "accepted"]]
  /\ UNCHANGED <<keyClock, credentials, successors, clones, txn>>

(* An error of the store ends the sequence, whatever pepper it was at.      *)
LookUpFails(c) ==
  /\ attempt[c].step \in {"looks", "audit"}
  /\ attempt' = [attempt EXCEPT ![c] = [step |-> "unavailable"]]
  /\ UNCHANGED <<keyClock, credentials, audit, successors, clones, txn>>

KeyClockPasses ==
  /\ keyClock < KeyClockHorizon
  /\ keyClock' = keyClock + 1
  /\ UNCHANGED <<credentials, audit, successors, clones, txn, attempt>>

-----------------------------------------------------------------------------
ApiKeyInit ==
  /\ keyClock = 0 /\ credentials = {} /\ successors = {} /\ clones = {}
  /\ audit = [i \in RecordId |-> 0]
  /\ txn = [a \in Admin |-> NoTxn]
  /\ attempt = [c \in Caller |-> NoAttempt]

ApiKeyNext ==
  \/ \E i \in RecordId, f \in Fingerprint, e \in Expiry :
       Register(i, f, e) \/ \E a \in Admin, r \in credentials : RotateInsert(a, r.id, i, f, e)
  \/ \E a \in Admin, s, i \in RecordId, f \in Fingerprint : CloneInsert(a, s, i, f)
  \/ \E a \in Admin : RotateRevoke(a) \/ CloneCommit(a) \/ TransactionLost(a)
  \/ \E i \in RecordId : RevokeRecord(i)
  \/ \E c \in Caller : (\E k \in ApiKey : PresentKey(c, k)) \/ LookUp(c) \/ AuditAndCommit(c) \/ LookUpFails(c)
  \/ KeyClockPasses

ApiKeySpec == ApiKeyInit /\ [][ApiKeyNext]_apiKeyVars

-----------------------------------------------------------------------------
(* Every variable has its type, identifiers and fingerprints are unique.    *)
ApiKeyTypeOK ==
  /\ keyClock \in 0..KeyClockHorizon
  /\ credentials \subseteq [id : RecordId, print : Fingerprint, expires : Expiry,
                            status : {"active", "revoked"}]
  /\ \A r, s \in credentials : (r.id = s.id \/ r.print = s.print) => r = s
  /\ audit \in [RecordId -> 0..Cardinality(Caller)]

(* rotate is a "no-overlap rotation": a replaced record is revoked for      *)
(* good, and concurrent rotations of one record leave one replacement.      *)
RotationHasOneSuccessor ==
  /\ \A p \in successors : Row(p[1]).status = "revoked"
  /\ \A p, q \in successors : p[1] = q[1] => p = q

(* A record is authenticated and audited only while it is active: a         *)
(* revocation that has committed is not overtaken by an authentication      *)
(* that looked the record up before.                                        *)
RevokedIsNotAudited ==
  [][\A i \in RecordId : audit'[i] # audit[i] => Row(i).status = "active"]_apiKeyVars

(* A clone appears only while its source is active, so that a revocation    *)
(* that has committed leaves no copy made from the record afterwards, and   *)
(* the copy expires with its source.                                        *)
ClonedWhileActive ==
  [][\A p \in clones' \ clones : Row(p[1]).status = "active"]_apiKeyVars

-----------------------------------------------------------------------------
(* What stands between a credential and a handler (rustee-auth): the bearer *)
(* and API-key layers that insert a Principal, the principal built from     *)
(* verified claims, tenant resolution, and the scope, permission and tenant *)
(* requirements.  An application stacks the layers in the order it likes,   *)
(* so the stack is an input; a request walks through it one layer a step.   *)

CONSTANTS
  Layers,      \* set of stacks: sequences of layer kinds
  Claimed,     \* the claims credentials carry: records of tenant, scopes, roles, permissions
  Tenants,     \* tenant identifiers
  NoTenant,    \* a principal or a request without one
  Invalid,     \* a value that is blank, too long or no OAuth scope token
  MaxValues,   \* MAX_PRINCIPAL_AUTHORIZATION_VALUES
  Required,    \* scopes, and permissions, the layers require
  Grants       \* RolePolicy: role -> permissions

VARIABLES layers, walk
policyVars == <<layers, walk>>

-----------------------------------------------------------------------------
(* The principal of verified claims.                                        *)

Refusal == [refused |-> TRUE]

(* insert_authorization_value, on the values gathered so far.               *)
InsertValue(values, v) ==
  IF values = Refusal \/ v = Invalid
     \/ (v \notin values.set /\ Cardinality(values.set) = MaxValues)
  THEN Refusal
  ELSE [refused |-> FALSE, set |-> values.set \cup {v}]

Gathered(seq) == FoldLeft(InsertValue, [refused |-> FALSE, set |-> {}], seq)

(* from_verified_claims.  An invalid scope token refuses the claims before  *)
(* any value is inserted.                                                   *)
FromClaims(claims) ==
  LET parts == [f \in {"scopes", "roles", "permissions"} |-> Gathered(claims[f])]
  IN IF claims.tenant = Invalid \/ \E f \in DOMAIN parts : parts[f].refused
     THEN Refusal
     ELSE [refused |-> FALSE, tenant |-> claims.tenant, scopes |-> parts["scopes"].set,
           roles |-> parts["roles"].set, permissions |-> parts["permissions"].set]

(* RolePolicy::permits: direct permissions and those of the roles.          *)
Permits(principal, permission) ==
  \/ permission \in principal.permissions
  \/ \E r \in principal.roles \cap DOMAIN Grants : permission \in Grants[r]

-----------------------------------------------------------------------------
(* The walk of one request.                                                 *)
NoClaims == [claims |-> FALSE]
NoWalk == [at |-> 0, principal |-> Refusal, claims |-> NoClaims, tenant |-> NoTenant,
           host |-> NoTenant, outcome |-> "none"]

Layer == layers[walk.at]
InLayer(kind) == walk.outcome = "walks" /\ walk.at \in DOMAIN layers /\ Layer = kind
Answer(status) == walk' = [walk EXCEPT !.outcome = status]
Inward == walk' = [walk EXCEPT !.at = @ + 1]

Arrives(stack, host) ==
  /\ walk.outcome = "none"
  /\ layers' = stack
  /\ walk' = [NoWalk EXCEPT !.at = 1, !.host = host, !.outcome = "walks"]

(* AuthLayer: a missing, repeated or malformed Authorization header is      *)
(* answered 401, as are refused credentials; an unavailable authenticator   *)
(* is 503.  The principal replaces the one an outer layer inserted.         *)
AuthBearer ==
  /\ InLayer("bearer")
  /\ \/ Answer("401")
     \/ Answer("503")
     \/ \E claims \in Claimed :
          IF FromClaims(claims).refused
          THEN walk' = [walk EXCEPT !.outcome = "401", !.claims = claims]
          ELSE walk' = [walk EXCEPT !.at = @ + 1, !.claims = claims, !.principal = FromClaims(claims)]
  /\ UNCHANGED layers

(* ApiKeyLayer: the principal stored with the key.                          *)
AuthApiKey ==
  /\ InLayer("api_key")
  /\ \/ Answer("401")
     \/ Answer("503")
     \/ \E claims \in Claimed :
          /\ ~FromClaims(claims).refused
          /\ walk' = [walk EXCEPT !.at = @ + 1, !.claims = claims, !.principal = FromClaims(claims)]
  /\ UNCHANGED layers

(* RequireScopes.                                                           *)
RequireScopes ==
  /\ InLayer("scopes")
  /\ IF walk.principal = Refusal THEN Answer("401")
     ELSE IF ~(Required.scopes \subseteq walk.principal.scopes) THEN Answer("403")
     ELSE Inward
  /\ UNCHANGED layers

(* RequirePermissions.                                                      *)
RequirePermissions ==
  /\ InLayer("permissions")
  /\ IF walk.principal = Refusal THEN Answer("401")
     ELSE IF \E p \in Required.permissions : ~Permits(walk.principal, p) THEN Answer("403")
     ELSE Inward
  /\ UNCHANGED layers

(* HostTenantResolver: no tenant for a host that is repeated, malformed or  *)
(* not mapped; another resolver may fail.  The tenant of the principal must *)
(* agree before the context is inserted.                                    *)
ResolveTenant ==
  /\ InLayer("tenant")
  /\ \/ /\ walk.principal = Refusal
        /\ Answer("401")
     \/ /\ walk.principal # Refusal
        /\ \/ Answer("503")
           \/ IF walk.host = NoTenant THEN Answer("404")
              ELSE IF walk.principal.tenant # walk.host THEN Answer("403")
              ELSE walk' = [walk EXCEPT !.at = @ + 1, !.tenant = walk.host]
  /\ UNCHANGED layers

(* RequireTenantMatch.                                                      *)
RequireTenantMatch ==
  /\ InLayer("tenant_match")
  /\ IF walk.principal = Refusal THEN Answer("401")
     ELSE IF walk.tenant = NoTenant THEN Answer("500")
     ELSE IF walk.principal.tenant # walk.tenant THEN Answer("403")
     ELSE Inward
  /\ UNCHANGED layers

Handle ==
  /\ walk.outcome = "walks" /\ walk.at = Len(layers) + 1
  /\ Answer("handled")
  /\ UNCHANGED layers

PolicyInit == layers = <<>> /\ walk = NoWalk

PolicyNext ==
  \/ \E stack \in Layers, host \in Tenants \cup {NoTenant} : Arrives(stack, host)
  \/ AuthBearer \/ AuthApiKey \/ RequireScopes \/ RequirePermissions
  \/ ResolveTenant \/ RequireTenantMatch \/ Handle

PolicySpec == PolicyInit /\ [][PolicyNext]_policyVars

-----------------------------------------------------------------------------
Authenticators == {"bearer", "api_key"}
(* The layer has no authenticator between itself and the handler.           *)
Innermost(k) == \E i \in DOMAIN layers :
  layers[i] = k /\ \A j \in i..Len(layers) : layers[j] \notin Authenticators

(* Values gathered from claims in any order and with any repetition are the *)
(* claims as a set, refused exactly when a value is invalid or there are    *)
(* more than MAX_PRINCIPAL_AUTHORIZATION_VALUES different ones.             *)
ClaimsAreASet ==
  walk.claims # NoClaims =>
    LET values == [f \in {"scopes", "roles", "permissions"} |->
                     {walk.claims[f][i] : i \in DOMAIN walk.claims[f]}]
    IN IF \E f \in DOMAIN values : Invalid \in values[f] \/ Cardinality(values[f]) > MaxValues
       THEN walk.outcome = "401"
       ELSE walk.principal # Refusal /\ \A f \in DOMAIN values : walk.principal[f] = values[f]

(* A handler behind the scope or permission layer runs for a principal that *)
(* meets the requirement, wherever the layer stands in the stack, unless a  *)
(* further authenticator inside the layer replaced the principal.           *)
HandlerIsAuthorized ==
  walk.outcome = "handled" =>
    /\ Innermost("scopes") => Required.scopes \subseteq walk.principal.scopes
    /\ Innermost("permissions") => \A p \in Required.permissions : Permits(walk.principal, p)

(* A handler behind a tenant layer runs for a principal of the tenant in    *)
(* its context.  RequireTenantMatch restores this behind an authenticator   *)
(* that replaced the principal tenant resolution had looked at.             *)
HandlerIsInTenant ==
  walk.outcome = "handled" /\ (Innermost("tenant") \/ Innermost("tenant_match")) =>
    walk.tenant # NoTenant /\ walk.principal.tenant = walk.tenant

(* A handler runs for a principal that meets its requirement in its tenant;    *)
(* concurrent rotations leave one successor; and what was revoked is neither   *)
(* authenticated nor cloned.                                                   *)
AccessIsEntitled ==
  /\ [](ApiKeyTypeOK
        /\ RotationHasOneSuccessor
        /\ ClaimsAreASet
        /\ HandlerIsAuthorized
        /\ HandlerIsInTenant)
  /\ RevokedIsNotAudited
  /\ ClonedWhileActive
=============================================================================
