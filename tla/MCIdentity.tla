----------------------------- MODULE MCIdentity -----------------------------
(* The identity components side by side: a behaviour runs one of them,      *)
(* chosen at the start, and the others rest in their initial state.         *)
EXTENDS Sessions, TokenVerification, AccessPolicy, McpOAuth, TLC

VARIABLE part
identityVars == <<sessionVars, oidcVars, jwksVars, introspectionVars, apiKeyVars, policyVars>>
grantVars == <<tokenVars, authorizationVars, discovery, sealed>>

(* An absent key, a key, and a key whose identifier is not unique.          *)
CONSTANT k1
KeyDocuments == {{}, {[kid |-> k1, usable |-> TRUE]},
                 {[kid |-> k1, usable |-> TRUE], [kid |-> k1, usable |-> FALSE]}}

CONSTANTS o1, o2
Expiries == (o1 :> 2) @@ (o2 :> 3)

Ring == <<"active", "retired_2", "retired_1">>

LayerKinds == {"bearer", "api_key", "tenant", "tenant_match", "scopes", "permissions"}
Stacks == [1..2 -> LayerKinds] \cup [1..3 -> LayerKinds]
          \cup {<<"bearer", "tenant", "api_key", "tenant_match">>,
                <<"bearer", "scopes", "tenant", "permissions">>}
Claims ==
  {[tenant |-> t, scopes |-> s, roles |-> r, permissions |-> <<>>] :
     t \in {"t1", "t2"}, s \in {<<"read">>, <<"read", "write", "read">>}, r \in {<<>>, <<"admin">>}}
  \cup {[tenant |-> NoTenant, scopes |-> s, roles |-> <<>>, permissions |-> <<"publish">>] :
     s \in {<<"read", "write", "delete">>, <<"read", Invalid>>, <<"write", "read", "write", "read">>}}
Requirement == [scopes |-> {"read", "write"}, permissions |-> {"publish"}]
RoleGrants == [admin |-> {"publish"}]

(* A process that still has only the first key, and one that has rotated.     *)
KeyRings == {[active |-> 1, keys |-> {1}], [active |-> 2, keys |-> {1, 2}]}

(* Resource servers with every number of authorization servers and scopes    *)
(* around the limits; the other challenges of a response.                    *)
Resources ==
  [resource : {40, 2048}, metadata : {80, 2048}, servers : {0, 1, 3, 8, 9}, server : {2048},
   scopes : {0, 1, 24, 32, 33}, scope : {8, 189, 256}]
Challenges ==
  {<<>>,
   <<[bytes |-> 20, segments |-> <<Segment("other", "realm"), Segment("none", "resource_metadata")>>]>>,
   <<[bytes |-> 8000, segments |-> <<Segment("bearer", "realm")>>]>>,
   <<[bytes |-> 60, segments |-> <<Segment("bearer", "realm"), Segment("other", "resource_metadata")>>],
     [bytes |-> 60, segments |-> <<Segment("bearer", "resource_metadata")>>]>>}

Init ==
  /\ SessionInit /\ OidcInit /\ JwksInit /\ IntrospectionInit /\ ApiKeyInit /\ PolicyInit
  /\ McpTokensInit /\ McpAuthorizationInit /\ McpDiscoveryInit /\ McpSecretsInit
  /\ part \in {"sessions", "login", "jwks", "introspection", "api_keys", "policy",
               "tokens", "authorization", "discovery", "secrets"}
  /\ part # "login" => loginStore = "memory"
  /\ part \notin {"sessions", "login"} => sessionStore = "memory"
  /\ part # "tokens" => tokenStore = "memory"
  /\ part # "authorization" => pendingStore = "memory"

IdentityNext ==
  \/ /\ part = "sessions" /\ SessionNext
     /\ UNCHANGED <<oidcVars, jwksVars, introspectionVars, apiKeyVars, policyVars>>
  \/ /\ part = "login" /\ OidcNext
     /\ UNCHANGED <<jwksVars, introspectionVars, apiKeyVars, policyVars>>
  \/ /\ part = "jwks" /\ JwksNext
     /\ UNCHANGED <<sessionVars, oidcVars, introspectionVars, apiKeyVars, policyVars>>
  \/ /\ part = "introspection" /\ IntrospectionNext
     /\ UNCHANGED <<sessionVars, oidcVars, jwksVars, apiKeyVars, policyVars>>
  \/ /\ part = "api_keys" /\ ApiKeyNext
     /\ UNCHANGED <<sessionVars, oidcVars, jwksVars, introspectionVars, policyVars>>
  \/ /\ part = "policy" /\ PolicyNext
     /\ UNCHANGED <<sessionVars, oidcVars, jwksVars, introspectionVars, apiKeyVars>>

GrantNext ==
  \/ part = "tokens" /\ McpTokensNext /\ UNCHANGED <<authorizationVars, discovery, sealed>>
  \/ part = "authorization" /\ McpAuthorizationNext /\ UNCHANGED <<tokenVars, discovery, sealed>>
  \/ part = "discovery" /\ McpDiscoveryNext /\ UNCHANGED <<tokenVars, authorizationVars, sealed>>
  \/ part = "secrets" /\ McpSecretsNext /\ UNCHANGED <<tokenVars, authorizationVars, discovery>>

Next ==
  /\ \/ IdentityNext /\ UNCHANGED grantVars
     \/ GrantNext /\ UNCHANGED identityVars
  /\ UNCHANGED part

Spec == Init /\ [][Next]_<<part, identityVars, grantVars>>

=============================================================================
