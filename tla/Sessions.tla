------------------------------ MODULE Sessions ------------------------------
(* Browser sessions, and the OpenID Connect login that establishes them.    *)
EXTENDS Naturals, FiniteSets

-----------------------------------------------------------------------------
(* Cookie sessions: the session manager (rustee-auth-session), its two      *)
(* stores (the in-memory one and rustee-auth-session-redis), the session    *)
(* middleware and the CSRF middleware behind it.                            *)
(*                                                                          *)
(* Every client has a browser with at most one session cookie.  A manager   *)
(* call (establish, rotate, invalidate) and a request are each a sequence   *)
(* of steps with an await between them, so calls of several clients         *)
(* interleave and time passes between any two steps.                        *)

CONSTANTS
  Browser,          \* the clients
  SessionId,        \* Uuid::new_v4 values, numbered in the order they are drawn: 1..n
  NoId,             \* no session cookie, or none that parses
  Person,           \* principals
  SessionTtl,       \* SessionCookieConfig::ttl_seconds
  MaxSessions,      \* MAX_IN_MEMORY_SESSIONS
  SessionHorizon    \* bound on the clock

VARIABLES
  sessionTime,      \* unix_seconds()
  sessionStore,     \* "memory" or "redis"
  kept,             \* what the store holds: a set of StoredSession
  drawn,            \* sessions ever created, by Session::new
  closed,           \* identifiers whose deletion was reported as done
  manager,          \* per client: the manager call in progress or finished
  jar,              \* per client: the identifier in its cookie, or NoId
  visit             \* one request, of any client: requests do not meet each other

sessionVars == <<sessionTime, sessionStore, kept, drawn, closed, manager, jar, visit>>

(* gone is when Redis drops the key.                                        *)
Session == [id : SessionId, who : Person, expires : Nat]
StoredSession == [session : Session, gone : Nat]

Idle == [step |-> "idle"]
NoVisit == [step |-> "none"]
Refused == [step |-> "refused"]

(* Session::is_expired, at the current second.                              *)
IsExpired(s) == s.expires <= sessionTime

-----------------------------------------------------------------------------
(* The stores.                                                             *)

(* Entries the in-memory store retains at each save and load; Redis drops   *)
(* a key when its time to live has run out.                                 *)
Retained ==
  IF sessionStore = "memory" THEN {e \in kept : ~IsExpired(e.session)}
                             ELSE {e \in kept : e.gone > sessionTime}

Without(entries, i) == {e \in entries : e.session.id # i}

(* InMemorySessionStore::save, under the store's mutex.                     *)
MemorySave(s, answer, entries) ==
  CASE IsExpired(s) -> answer = "expired" /\ entries = Retained
    [] ~IsExpired(s) /\ Without(Retained, s.id) = Retained /\ Cardinality(Retained) >= MaxSessions
       -> answer = "full" /\ entries = Retained
    [] OTHER -> /\ answer = "ok"
                /\ entries = Without(Retained, s.id) \cup {[session |-> s, gone |-> s.expires]}

(* RedisSessionStore::save: the time to live is computed from one reading   *)
(* of the clock and starts when Redis applies the command, at most one      *)
(* second later.  A command whose answer is lost has been applied or not.   *)
RedisSave(s, answer, entries) ==
  IF s.expires <= sessionTime
  THEN answer = "expired" /\ entries = kept
  ELSE \E late \in {0, 1} :
         LET written == Without(kept, s.id) \cup {[session |-> s, gone |-> s.expires + late]}
         IN \/ answer = "ok" /\ entries = written
            \/ answer = "unavailable" /\ entries \in {kept, written}

StoreSave(s, answer, entries) ==
  IF sessionStore = "memory" THEN MemorySave(s, answer, entries)
                             ELSE RedisSave(s, answer, entries)

(* SessionStore::delete.                                                    *)
StoreDelete(i, answer, entries) ==
  \/ answer = "ok" /\ entries = Without(kept, i)
  \/ sessionStore = "redis" /\ answer = "unavailable" /\ entries \in {kept, Without(kept, i)}

-----------------------------------------------------------------------------
(* SessionManager.                                                         *)

(* Session::new: a fresh identifier, expiring ttl seconds from now.         *)
NewSession(c, p) ==
  \E i \in SessionId :
    /\ {s.id : s \in drawn} = {j \in SessionId : j < i}
    /\ LET s == [id |-> i, who |-> p, expires |-> sessionTime + SessionTtl]
       IN /\ drawn' = drawn \cup {s}
          /\ manager' = [manager EXCEPT ![c] = [step |-> "save", session |-> s]]

(* establish, up to its await.                                              *)
Establish(c, p) ==
  /\ manager[c].step \in {"idle", "done"}
  /\ NewSession(c, p)
  /\ UNCHANGED <<sessionTime, sessionStore, kept, closed, jar, visit>>

(* The save of establish: the cookie goes to the browser only when the      *)
(* store has answered.                                                      *)
SaveSession(c) ==
  /\ manager[c].step = "save"
  /\ \E answer \in {"ok", "expired", "full", "unavailable"} :
       /\ StoreSave(manager[c].session, answer, kept')
       /\ manager' = [manager EXCEPT ![c] = [step |-> "done", answer |-> answer]]
       /\ jar' = [jar EXCEPT ![c] = IF answer = "ok" THEN manager[c].session.id ELSE @]
  /\ UNCHANGED <<sessionTime, sessionStore, drawn, closed, visit>>

(* A rotation that keeps the identifier of the session it replaces.         *)
RotateInPlace(c, p) ==
  /\ manager[c].step \in {"idle", "done"} /\ jar[c] # NoId
  /\ LET s == [id |-> jar[c], who |-> p, expires |-> sessionTime + SessionTtl]
     IN /\ StoreDelete(jar[c], "ok", kept')
        /\ closed' = closed \cup {jar[c]}
        /\ drawn' = drawn \cup {s}
        /\ manager' = [manager EXCEPT ![c] = [step |-> "save", session |-> s]]
  /\ UNCHANGED <<sessionTime, sessionStore, jar, visit>>

(* rotate: the previous session is deleted before the new one is drawn.     *)
Rotate(c, p) ==
  /\ manager[c].step \in {"idle", "done"} /\ jar[c] # NoId
  /\ \/ /\ StoreDelete(jar[c], "ok", kept')
        /\ closed' = closed \cup {jar[c]}
        /\ NewSession(c, p)
     \/ /\ StoreDelete(jar[c], "unavailable", kept')
        /\ manager' = [manager EXCEPT ![c] = [step |-> "done", answer |-> "unavailable"]]
        /\ UNCHANGED <<closed, drawn>>
  /\ UNCHANGED <<sessionTime, sessionStore, jar, visit>>

(* invalidate: the clearing cookie is sent only if the store deleted.       *)
Invalidate(c) ==
  /\ manager[c].step \in {"idle", "done"} /\ jar[c] # NoId
  /\ \E answer \in {"ok", "unavailable"} :
       /\ StoreDelete(jar[c], answer, kept')
       /\ closed' = IF answer = "ok" THEN closed \cup {jar[c]} ELSE closed
       /\ jar' = [jar EXCEPT ![c] = IF answer = "ok" THEN NoId ELSE @]
       /\ manager' = [manager EXCEPT ![c] = [step |-> "done", answer |-> answer]]
  /\ UNCHANGED <<sessionTime, sessionStore, drawn, visit>>

-----------------------------------------------------------------------------
(* A request through the session and the CSRF middleware.                  *)

(* A request leaves the browser with the cookie of that moment, possibly    *)
(* none, a safe or an unsafe method, and a CSRF header that is the token    *)
(* drawn with that session, or is not: missing, doubled, or of an old page. *)
Send(c) ==
  /\ visit.step \in {"none", "served", "refused"}
  /\ \E i \in {NoId, jar[c]}, unsafe, token \in BOOLEAN :
       /\ unsafe \/ token
       /\ visit' = [step |-> "load", id |-> i, unsafe |-> unsafe, token |-> token,
                 found |-> {}, user |-> {}, at |-> 0, closedBefore |-> closed]
  /\ UNCHANGED <<sessionTime, sessionStore, kept, drawn, closed, manager, jar>>

(* SessionService::call up to the answer of the store.  Without one single  *)
(* parsable session cookie the store is not asked.                          *)
LoadSession ==
  /\ visit.step = "load"
  /\ kept' = IF sessionStore = "memory" /\ visit.id # NoId THEN Retained ELSE kept
  /\ \/ visit' = [visit EXCEPT !.step = "loaded",
                               !.found = {e.session : e \in {k \in Retained :
                                                                 k.session.id = visit.id}}]
     \/ /\ sessionStore = "redis" /\ visit.id # NoId
        /\ visit' = Refused
  /\ UNCHANGED <<sessionTime, sessionStore, drawn, closed, manager, jar>>

(* The rest of call, and CsrfService::call behind it: an expired session    *)
(* counts as none, a request without a session goes on unauthenticated, and *)
(* an unsafe one with a session needs that session's token.                 *)
Admit ==
  LET live == {s \in visit.found : ~IsExpired(s)}
      passes == live = {} \/ ~visit.unsafe \/ visit.token
  IN /\ visit.step = "loaded"
     /\ visit' = IF passes
                  THEN [visit EXCEPT !.step = "served", !.user = live, !.found = {},
                                         !.at = sessionTime]
                  ELSE Refused
     /\ UNCHANGED <<sessionTime, sessionStore, kept, drawn, closed, manager, jar>>

-----------------------------------------------------------------------------
SecondPasses ==
  /\ sessionTime < SessionHorizon
  /\ sessionTime' = sessionTime + 1
  /\ UNCHANGED <<sessionStore, kept, drawn, closed, manager, jar, visit>>

SessionInit ==
  /\ sessionTime = 0
  /\ sessionStore \in {"memory", "redis"}
  /\ kept = {} /\ drawn = {} /\ closed = {}
  /\ manager = [c \in Browser |-> Idle]
  /\ jar = [c \in Browser |-> NoId]
  /\ visit = NoVisit

SessionStep(c) ==
  \/ \E p \in Person : Establish(c, p) \/ Rotate(c, p)
  \/ SaveSession(c) \/ Invalidate(c)
  \/ Send(c)

SessionNext == SecondPasses \/ LoadSession \/ Admit \/ \E c \in Browser : SessionStep(c)

SessionSpec == SessionInit /\ [][SessionNext]_sessionVars

-----------------------------------------------------------------------------
(* Every variable has its type; the history grows only by Session::new.     *)
SessionTypeOK ==
  /\ sessionTime \in 0..SessionHorizon
  /\ sessionStore \in {"memory", "redis"}
  /\ kept \subseteq StoredSession /\ drawn \subseteq Session
  /\ closed \subseteq SessionId
  /\ jar \in [Browser -> SessionId \cup {NoId}]
  /\ \A c \in Browser : manager[c].step \in {"idle", "save", "done"}
  /\ visit.step \in {"none", "load", "loaded", "served", "refused"}

(* A request is served as a person only on a session that person was issued *)
(* and that had not expired when the request was let in, although Redis may *)
(* keep the key a second longer and the answer of the store may be old.     *)
ServedOnLiveSession ==
  visit.step = "served" => \A s \in visit.user : s \in drawn /\ s.expires > visit.at

(* Once a logout or a rotation has been answered, no request sent later is  *)
(* served on the session it closed: no late save brings an identifier back. *)
ClosedIsNotServed ==
  visit.step = "served" => \A s \in visit.user : s.id \notin visit.closedBefore

(* The in-memory store refuses a session as one too many only when it holds *)
(* MaxSessions sessions that are all still live, and never holds more.      *)
FullMeansFull ==
  [][sessionStore = "memory" =>
       /\ Cardinality(kept') <= MaxSessions
       /\ \A c \in Browser :
            (manager[c].step = "save" /\ manager'[c].step = "done" /\ manager'[c].answer = "full") =>
              Cardinality({e \in kept : e.session.expires > sessionTime}) >= MaxSessions]_sessionVars

-----------------------------------------------------------------------------
(* Browser login with the authorization code flow (rustee-auth-oidc,        *)
(* OidcBrowserLogin), its transaction stores (in memory, and                *)
(* rustee-auth-oidc-redis), and the session it establishes at the end.      *)
(*                                                                          *)
(* A login is named by its state value: nonce and PKCE verifier are drawn   *)
(* with it and stored under it.  The identity provider is external: it may  *)
(* be down, it authenticates a person for the login it was asked about, and *)
(* its ID token carries the nonce of that login.  The model does not rely   *)
(* on the provider checking the PKCE verifier or refusing a used code.      *)

CONSTANTS
  Login,             \* state values
  LoginTtl,          \* OidcBrowserConfig::transaction_ttl
  MaxTransactions    \* MAX_IN_MEMORY_TRANSACTIONS

VARIABLES
  loginStore,        \* "memory" or "redis"
  started,           \* logins whose state has been drawn
  transactions,      \* pending: a set of [login, expires]
  sentOut,           \* logins whose redirect reached the browser
  codes,             \* authorization codes handed out: [login, who]
  callback,          \* per browser: the callback being handled
  completions        \* per login: how often a callback with its state completed

oidcVars == <<loginStore, started, transactions, sentOut, codes, callback, completions>>

NoCallback == [step |-> "none"]
Failed(why) == [step |-> "failed", why |-> why]

(* PendingAuthorization::is_expired.                                        *)
PendingExpired(t) == t.expires <= sessionTime

-----------------------------------------------------------------------------

(* AuthorizationTransactionStore::save: never over a pending state, and in  *)
(* memory never over the capacity once expired ones are dropped.            *)
SaveTransaction(t, answer, pending) ==
  LET live == {u \in transactions : ~PendingExpired(u)}
  IN IF loginStore = "memory"
     THEN \/ /\ \E u \in live : u.login = t.login
             /\ answer = "duplicate" /\ pending = live
          \/ /\ \A u \in live : u.login # t.login
             /\ Cardinality(live) >= MaxTransactions
             /\ answer = "full" /\ pending = live
          \/ /\ \A u \in live : u.login # t.login
             /\ Cardinality(live) < MaxTransactions
             /\ answer = "ok" /\ pending = live \cup {t}
     ELSE \/ answer = "ok" /\ pending = transactions \cup {t}
          \/ answer = "unavailable" /\ pending \in {transactions, transactions \cup {t}}

(* begin: discovery, the three drawn values, the redirect, the transaction. *)
(* Discovery may fail, its document may not match the configuration, and    *)
(* the redirect may be too long; nothing is stored then.                    *)
Begin(l) ==
  /\ l \notin started
  /\ started' = started \cup {l}
  /\ \/ UNCHANGED <<transactions, sentOut>>
     \/ \E answer \in {"ok", "duplicate", "full", "unavailable"} :
          /\ SaveTransaction([login |-> l, expires |-> sessionTime + LoginTtl], answer, transactions')
          /\ sentOut' = IF answer = "ok" THEN sentOut \cup {l} ELSE sentOut
  /\ UNCHANGED <<loginStore, codes, callback, completions, sessionVars>>

(* The provider authenticates a person for a login that was sent to it.     *)
Authenticate(l, p) ==
  /\ l \in sentOut
  /\ \A k \in codes : k.login # l
  /\ codes' = codes \cup {[login |-> l, who |-> p]}
  /\ UNCHANGED <<loginStore, started, transactions, sentOut, callback, completions, sessionVars>>

-----------------------------------------------------------------------------
(* complete.                                                               *)

(* AuthorizationTransactionStore::take: removal and answer are one step.    *)
(* None is the empty set.                                                   *)
Take(l, answer, pending) ==
  /\ answer = {t \in transactions : t.login = l}
  /\ pending = transactions \ answer

(* A callback arrives with the state of some login and a code, possibly of  *)
(* another login the browser has open, or with an error of the provider; a  *)
(* browser may deliver the same callback again.  Up to the code exchange:   *)
(* the state is taken before anything else is looked at.                    *)
Arrive(c) ==
  /\ callback[c].step \in {"none", "failed", "done"}
  /\ manager[c].step # "save"
  /\ \E l \in started, brought \in codes \cup {NoCallback} :
       \E taken \in SUBSET transactions :
         /\ Take(l, taken, transactions')
         /\ callback' = [callback EXCEPT ![c] =
              IF taken = {} THEN Failed("state_rejected")
              ELSE IF \E t \in taken : PendingExpired(t) THEN Failed("transaction_expired")
              ELSE IF brought = NoCallback THEN Failed("provider_or_callback_rejected")
              ELSE [step |-> "exchange", login |-> l, code |-> brought]]
  /\ UNCHANGED <<loginStore, started, sentOut, codes, completions, sessionVars>>

(* Redis fails the take: the transaction has been removed or not.           *)
ArriveUnavailable(c) ==
  /\ loginStore = "redis"
  /\ callback[c].step \in {"none", "failed", "done"}
  /\ manager[c].step # "save"
  /\ \E l \in started :
       \/ UNCHANGED transactions
       \/ \E taken \in SUBSET transactions : Take(l, taken, transactions')
  /\ callback' = [callback EXCEPT ![c] = Failed("transaction_store_unavailable")]
  /\ UNCHANGED <<loginStore, started, sentOut, codes, completions, sessionVars>>

(* The exchange: the provider is down, answers without an ID token, or      *)
(* answers with the token of the login the code was issued for.             *)
Exchange(c) ==
  /\ callback[c].step = "exchange"
  /\ callback' = [callback EXCEPT ![c] = [@ EXCEPT !.step = "verify"]]
     \/ \E why \in {"token_exchange_unavailable", "missing_id_token"} :
          callback' = [callback EXCEPT ![c] = Failed(why)]
  /\ UNCHANGED <<loginStore, started, transactions, sentOut, codes, completions, sessionVars>>

(* verify_id_token and matches_browser_login_binding: the token's nonce is  *)
(* the one stored with the transaction.                                     *)
TokenMatches(l, code) == code.login = l

(* verify_id_token, then complete_session: establish draws the session that *)
(* SaveSession stores.  The key set may be unavailable.                     *)
Verify(c) ==
  /\ callback[c].step = "verify"
  /\ \/ /\ TokenMatches(callback[c].login, callback[c].code)
        /\ NewSession(c, callback[c].code.who)
        /\ completions' = [completions EXCEPT ![callback[c].login] = @ + 1]
        /\ callback' = [callback EXCEPT ![c].step = "done"]
     \/ /\ ~TokenMatches(callback[c].login, callback[c].code)
        /\ callback' = [callback EXCEPT ![c] = Failed("identity_token_rejected")]
        /\ UNCHANGED <<completions, drawn, manager>>
     \/ /\ callback' = [callback EXCEPT ![c] = Failed("identity_provider_unavailable")]
        /\ UNCHANGED <<completions, drawn, manager>>
  /\ UNCHANGED <<loginStore, started, transactions, sentOut, codes,
                 sessionTime, sessionStore, kept, closed, jar, visit>>

-----------------------------------------------------------------------------
OidcInit ==
  /\ loginStore \in {"memory", "redis"}
  /\ started = {} /\ transactions = {} /\ sentOut = {} /\ codes = {}
  /\ callback = [c \in Browser |-> NoCallback]
  /\ completions = [l \in Login |-> 0]

OidcNext ==
  \/ \E l \in Login : Begin(l) \/ \E p \in Person : Authenticate(l, p)
  \/ \E c \in Browser : Arrive(c) \/ ArriveUnavailable(c) \/ Exchange(c) \/ Verify(c)
  \/ (SecondPasses \/ \E c \in Browser : SaveSession(c)) /\ UNCHANGED oidcVars

OidcSpec == SessionInit /\ OidcInit /\ [][OidcNext]_<<sessionVars, oidcVars>>

-----------------------------------------------------------------------------
(* Every variable has its type.                                             *)
OidcTypeOK ==
  /\ loginStore \in {"memory", "redis"}
  /\ sentOut \subseteq started /\ started \subseteq Login
  /\ transactions \subseteq [login : Login, expires : Nat]
  /\ codes \subseteq [login : Login, who : Person]
  /\ completions \in [Login -> Nat]
  /\ \A c \in Browser : callback[c].step \in {"none", "exchange", "verify", "done", "failed"}

(* A login completes at most once, however often its callback is delivered  *)
(* and however the deliveries interleave: take removes what it returns.     *)
LoginOnce == \A l \in Login : completions[l] <= 1

(* Every session belongs to a person who authenticated for the very login   *)
(* whose state came back with the code, also when a browser with several    *)
(* open logins brings the code of one with the state of another.            *)
SessionOfTheLogin ==
  \A c \in Browser : callback[c].step = "done" =>
    /\ [login |-> callback[c].login, who |-> callback[c].code.who] \in codes
    /\ manager[c].step = "save" => manager[c].session.who = callback[c].code.who

(* Beginning a login never pushes another one out of the in-memory store:   *)
(* at its capacity the new login is refused, and only expired transactions  *)
(* make room.                                                               *)
PendingIsNotPushedOut ==
  [][started' # started =>
       /\ loginStore = "memory" => Cardinality(transactions') <= MaxTransactions
       /\ \A t \in transactions \ transactions' : PendingExpired(t)]_<<sessionVars, oidcVars>>

(* A person is served only on a live session of their own login, a closed      *)
(* session is never served again, a login completes once, and neither store    *)
(* pushes out a session or a login to make room for another.                   *)
SessionsAreOwned ==
  /\ [](SessionTypeOK
        /\ OidcTypeOK
        /\ ServedOnLiveSession
        /\ ClosedIsNotServed
        /\ LoginOnce
        /\ SessionOfTheLogin)
  /\ FullMeansFull
  /\ PendingIsNotPushedOut
=============================================================================
