----------------------------- MODULE HttpServer -----------------------------
(* The HTTP/1 server of rustee-server (src/runtime.rs): one accept loop, one  *)
(* task per connection, a semaphore for connections and one for requests in   *)
(* flight, a timeout around the service and a bounded graceful shutdown.      *)
(*                                                                            *)
(* A connection carries one request at a time (HTTP/1 without pipelining).    *)
(* Permits are counted where the code holds them: a connection permit lives   *)
(* in the connection's task, a request permit in dispatch_request's future,   *)
(* so dropping either future gives the permit back.                           *)
EXTENDS Integers, FiniteSets

CONSTANTS HttpConns,       \* connections that clients open, each once
          MaxConnections,  \* ServerOptions::max_connections
          MaxInFlight,     \* ServerOptions::max_in_flight_requests
          MaxBodyBytes,    \* ServerOptions::max_body_bytes
          BodySizes,       \* sizes of the bodies that clients send
          MaxAsked         \* bound: requests per connection

(* ServerOptions::validate.                                                   *)
ASSUME ServerOptionsAreValid ==
  /\ MaxConnections \in Nat \ {0}
  /\ MaxInFlight \in Nat \ {0}
  /\ MaxBodyBytes \in Nat \ {0}
  /\ BodySizes \subseteq Nat
  /\ MaxAsked \in Nat

VARIABLES phase,        \* of serve_service_listener_with_options
          hconn,        \* per connection: its task and the request it carries
          connPermits,  \* permits left in connections_limit
          reqPermits    \* permits left in concurrency

httpVars == <<phase, hconn, connPermits, reqPermits>>

\* `end` says how the task ended; `seen` is what the handler read of the body.
NewConn ==
  [st |-> "new", req |-> "idle", graceful |-> FALSE, end |-> "none",
   asked |-> 0, answered |-> 0, size |-> 0, seen |-> 0, joined |-> FALSE]

Live(c) == hconn[c].st = "open"

HttpTypeOK ==
  /\ phase \in {"accept", "drain", "abort", "stopped", "failed"}
  /\ hconn \in [HttpConns ->
       [st : {"new", "open", "refused", "ended"},
        req : {"idle", "serving", "replying"}, graceful : BOOLEAN,
        end : {"none", "clean", "broken", "aborted"}, asked : 0..MaxAsked,
        answered : 0..MaxAsked, size : BodySizes \cup {0},
        seen : Nat, joined : BOOLEAN]]
  /\ connPermits \in 0..MaxConnections
  /\ reqPermits \in 0..MaxInFlight

HttpInit ==
  /\ phase = "accept"
  /\ hconn = [c \in HttpConns |-> NewConn]
  /\ connPermits = MaxConnections
  /\ reqPermits = MaxInFlight

(* The accept arm: without a permit the stream is dropped.                    *)
AcceptConnection(c) ==
  /\ phase = "accept" /\ hconn[c].st = "new"
  /\ IF connPermits > 0
       THEN /\ hconn' = [hconn EXCEPT ![c].st = "open"]
            /\ connPermits' = connPermits - 1
       ELSE /\ hconn' = [hconn EXCEPT ![c].st = "refused"]
            /\ UNCHANGED connPermits
  /\ UNCHANGED <<phase, reqPermits>>

(* `accepted?`: the error is returned at once and the dropped JoinSet aborts  *)
(* the connections.                                                           *)
AcceptFails ==
  /\ phase = "accept"
  /\ phase' = "failed"
  /\ UNCHANGED <<hconn, connPermits, reqPermits>>

(* Mutant of EndConnection: the permit of a dropped request stays taken.      *)
LeakRequestPermit(c, how) ==
  /\ hconn' = [hconn EXCEPT ![c].st = "ended", ![c].end = how, ![c].req = "idle",
                            ![c].size = 0, ![c].seen = 0]
  /\ connPermits' = connPermits + 1
  /\ UNCHANGED reqPermits

(* Ends the task of c and drops what it owns: both permits, if held.          *)
EndConnection(c, how) ==
  /\ hconn' = [hconn EXCEPT ![c].st = "ended", ![c].end = how, ![c].req = "idle",
                            ![c].size = 0, ![c].seen = 0]
  /\ connPermits' = connPermits + 1
  /\ reqPermits' = reqPermits + IF hconn[c].req = "serving" THEN 1 ELSE 0

(* declared_body_exceeds_limit, of a request that declares its length.        *)
DeclaredBodyExceedsLimit(declares, size) == declares /\ size > MaxBodyBytes

(* dispatch_request up to the service call: 413, 503, or the service.         *)
DispatchRequest(c, declares, size) ==
  /\ Live(c) /\ hconn[c].req = "idle" /\ hconn[c].asked < MaxAsked
  /\ hconn[c].graceful => hconn[c].asked = 0
  /\ phase # "failed"
  /\ LET serves == ~DeclaredBodyExceedsLimit(declares, size) /\ reqPermits > 0
     IN  /\ hconn' = [hconn EXCEPT ![c].asked = @ + 1, ![c].seen = 0,
                                   ![c].size = IF serves THEN size ELSE 0,
                                   ![c].req = IF serves THEN "serving" ELSE "replying"]
         /\ reqPermits' = reqPermits - IF serves THEN 1 ELSE 0
  /\ UNCHANGED <<phase, connPermits>>

(* into_rustee_request limits the body and collect_body reports the overflow  *)
(* as 413: a handler is given the whole body or, beyond the limit, nothing.   *)
CollectBody(size) == IF size <= MaxBodyBytes THEN size ELSE 0

ReadBody(c) ==
  /\ Live(c) /\ hconn[c].req = "serving" /\ hconn[c].seen = 0
  /\ CollectBody(hconn[c].size) > 0
  /\ hconn' = [hconn EXCEPT ![c].seen = CollectBody(hconn[c].size)]
  /\ UNCHANGED <<phase, connPermits, reqPermits>>

(* The service answers, or the timeout drops its future and answers 408; the  *)
(* permit goes back before the response is written.                           *)
ServiceReturns(c) ==
  /\ Live(c) /\ hconn[c].req = "serving"
  /\ hconn' = [hconn EXCEPT ![c].req = "replying", ![c].size = 0, ![c].seen = 0]
  /\ reqPermits' = reqPermits + 1
  /\ UNCHANGED <<phase, connPermits>>

(* The response has been written: keep-alive, unless shutdown disabled it.    *)
ResponseWritten(c) ==
  /\ Live(c) /\ hconn[c].req = "replying"
  /\ IF hconn[c].graceful
       THEN /\ hconn' = [hconn EXCEPT ![c].st = "ended", ![c].end = "clean",
                                      ![c].req = "idle", ![c].answered = @ + 1]
            /\ connPermits' = connPermits + 1
       ELSE /\ hconn' = [hconn EXCEPT ![c].req = "idle", ![c].answered = @ + 1]
            /\ UNCHANGED connPermits
  /\ UNCHANGED <<phase, reqPermits>>

(* The client leaves between requests, breaks off, stalls past the header     *)
(* timeout, or the handler panics: the task ends where it is.                 *)
ConnectionEnds(c) ==
  /\ Live(c)
  /\ EndConnection(c, IF hconn[c].req = "idle" THEN "clean" ELSE "broken")
  /\ UNCHANGED phase

Shutdown ==
  /\ phase = "accept"
  /\ phase' = "drain"
  /\ UNCHANGED <<hconn, connPermits, reqPermits>>

(* wait_for_connection_shutdown and graceful_shutdown: a connection between   *)
(* two requests closes, a busy one finishes its request first; hyper may      *)
(* leave one that has not sent anything yet to its first request.             *)
GracefulShutdown(c) ==
  /\ Live(c) /\ phase \in {"drain", "abort"} /\ ~hconn[c].graceful
  /\ \/ /\ hconn[c].req = "idle"
        /\ EndConnection(c, "clean")
     \/ /\ hconn[c].req # "idle" \/ hconn[c].asked = 0
        /\ hconn' = [hconn EXCEPT ![c].graceful = TRUE]
        /\ UNCHANGED <<connPermits, reqPermits>>
  /\ UNCHANGED phase

(* connections.join_next(), of the accept loop and of both drain loops.       *)
JoinConnection(c) ==
  /\ phase \in {"accept", "drain", "abort"}
  /\ hconn[c].st = "ended" /\ ~hconn[c].joined
  /\ hconn' = [hconn EXCEPT ![c].joined = TRUE]
  /\ UNCHANGED <<phase, connPermits, reqPermits>>

ConnectionsEmpty ==
  \A c \in HttpConns : hconn[c].st \in {"open", "ended"} => hconn[c].joined

(* drain_connections' timeout: abort_all, then the second drain loop.         *)
GraceExpires ==
  /\ phase = "drain" /\ ~ConnectionsEmpty
  /\ phase' = "abort"
  /\ UNCHANGED <<hconn, connPermits, reqPermits>>

AbortConnection(c) ==
  /\ phase \in {"abort", "failed"} /\ Live(c)
  /\ EndConnection(c, "aborted")
  /\ UNCHANGED phase

DrainConnections ==
  /\ phase \in {"drain", "abort"} /\ ConnectionsEmpty
  /\ phase' = "stopped"
  /\ UNCHANGED <<hconn, connPermits, reqPermits>>

HttpStep(c) ==
  \/ AcceptConnection(c)
  \/ \E declares \in BOOLEAN, size \in BodySizes : DispatchRequest(c, declares, size)
  \/ ReadBody(c)
  \/ ServiceReturns(c)
  \/ ResponseWritten(c)
  \/ ConnectionEnds(c)
  \/ GracefulShutdown(c)
  \/ JoinConnection(c)
  \/ AbortConnection(c)

HttpNext ==
  \/ \E c \in HttpConns : HttpStep(c)
  \/ AcceptFails
  \/ Shutdown
  \/ GraceExpires
  \/ DrainConnections

(* The server's own tasks are scheduled; clients and handlers owe nothing.    *)
HttpFairness ==
  /\ WF_httpVars(GraceExpires)
  /\ WF_httpVars(DrainConnections)
  /\ \A c \in HttpConns : WF_httpVars(JoinConnection(c)) /\ WF_httpVars(AbortConnection(c))

HttpSpec == HttpInit /\ [][HttpNext]_httpVars /\ HttpFairness

-----------------------------------------------------------------------------
(* Every permit is either in its semaphore or held by a live future, whatever *)
(* drops the future: answer, timeout, broken connection, panic or abort.      *)
PermitsAreAccountedFor ==
  /\ connPermits = MaxConnections - Cardinality({c \in HttpConns : Live(c)})
  /\ reqPermits = MaxInFlight - Cardinality({c \in HttpConns : hconn[c].req = "serving"})

(* serve returns Ok only when no connection task is left running, also when   *)
(* the grace period ran out.                                                  *)
StoppedHasNoTask == phase = "stopped" => \A c \in HttpConns : ~Live(c)

(* A connection that ends cleanly, graceful shutdown included, has answered   *)
(* every request it took.                                                     *)
CleanEndAnswersAll ==
  \A c \in HttpConns : hconn[c].end = "clean" => hconn[c].asked = hconn[c].answered

(* A handler never reads more than max_body_bytes, whether the client         *)
(* declared the length, understated it or left it out.                        *)
BodyStaysWithinLimit == \A c \in HttpConns : hconn[c].seen <= MaxBodyBytes

(* Once shutdown is requested serve returns, even if a handler or a client    *)
(* never finishes: the grace period bounds the drain.                         *)
ShutdownCompletes == phase = "drain" ~> phase = "stopped"

(* What serve promises whatever connections, requests and shutdown do: permits *)
(* are held by live futures only, no task survives the return, a clean end has *)
(* answered every request, and no handler reads beyond the body limit.         *)
ServerIsAccountable ==
  /\ HttpTypeOK
  /\ PermitsAreAccountedFor
  /\ StoppedHasNoTask
  /\ CleanEndAnswersAll
  /\ BodyStaysWithinLimit
=============================================================================
