----------------------------- MODULE McpClient -----------------------------
(* The MCP client: a child process over stdio, HTTP sessions, resumable event *)
(* streams, and paged listings.                                             *)
EXTENDS Naturals, Sequences, FiniteSets
LOCAL INSTANCE SequencesExt

-----------------------------------------------------------------------------
(* The MCP client over a child process (rustee-ai-mcp, stdio.rs and           *)
(* stdio/connection.rs).  Every method of the client is a sequence of await   *)
(* points; a caller may be dropped at any of them, which releases the locks   *)
(* it holds and kills a child it still owns (kill_on_drop), but leaves the    *)
(* installed connection, with whatever it was doing, behind.                  *)

CONSTANTS StdioCallers,      \* tasks that use one client
          StdioOps,          \* the methods a task may call
          OpsPerCaller,      \* bound: methods one task calls
          MaxChildren,       \* bound: children ever spawned
          MaxListPages,      \* McpStdioConfig::max_list_pages
          MaxInterleaved,    \* McpStdioConfig::max_interleaved_messages
          RestartAttempts,   \* automatic_restart.max_attempts, 0 when not configured
          NotesPerChild      \* bound: notifications one child sends

VARIABLES initHolder,    \* who holds StdioState::initialize
          connHolder,    \* who holds the mutex of StdioState::connection
          installed,     \* the child of the installed connection, 0 for None
          nextRequestId, \* StdioState::next_request_id
          kids,          \* every child process: its state and its two pipes
          task           \* every task: the method it is in and where

stdioVars == <<initHolder, connHolder, installed, nextRequestId, kids, task>>

Free == "free"
Children == 1..MaxChildren
Unborn == [state |-> "unborn", in |-> {}, out |-> <<>>, torn |-> FALSE, notes |-> 0]
Garbage == [kind |-> "garbage"]

\* The errors after which the pipe can no longer be trusted (should_discard_connection).
ShouldDiscardConnection(err) ==
    err \in {"Transport", "ResponseTooLarge", "StdioMessageLimit", "StdioTerminated",
             "StdioTimeout", "MalformedResponse"}

StdioInit ==
    /\ initHolder = Free /\ connHolder = Free /\ installed = 0 /\ nextRequestId = 0
    /\ kids = [k \in Children |-> Unborn]
    /\ task = [c \in StdioCallers |-> [ops |-> 0, own |-> TRUE, pc |-> "idle"]]

TaskAt(c, pc) == task[c].pc = pc
Goto(c, pc) == [task EXCEPT ![c].pc = pc]
EndsWith(c, result, own) == [ops |-> task[c].ops, own |-> result = "ok" => own, pc |-> "idle"]
Kill(ks, k) == IF k = 0 THEN ks ELSE [ks EXCEPT ![k] = [Unborn EXCEPT !.state = "gone"]]
ReleaseInit(c) == IF initHolder = c THEN Free ELSE initHolder
ReleaseConn(c) == IF connHolder = c THEN Free ELSE connHolder

----------------------------------------------------------------------------
(* Calling a method *)

Call(c) ==
    /\ TaskAt(c, "idle") /\ task[c].ops < OpsPerCaller
    /\ \E op \in StdioOps :
          task' = [task EXCEPT ![c] =
                     [ops |-> @.ops + 1, own |-> TRUE, sent |-> 0, op |-> op, kid |-> 0,
                      id |-> 0, read |-> 0, pages |-> 0, err |-> "none", attempt |-> 0,
                      pc |-> IF op \in {"initialize", "restart", "close"} THEN "lock" ELSE "connect"]]
    /\ UNCHANGED <<initHolder, connHolder, installed, nextRequestId, kids>>

LockInitialize(c) ==
    /\ TaskAt(c, "lock") /\ initHolder = Free
    /\ initHolder' = c
    /\ task' = Goto(c, "check")
    /\ UNCHANGED <<connHolder, installed, nextRequestId, kids>>

\* The method is over: its locks are released and a child it still owns is dropped, so killed.
Return(c, result, own) ==
    /\ task' = [task EXCEPT ![c] = EndsWith(c, result, own)]
    /\ initHolder' = ReleaseInit(c)
    /\ connHolder' = ReleaseConn(c)

\* initialize: an installed connection is kept.
Initialize(c) ==
    /\ TaskAt(c, "check") /\ task[c].op = "initialize" /\ connHolder = Free
    /\ IF installed # 0 THEN Return(c, "ok", TRUE)
                        ELSE task' = Goto(c, "spawn") /\ UNCHANGED <<initHolder, connHolder>>
    /\ UNCHANGED <<installed, nextRequestId, kids>>

\* restart: the previous child is taken out and shut down before the ids restart.
Restart(c) ==
    /\ TaskAt(c, "check") /\ task[c].op = "restart" /\ connHolder = Free
    /\ installed' = 0
    /\ IF installed = 0
       THEN task' = Goto(c, "spawn") /\ nextRequestId' = 0
       ELSE task' = [Goto(c, "shutdown") EXCEPT ![c].kid = installed] /\ UNCHANGED nextRequestId
    /\ UNCHANGED <<initHolder, connHolder, kids>>

Close(c) ==
    /\ TaskAt(c, "check") /\ task[c].op = "close" /\ connHolder = Free
    /\ installed' = 0
    /\ IF installed = 0
       THEN Return(c, "ok", TRUE)
       ELSE task' = [Goto(c, "shutdown") EXCEPT ![c].kid = installed] /\ UNCHANGED <<initHolder, connHolder>>
    /\ UNCHANGED <<nextRequestId, kids>>

\* recover_after_discard: only when nobody has installed a connection meanwhile.
RecoverAfterDiscard(c) ==
    /\ TaskAt(c, "check") /\ task[c].op \in {"tool", "list"} /\ connHolder = Free
    /\ IF installed # 0
       THEN Return(c, task[c].err, TRUE) /\ UNCHANGED nextRequestId
       ELSE task' = Goto(c, "spawn") /\ nextRequestId' = 0 /\ UNCHANGED <<initHolder, connHolder>>
    /\ UNCHANGED <<installed, kids>>

\* StdioConnection::shutdown: stdin closes, the child leaves or is killed; each wait is bounded
\* and may fail.  What follows depends on the method that shuts down.
Shutdown(c) ==
    /\ TaskAt(c, "shutdown")
    /\ kids' = Kill(kids, task[c].kid)
    /\ \E ok \in BOOLEAN :
         CASE task[c].op = "close" ->
                Return(c, IF ok THEN "ok" ELSE "Transport", TRUE) /\ UNCHANGED nextRequestId
           [] task[c].op = "restart" ->
                IF ok THEN /\ task' = [Goto(c, "spawn") EXCEPT ![c].kid = 0] /\ nextRequestId' = 0
                           /\ UNCHANGED <<initHolder, connHolder>>
                      ELSE Return(c, "Transport", TRUE) /\ UNCHANGED nextRequestId
           [] task[c].op \in {"tool", "list"} /\ initHolder = c ->     \* a failed recovery attempt
                /\ IF task[c].attempt < RestartAttempts
                   THEN task' = [Goto(c, "spawn") EXCEPT ![c].kid = 0] /\ UNCHANGED <<initHolder, connHolder>>
                   ELSE Return(c, task[c].err, TRUE)
                /\ UNCHANGED nextRequestId
           [] OTHER ->                                                 \* finish_request
                /\ IF ok /\ RestartAttempts > 0
                   THEN task' = [Goto(c, "lock") EXCEPT ![c].kid = 0] /\ UNCHANGED <<initHolder, connHolder>>
                   ELSE Return(c, task[c].err, TRUE)
                /\ UNCHANGED nextRequestId
    /\ UNCHANGED installed

\* StdioConnection::spawn, which may fail; a recovery tries again while attempts are left.
Recovering(c) == task[c].op \in {"tool", "list"}
Spawn(c) ==
    /\ TaskAt(c, "spawn")
    /\ \/ \E k \in Children :
            /\ kids[k].state = "unborn" /\ \A j \in 1..(k - 1) : kids[j].state # "unborn"
            /\ kids' = [kids EXCEPT ![k].state = "running"]
            /\ task' = [Goto(c, "handshake") EXCEPT ![c].kid = k, ![c].attempt = @ + 1]
            /\ UNCHANGED <<initHolder, connHolder>>
       \/ /\ UNCHANGED kids
          /\ IF Recovering(c) /\ task[c].attempt + 1 < RestartAttempts
             THEN task' = [task EXCEPT ![c].attempt = @ + 1] /\ UNCHANGED <<initHolder, connHolder>>
             ELSE Return(c, IF Recovering(c) THEN task[c].err ELSE "StdioSpawn", TRUE)
    /\ UNCHANGED <<installed, nextRequestId>>

----------------------------------------------------------------------------
(* One JSON-RPC exchange on a connection *)

\* write_message: the whole line, after whatever a dropped writer left unfinished.
WriteMessage(k, request) ==
    IF kids[k].torn THEN [kids EXCEPT ![k].torn = FALSE, ![k].in = @ \union {Garbage}]
                    ELSE [kids EXCEPT ![k].in = @ \union {request}]

\* A request takes the next id, is written, and then waits for lines.
Request(c, k) ==
    /\ nextRequestId' = nextRequestId + 1
    /\ kids' = WriteMessage(k, [kind |-> "request", id |-> nextRequestId + 1, by |-> c])
    /\ task' = [Goto(c, "await") EXCEPT ![c].id = nextRequestId + 1, ![c].read = 0,
                                        ![c].sent = IF initHolder = c THEN @ ELSE @ + 1]

\* The exchange failed with err.  A method that owns the child drops it; a recovery shuts it
\* down and tries again; a request discards the installed connection (finish_request).
Failed(c, err) ==
    IF initHolder = c
    THEN IF Recovering(c)
         THEN task' = Goto(c, "shutdown") /\ UNCHANGED <<initHolder, connHolder, installed, kids>>
         ELSE Return(c, err, TRUE) /\ kids' = Kill(kids, task[c].kid) /\ UNCHANGED installed
    ELSE IF ShouldDiscardConnection(err)
         THEN /\ installed' = 0 /\ connHolder' = Free
              /\ task' = [Goto(c, "shutdown") EXCEPT ![c].err = err]
              /\ UNCHANGED <<initHolder, kids>>
         ELSE Return(c, err, TRUE) /\ UNCHANGED <<installed, kids>>

InitializeConnection(c) ==
    /\ TaskAt(c, "handshake")
    /\ Request(c, task[c].kid)
    /\ UNCHANGED <<initHolder, connHolder, installed>>

\* list_tools, call_tool and the context methods hold the connection for the whole method.
LockConnection(c) ==
    /\ TaskAt(c, "connect") /\ connHolder = Free
    /\ IF installed = 0
       THEN Return(c, "NotInitialized", TRUE)
       ELSE /\ connHolder' = c /\ UNCHANGED initHolder
            /\ task' = [Goto(c, "request") EXCEPT ![c].kid = installed]
    /\ UNCHANGED <<installed, nextRequestId, kids>>

\* The write of a request: it reaches a running child, or fails.
RequestOn(c) ==
    /\ TaskAt(c, "request")
    /\ \/ kids[task[c].kid].state = "running" /\ Request(c, task[c].kid)
          /\ UNCHANGED <<initHolder, connHolder, installed>>
       \/ Failed(c, "Transport") /\ nextRequestId' = nextRequestId + 1
       \/ Failed(c, "StdioRequestTooLarge") /\ nextRequestId' = nextRequestId + 1

\* Mutant of DecodeStdioMessage: the identifier of an answer is not compared.
TakeAnyAnswer(line, id) ==
    CASE line.kind = "note" -> "skip"
      [] line.kind = "garbage" -> "MalformedResponse"
      [] OTHER -> line.says

\* decode_stdio_message and decode_rpc_result: what one line means for the request id.
DecodeStdioMessage(line, id) ==
    CASE line.kind = "note" -> "skip"
      [] line.kind = "garbage" -> "MalformedResponse"
      [] line.id # id -> "MalformedResponse"
      [] OTHER -> line.says

\* A handshake that succeeded is announced and installed; a page may ask for another page.
Succeeded(c, line) ==
    \/ /\ initHolder = c
       /\ task' = Goto(c, "install")
       /\ UNCHANGED <<initHolder, connHolder, installed>>
    \/ /\ initHolder # c
       /\ Return(c, "ok", line.by = c) /\ UNCHANGED installed
    \/ /\ initHolder # c /\ task[c].op = "list" /\ task[c].pages + 1 < MaxListPages
       /\ task' = [Goto(c, "request") EXCEPT ![c].pages = @ + 1]
       /\ UNCHANGED <<initHolder, connHolder, installed>>

\* request_with_deadline: the next line of the child, or its end.
ReadLine(c) ==
    /\ TaskAt(c, "await")
    /\ LET k == task[c].kid IN
       IF kids[k].out # <<>>
       THEN LET line == Head(kids[k].out)
                rest == [kids EXCEPT ![k].out = Tail(@)]
                meaning == DecodeStdioMessage(line, task[c].id)
            IN CASE meaning = "skip" ->
                      IF task[c].read + 1 < MaxInterleaved
                      THEN /\ task' = [task EXCEPT ![c].read = @ + 1] /\ kids' = rest
                           /\ UNCHANGED <<initHolder, connHolder, installed>>
                      ELSE Failed(c, "StdioMessageLimit")
                 [] meaning = "result" -> Succeeded(c, line) /\ kids' = rest
                 [] OTHER -> Failed(c, meaning)
       ELSE kids[k].state = "gone" /\ Failed(c, "StdioTerminated")
    /\ UNCHANGED nextRequestId

\* The deadline of StdioConnection::request.
Timeout(c) ==
    /\ TaskAt(c, "await")
    /\ Failed(c, "StdioTimeout")
    /\ UNCHANGED nextRequestId

\* notifications/initialized is written and the connection installed, or the write fails.
Install(c) ==
    /\ TaskAt(c, "install")
    /\ \/ /\ connHolder = Free
          /\ kids' = Kill(kids, installed)
          /\ installed' = task[c].kid
          /\ Return(c, IF Recovering(c) THEN task[c].err ELSE "ok", TRUE)
       \/ Failed(c, "Transport")
    /\ UNCHANGED nextRequestId

----------------------------------------------------------------------------
(* The environment: dropped callers and the child process *)

\* A dropped writer leaves part of its line; a dropped reader may have consumed part of one.
Leftovers(c) ==
    LET k == task[c].kid IN
    CASE TaskAt(c, "request") -> {kids, [kids EXCEPT ![k].torn = TRUE]}
      [] TaskAt(c, "await") /\ kids[k].out # <<>> -> {kids, [kids EXCEPT ![k].out = <<Garbage>> \o Tail(@)]}
      [] OTHER -> {kids}
Drop(c) ==
    /\ ~TaskAt(c, "idle")
    /\ IF connHolder = c
       THEN kids' \in Leftovers(c)
       ELSE kids' = Kill(kids, task[c].kid)
    /\ Return(c, "dropped", TRUE)
    /\ UNCHANGED <<installed, nextRequestId>>

\* The child answers a request it has read, in any order; a broken line gets an answer without id.
ChildAnswers(k) ==
    /\ kids[k].state = "running"
    /\ \E request \in kids[k].in :
         /\ \E says \in {"result", "RemoteError", "MalformedResponse"} :
              kids' = [kids EXCEPT ![k].in = @ \ {request},
                                   ![k].out = Append(@, IF request = Garbage THEN Garbage
                                                ELSE [kind |-> "answer", id |-> request.id,
                                                      by |-> request.by, says |-> says])]
    /\ UNCHANGED <<initHolder, connHolder, installed, nextRequestId, task>>
Note(k) ==
    /\ kids[k].state = "running" /\ kids[k].notes < NotesPerChild /\ kids[k].out = <<>> /\ kids[k].in # {}
    /\ kids' = [kids EXCEPT ![k].notes = @ + 1, ![k].out = Append(@, [kind |-> "note"])]
    /\ UNCHANGED <<initHolder, connHolder, installed, nextRequestId, task>>
Exit(k) ==
    /\ kids[k].state = "running"
    /\ kids' = [kids EXCEPT ![k].state = "gone", ![k].in = {}]
    /\ UNCHANGED <<initHolder, connHolder, installed, nextRequestId, task>>

StdioNext ==
    \/ \E c \in StdioCallers :
         \/ Call(c) \/ LockInitialize(c) \/ Initialize(c) \/ Restart(c) \/ Close(c)
         \/ RecoverAfterDiscard(c) \/ Shutdown(c) \/ Spawn(c) \/ InitializeConnection(c)
         \/ LockConnection(c) \/ RequestOn(c) \/ ReadLine(c) \/ Timeout(c) \/ Install(c) \/ Drop(c)
    \/ \E k \in Children : ChildAnswers(k) \/ Note(k) \/ Exit(k)
StdioSpec == StdioInit /\ [][StdioNext]_stdioVars

----------------------------------------------------------------------------
(* Properties *)

StdioTypeOK ==
    /\ {initHolder, connHolder} \subseteq StdioCallers \union {Free}
    /\ installed \in 0..MaxChildren /\ nextRequestId \in Nat
    /\ \A k \in Children : kids[k].state \in {"unborn", "running", "gone"}
    /\ connHolder # Free => task[connHolder].pc \in {"request", "await"}
    /\ initHolder # Free => task[initHolder].pc \in {"check", "spawn", "handshake", "await", "install", "shutdown"}

(* A result a method returns was sent by the child for that very method: the late answer to a *)
(* request whose caller was dropped, or half of it, is never taken for the answer to the next *)
(* one, although ids restart with every child (decode_rpc_result's id check together with the *)
(* two places that reset next_request_id).                                                    *)
AnswerIsOwn == \A c \in StdioCallers : task[c].own

(* A tool call is written to a child at most once, whatever was discarded, restarted and      *)
(* recovered meanwhile ("never replays the failed request or tool call").                     *)
ToolCallIsSentOnce ==
    \A c \in StdioCallers : ~TaskAt(c, "idle") /\ task[c].op = "tool" => task[c].sent <= 1

(* A working connection is given up only by whoever takes it out of its slot: no              *)
(* initialization or recovery overwrites a connection installed meanwhile by another task.    *)
InstalledIsNotReplaced == [][installed # 0 => installed' \in {0, installed}]_stdioVars

-----------------------------------------------------------------------------
(* The session of an MCP client over HTTP (rustee-ai-mcp, client.rs and       *)
(* http_transport.rs).  Tasks share one client: a request works on a copy of  *)
(* the session it found when it started, so its 404 may arrive after another  *)
(* task has closed, cleared or re-established the session.  Request ids are   *)
(* left out: HTTP pairs every reply with its own request.                     *)

CONSTANTS HttpTasks,         \* tasks that use one client
          HttpOps,           \* the methods a task may call
          OpsPerTask,        \* bound: methods one task calls
          MaxSessions,       \* bound: sessions the endpoint ever creates
          RecoveryAttempts   \* automatic_session_recovery.max_attempts, 0 when not configured

VARIABLES hHolder,    \* who holds McpClientState::initialize
          session,    \* McpClientState::session: the number of the session, NoSession for None
          endpoint,   \* the remote side: sessions created, alive, without id, announced
          hTask       \* every task: the method it is in and where

sessionVars == <<hHolder, session, endpoint, hTask>>
NoSession == 0
Nobody == "nobody"
Resting == [ops |-> 0, pc |-> "idle"]

SessionsInit ==
    /\ hHolder = Nobody /\ session = NoSession
    /\ endpoint = [made |-> 0, alive |-> {}, stateless |-> {}, announced |-> {}, early |-> FALSE]
    /\ hTask = [t \in HttpTasks |-> Resting]

In(t, pc) == hTask[t].pc = pc
Moves(t, pc) == hTask' = [hTask EXCEPT ![t].pc = pc]
Unlock(t) == hHolder' = IF hHolder = t THEN Nobody ELSE hHolder
Finishes(t) == hTask' = [hTask EXCEPT ![t] = [ops |-> @.ops, pc |-> "idle"]] /\ Unlock(t)
HasId(s) == s # NoSession /\ s \notin endpoint.stateless

----------------------------------------------------------------------------
Begins(t) ==
    /\ In(t, "idle") /\ hTask[t].ops < OpsPerTask
    /\ \E op \in HttpOps :
         hTask' = [hTask EXCEPT ![t] = [ops |-> @.ops + 1, op |-> op, mine |-> NoSession, tries |-> 0,
                                        pc |-> IF op = "initialize" THEN "lock" ELSE "session"]]
    /\ UNCHANGED <<hHolder, session, endpoint>>

\* initialize and recover_expired_session take the same lock.
TakesInitializeLock(t) ==
    /\ In(t, "lock") /\ hHolder = Nobody
    /\ hHolder' = t
    /\ Moves(t, IF hTask[t].op = "initialize" THEN "unlocked" ELSE "recover")
    /\ UNCHANGED <<session, endpoint>>

\* The reply to the first POST names the session; a session record is complete only once
\* notifications/initialized was accepted.
InitializeUnlocked(t) ==
    /\ In(t, "unlocked")
    /\ IF session # NoSession THEN Finishes(t) /\ UNCHANGED endpoint
       ELSE /\ \/ /\ endpoint.made < MaxSessions
                  /\ \E withId \in BOOLEAN : LET s == endpoint.made + 1 IN
                       /\ endpoint' = [endpoint EXCEPT !.made = s, !.alive = @ \union {s},
                                         !.stateless = IF withId THEN @ ELSE @ \union {s}]
                       /\ \/ hTask' = [hTask EXCEPT ![t].mine = s, ![t].pc = "announce"]
                          \/ Moves(t, "failed")          \* the reply is lost or does not validate
               \/ Moves(t, "failed") /\ UNCHANGED endpoint
            /\ UNCHANGED hHolder
    /\ UNCHANGED session

Announce(t) ==
    /\ In(t, "announce")
    /\ LET s == hTask[t].mine IN
       \/ /\ s \in endpoint.alive
          /\ endpoint' = [endpoint EXCEPT !.announced = @ \union {s}]
          /\ \/ session' = s /\ Finishes(t)
             \/ UNCHANGED <<session, hHolder>> /\ Moves(t, "failed")
       \/ UNCHANGED <<session, hHolder, endpoint>> /\ Moves(t, "failed")

\* A failed initialization is the method's error; a recovery waits and tries again.
InitializationFailed(t) ==
    /\ In(t, "failed")
    /\ IF hTask[t].op # "initialize" /\ hTask[t].tries + 1 < RecoveryAttempts
       THEN hTask' = [hTask EXCEPT ![t].tries = @ + 1, ![t].pc = "unlocked"] /\ UNCHANGED hHolder
       ELSE Finishes(t)
    /\ UNCHANGED <<session, endpoint>>

\* Every other method starts from a copy of the session.
CopySession(t) ==
    /\ In(t, "session")
    /\ IF session = NoSession THEN Finishes(t)
       ELSE /\ hTask' = [hTask EXCEPT ![t].mine = session,
                                      ![t].pc = IF hTask[t].op = "close" THEN "delete" ELSE "post"]
            /\ UNCHANGED hHolder
    /\ UNCHANGED <<session, endpoint>>

\* Sessions are compared by id, version and capabilities: two sessions without id are equal.
ClearSessionIfCurrent(current) ==
    IF session = current \/ {session, current} \subseteq endpoint.stateless THEN NoSession ELSE session

\* request and post: a 404 for a session with an id ends the session and starts its recovery.
Post(t) ==
    /\ In(t, "post")
    /\ LET s == hTask[t].mine IN
       \/ /\ s \in endpoint.alive \/ ~HasId(s)
          /\ endpoint' = [endpoint EXCEPT !.early = @ \/ s \notin endpoint.announced]
          /\ \/ Finishes(t)
             \/ Moves(t, "resume") /\ UNCHANGED hHolder
          /\ UNCHANGED session
       \/ Finishes(t) /\ UNCHANGED <<session, endpoint>>                     \* not sent, or another status
       \/ /\ HasId(s) /\ s \notin endpoint.alive
          /\ session' = ClearSessionIfCurrent(s) /\ UNCHANGED endpoint
          /\ IF RecoveryAttempts > 0 THEN Moves(t, "lock") /\ UNCHANGED hHolder ELSE Finishes(t)

\* The reply was an event stream that broke off: get_sse continues it, with the same session.
GetSse(t) ==
    /\ In(t, "resume")
    /\ LET s == hTask[t].mine IN
       \/ Finishes(t) /\ UNCHANGED session
       \/ /\ HasId(s) /\ s \notin endpoint.alive
          /\ session' = ClearSessionIfCurrent(s)
          /\ IF RecoveryAttempts > 0 THEN Moves(t, "lock") /\ UNCHANGED hHolder ELSE Finishes(t)
    /\ UNCHANGED endpoint

\* recover_expired_session: nothing to do when another task has a session again.
RecoverExpiredSession(t) ==
    /\ In(t, "recover")
    /\ IF session # NoSession THEN Finishes(t)
       ELSE Moves(t, "unlocked") /\ UNCHANGED hHolder
    /\ UNCHANGED <<session, endpoint>>

\* close_session: DELETE, then the local session goes if it is still the one deleted.
CloseSession(t) ==
    /\ In(t, "delete")
    /\ LET s == hTask[t].mine IN
       IF ~HasId(s) THEN Moves(t, "deleted") /\ UNCHANGED endpoint
       ELSE \/ Moves(t, "deleted") /\ endpoint' = [endpoint EXCEPT !.alive = @ \ {s}]   \* success, or 404
            \/ Moves(t, "deleted") /\ s \in endpoint.alive /\ UNCHANGED endpoint        \* 405
            \/ Moves(t, "gaveUp") /\ endpoint' \in {endpoint, [endpoint EXCEPT !.alive = @ \ {s}]}
    /\ UNCHANGED <<hHolder, session>>
SessionIsDeleted(t) ==
    /\ \/ In(t, "deleted") /\ session' = ClearSessionIfCurrent(hTask[t].mine)
       \/ In(t, "gaveUp") /\ UNCHANGED session
    /\ Finishes(t)
    /\ UNCHANGED endpoint

\* A dropped task releases the lock and changes nothing else.
DropTask(t) ==
    /\ ~In(t, "idle")
    /\ Finishes(t)
    /\ UNCHANGED <<session, endpoint>>

\* The endpoint forgets a session.
Expire ==
    /\ \E s \in endpoint.alive \ endpoint.stateless : endpoint' = [endpoint EXCEPT !.alive = @ \ {s}]
    /\ UNCHANGED <<hHolder, session, hTask>>

SessionsNext ==
    \/ \E t \in HttpTasks :
         \/ Begins(t) \/ TakesInitializeLock(t) \/ InitializeUnlocked(t) \/ Announce(t)
         \/ InitializationFailed(t) \/ CopySession(t) \/ Post(t) \/ GetSse(t)
         \/ RecoverExpiredSession(t) \/ CloseSession(t) \/ SessionIsDeleted(t) \/ DropTask(t)
    \/ Expire
SessionsSpec == SessionsInit /\ [][SessionsNext]_sessionVars

----------------------------------------------------------------------------
(* Properties *)

McpSessionTypeOK ==
    /\ hHolder \in HttpTasks \union {Nobody} /\ session \in 0..MaxSessions
    /\ endpoint.alive \union endpoint.announced \subseteq 1..endpoint.made
    /\ hHolder # Nobody => hTask[hHolder].pc \in {"unlocked", "recover", "announce", "failed"}

(* The client forgets a session only when the endpoint no longer has it, or when a task that   *)
(* asked to close exactly this session is done: a late 404 or a late close of an earlier       *)
(* session never takes away the session another task established since                         *)
(* (clear_session_if_current compares before it clears; sessions without an id look alike).    *)
OnlyItsOwnSessionIsCleared ==
    [][HasId(session) /\ session' # session =>
         \/ session \notin endpoint.alive
         \/ \E t \in HttpTasks : In(t, "deleted") /\ hTask[t].mine = session]_sessionVars

(* No request reaches the endpoint in a session before notifications/initialized for that      *)
(* session was accepted, and an established session is never replaced by another one:          *)
(* initialize_unlocked publishes the session last, under one lock.                             *)
AnnouncedBeforeUse ==
    /\ ~endpoint.early
    /\ session # NoSession => session \in endpoint.announced

-----------------------------------------------------------------------------
(* Server-sent events of an MCP endpoint as the client reads them             *)
(* (rustee-ai-mcp, sse.rs and http_response.rs).  A stream delivers the       *)
(* events of a log; a connection may break off anywhere, inside an event too, *)
(* and is resumed by GET with the id of the last event seen.  "standalone" is *)
(* McpServerEventStream, read one notification at a time by a reader that may *)
(* be dropped; "response" is the body of a POST, read until the answer.       *)

CONSTANTS EventLogs,            \* the logs an endpoint may have: sequences of events
          EventLimit,           \* max_response_bytes, in events of size 1
          ResumptionAttempts    \* automatic_sse_resumption.max_attempts, 0 when not configured

\* An event: whether it has an id, its payload, and its retry field: "none", "short", or
\* "long" when it exceeds max_backoff.
\* payload: "none" (id or comment only), "note", "answer" (for this request), "wrong".

VARIABLES log,      \* the endpoint's log
          stream    \* the reader and its connection
eventVars == <<log, stream>>

EventsInit ==
    /\ log \in EventLogs
    /\ stream \in {[use |-> use, pc |-> "reading", connected |-> TRUE, at |-> 0, buffered |-> 0, total |-> 0,
                    lastId |-> 0, retry |-> "none", attempts |-> 0, got |-> <<>>, end |-> "none"] :
                   use \in {"standalone", "response"}}

Reading == stream.pc = "reading"
Stops(why) == stream' = [stream EXCEPT !.pc = "closed", !.connected = FALSE, !.buffered = 0, !.end = why]

\* A chunk: the rest of the next event or part of it.  Half an event stays in the buffer.
EventChunk ==
    /\ Reading /\ stream.connected /\ stream.buffered = 0 /\ stream.at < Len(log)
    /\ IF stream.total >= EventLimit THEN Stops("ResponseTooLarge")
       ELSE stream' = [stream EXCEPT !.total = @ + 1, !.buffered = 1]
    /\ UNCHANGED log

\* take_sse_frame and parse_sse_frame: a complete event is taken, its id and retry remembered,
\* and its payload given to the reader.
TakeFrame(e, n) ==
    [stream EXCEPT !.buffered = 0, !.at = n, !.retry = IF e.retry = "none" THEN @ ELSE e.retry, !.lastId = IF e.id THEN n ELSE @]

\* next_notification returns a notification and refuses anything else.
NextNotification ==
    /\ Reading /\ stream.use = "standalone" /\ stream.buffered = 1
    /\ LET n == stream.at + 1  e == log[n]  taken == TakeFrame(e, n) IN
       CASE e.payload = "none" -> stream' = taken
         [] e.payload = "note" -> stream' = [taken EXCEPT !.got = Append(@, n)]
         [] OTHER -> Stops("MalformedResponse")
    /\ UNCHANGED log

\* consume_sse_response skips notifications and ends with the answer to its own request.
ConsumeSseResponse ==
    /\ Reading /\ stream.use = "response" /\ stream.buffered = 1
    /\ LET n == stream.at + 1  e == log[n]  taken == TakeFrame(e, n) IN
       CASE e.payload = "none" -> stream' = taken
         [] e.payload = "note" -> stream' = [taken EXCEPT !.got = Append(@, n)]
         [] e.payload = "answer" ->
              stream' = [taken EXCEPT !.pc = "closed", !.connected = FALSE, !.got = Append(@, n), !.end = "answer"]
         [] OTHER -> Stops("MalformedResponse")
    /\ UNCHANGED log

\* The connection ends, between two events or inside one; what was buffered is given up.
Disconnect ==
    /\ Reading /\ stream.connected
    /\ stream' = [stream EXCEPT !.pc = "resuming", !.connected = FALSE, !.buffered = 0]
    /\ UNCHANGED log

\* resume_after_disconnect and the loop of sse_response: the checks before the GET.
ResumeAfterDisconnect ==
    /\ stream.pc = "resuming"
    /\ CASE ResumptionAttempts = 0 \/ stream.lastId = 0 \/ stream.attempts >= ResumptionAttempts ->
              Stops("SseStreamTerminated")
         [] stream.retry = "long" -> Stops("SseRetryLimit")
         [] OTHER -> stream' = [stream EXCEPT !.pc = "getting"]
    /\ UNCHANGED log

\* get_sse with Last-Event-ID: the endpoint continues after that event, or refuses.
GetSseFrom ==
    /\ stream.pc = "getting"
    /\ \/ stream' = [stream EXCEPT !.pc = "reading", !.connected = TRUE, !.at = stream.lastId,
                                   !.attempts = @ + 1]
       \/ \E why \in {"SessionExpired", "SseStreamTerminated", "HttpStatus", "ResponseTooLarge"} : Stops(why)
    /\ UNCHANGED log

\* The caller of next_notification is dropped.  While a resumption is under way the stream has no
\* connection, so the next call closes it.
DropReader ==
    /\ stream.use = "standalone" /\ stream.pc \in {"resuming", "getting"}
    /\ stream' = [stream EXCEPT !.pc = "reading"]
    /\ UNCHANGED log
NextCallFindsNoConnection ==
    /\ Reading /\ ~stream.connected
    /\ Stops("SseStreamTerminated")
    /\ UNCHANGED log

EventsNext ==
    \/ EventChunk \/ NextNotification \/ ConsumeSseResponse \/ Disconnect \/ ResumeAfterDisconnect
    \/ GetSseFrom \/ DropReader \/ NextCallFindsNoConnection
EventsSpec == EventsInit /\ [][EventsNext]_eventVars

----------------------------------------------------------------------------
(* Properties *)

StreamTypeOK ==
    /\ stream.pc \in {"reading", "resuming", "getting", "closed"}
    /\ stream.lastId <= stream.at /\ stream.buffered \in 0..1

Speaks(n) == log[n].payload \in {"note", "answer"}

(* However often a stream broke off and was resumed, the reader has seen every event before    *)
(* the last one it saw, in the order of the log, and no event that carries an id a second      *)
(* time: last_event_id moves with the event that is handed out.                                *)
NoGapAndNoRepeat ==
    LET seen == {stream.got[i] : i \in DOMAIN stream.got} IN
    /\ \A n \in seen : \A k \in 1..n : Speaks(k) => k \in seen
    /\ \A i, j \in DOMAIN stream.got : i < j /\ log[stream.got[i]].id => stream.got[i] < stream.got[j]

(* "The configured response-byte limit applies cumulatively across the stream and any resumed  *)
(* GET response": what all connections of one stream delivered stays within the limit, so a    *)
(* stream that is resumed for ever cannot grow for ever.                                       *)
BoundedAcrossResumptions ==
    Len(stream.got) <= EventLimit /\ stream.attempts <= ResumptionAttempts

-----------------------------------------------------------------------------
(* Paginated discovery by the MCP client (rustee-ai-mcp: list_tools,          *)
(* list_resources, list_resource_templates and list_prompts, over HTTP and    *)
(* over stdio).  The endpoint is free in what it puts on a page and in the    *)
(* cursor it hands out.                                                       *)

CONSTANTS ListingPages,      \* max_list_pages
          ToolItems,         \* max_tools
          ContextItems,      \* max_context_items
          Keys,              \* names or URIs on the pages
          Cursors            \* cursors the endpoint hands out

VARIABLE listing    \* one discovery: the method, what the client has, what the endpoint served
listingVars == listing

\* What distinguishes the eight methods: the capability they need, and the limit on the items.
ListMethod(capability, limit, over) == [capability |-> capability, limit |-> limit, over |-> over]
HttpListTools == ListMethod("none", ToolItems, "ToolDiscoveryLimit")
HttpListResources == ListMethod("resources", ContextItems, "ContextLimit")
HttpListResourceTemplates == ListMethod("resources", ContextItems, "ContextLimit")
HttpListPrompts == ListMethod("prompts", ContextItems, "ContextLimit")
StdioListTools == ListMethod("none", ToolItems, "ToolDiscoveryLimit")
StdioListResources == ListMethod("resources", ContextItems, "ContextLimit")
StdioListResourceTemplates == ListMethod("resources", ContextItems, "ContextLimit")
StdioListPrompts == ListMethod("prompts", ContextItems, "ContextLimit")
ListMethods == {HttpListTools, HttpListResources, HttpListResourceTemplates, HttpListPrompts,
            StdioListTools, StdioListResources, StdioListResourceTemplates, StdioListPrompts}

ListingInit == listing = [pc |-> "idle"]

\* The session, or the connection, decides first.
BeginListing ==
    /\ listing.pc = "idle"
    /\ \E m \in ListMethods, initialized \in BOOLEAN, capable \in SUBSET {"resources", "prompts"} :
         listing' = [pc |-> IF ~initialized \/ m.capability \notin capable \union {"none"} THEN "failed" ELSE "asking",
                     how |-> m, page |-> 0, cursor |-> "start", cursors |-> {}, items |-> <<>>, served |-> <<>>]

\* next_cursor: absent, a valid cursor, or anything else.
NextCursor(next) == IF next \in Cursors \union {"none"} THEN next ELSE "malformed"

\* The items of one page are taken one by one: each must parse, be new, and fit.
TakeItem(acc, key) ==
    CASE acc.error # "none" -> acc
      [] key = "broken" \/ \E i \in DOMAIN acc.items : acc.items[i] = key -> [acc EXCEPT !.error = "MalformedResponse"]
      [] Len(acc.items) + 1 > listing.how.limit -> [acc EXCEPT !.error = listing.how.over]
      [] OTHER -> [acc EXCEPT !.items = Append(@, key)]

\* One page: its items, and then its cursor.
Page(page, next) ==
    LET taken == FoldLeft(TakeItem, [items |-> listing.items, error |-> "none"], page)
        seen == [listing EXCEPT !.served = @ \o page, !.page = @ + 1]
    IN CASE taken.error # "none" \/ NextCursor(next) = "malformed" -> [seen EXCEPT !.pc = "failed"]
         [] next = "none" -> [seen EXCEPT !.pc = "listed", !.items = taken.items]
         [] next \in listing.cursors -> [seen EXCEPT !.pc = "failed"]
         [] OTHER -> [seen EXCEPT !.items = taken.items, !.cursor = next, !.cursors = @ \union {next}]

\* One round of the loop: the page limit, the request, its answer.
AskForPage ==
    /\ listing.pc = "asking"
    /\ \/ listing.page = ListingPages /\ listing' = [listing EXCEPT !.pc = "failed"]
       \/ listing.page < ListingPages /\ listing' = [listing EXCEPT !.pc = "failed"]    \* request error
       \/ /\ listing.page < ListingPages
          /\ \E n \in 0..2 : \E page \in [1..n -> Keys \union {"broken"}], next \in Cursors \union {"none", "invalid"} :
               listing' = Page(page, next)

ListingNext == BeginListing \/ AskForPage
ListingSpec == ListingInit /\ [][ListingNext]_listingVars

----------------------------------------------------------------------------
(* Properties *)

(* A discovery that succeeds returns exactly the items of all pages of the endpoint, in order, *)
(* each key once and within the limit: a page that repeats a key, breaks off or goes round in  *)
(* a circle fails the whole discovery and never shortens it silently.                          *)
ListedIsEverything ==
    listing.pc = "listed" =>
      /\ listing.items = listing.served
      /\ IsInjective(listing.items)
      /\ Len(listing.items) <= listing.how.limit

(* No cursor is followed twice, so an endpoint that goes round in a circle is noticed at the   *)
(* second page of the circle and not only at max_list_pages.                                   *)
CursorsAreFollowedOnce == [][listing.pc = "asking" /\ listing'.pc = "asking" =>
                               listing'.cursor \notin listing.cursors]_listingVars

(* Through timeouts, dropped callers, restarts, lost sessions and resumed      *)
(* streams, an answer goes to the request it belongs to, a tool call is sent   *)
(* once, no event is missed or repeated, a listing is everything, and no task  *)
(* takes away the connection or the session of another.                        *)
AnswersReachTheirCaller ==
  /\ [](StdioTypeOK
        /\ McpSessionTypeOK
        /\ StreamTypeOK
        /\ AnswerIsOwn
        /\ ToolCallIsSentOnce
        /\ AnnouncedBeforeUse
        /\ NoGapAndNoRepeat
        /\ BoundedAcrossResumptions
        /\ ListedIsEverything)
  /\ InstalledIsNotReplaced
  /\ OnlyItsOwnSessionIsCleared
  /\ CursorsAreFollowedOnce
=============================================================================
