----------------------------- MODULE McpServer -----------------------------
(* The MCP server: admission of requests and concurrent tool calls, and the *)
(* resources and prompts it sends and the client reads.                     *)
EXTENDS Naturals, FiniteSets, Sequences
LOCAL INSTANCE SequencesExt
LOCAL INSTANCE FiniteSetsExt

-----------------------------------------------------------------------------
(* The MCP server service (rustee-mcp, server.rs, server/context.rs, rpc/*.rs *)
(* and server_config.rs).  A request passes a fixed sequence of checks before *)
(* anything of the application is asked; a tool call then runs concurrently   *)
(* with other requests under a call id of its own.  A request is described by *)
(* the first check it would fail, its method and its id.                      *)

CONSTANTS McpRequests,     \* the requests that may arrive: [id, method, fails, result]
          McpConnections,  \* concurrent requests to one server
          ResponseBytes,   \* McpServerConfig::max_response_bytes
          Resources, Prompts   \* what the context provider is capable of

VARIABLES served,       \* per connection: the request, where it is, what was asked of the application
          nextCallId    \* McpServer::next_call_id
serverVars == <<served, nextCallId>>

MaxProtocolErrorResponseBytes == 512
MaxRequestIdBytes == 128
ErrorEnvelope == 103      \* the error object around an id, for the longest message of the server
ResultEnvelope == 33      \* the result object around an id
NullId == [raw |-> 0, encoded |-> 4]
NoId == [raw |-> 0, encoded |-> 0]

McpServerInit == served = [c \in McpConnections |-> [pc |-> "idle"]] /\ nextCallId = 0

----------------------------------------------------------------------------
(* Responses *)

\* fixed_json_response and rpc_error_response: an error has a bound of its own.
RpcError(id) ==
    IF id.encoded + ErrorEnvelope <= MaxProtocolErrorResponseBytes
    THEN [status |-> 200, body |-> "error", id |-> id]
    ELSE [status |-> 500, body |-> "empty", id |-> NoId]
ResponseLimitError == RpcError(NullId)
RpcResult(id, bytes) ==
    IF id.encoded + ResultEnvelope + bytes <= ResponseBytes
    THEN [status |-> 200, body |-> "result", id |-> id]
    ELSE ResponseLimitError
ToolFailure(id) == RpcResult(id, 75)
\* tool_success: the content is rendered once as text and once as structured content.
ToolSuccess(id, bytes) == IF bytes > ResponseBytes THEN ResponseLimitError ELSE RpcResult(id, 2 * bytes + 60)
Http(status) == [status |-> status, body |-> "http", id |-> NoId]

----------------------------------------------------------------------------
(* Admission *)

\* RpcRequest::parse admits a string or number id of at most MAX_REQUEST_ID_BYTES.
ParsesAsRpc(r) == r.fails # "rpc" /\ r.id.raw <= MaxRequestIdBytes
IsNotification(r) == r.id = NoId

\* handle up to the dispatch: the response that ends the request, or "dispatch".
Handle(r) ==
    CASE r.fails = "origin" -> Http(403)
      [] r.fails = "path" -> Http(404)
      [] r.fails = "method" -> Http(405)
      [] r.fails = "media" -> Http(415)
      [] r.fails = "size" -> Http(413)
      [] r.fails = "read" -> Http(400)
      [] r.fails = "json" \/ ~ParsesAsRpc(r) -> RpcError(NullId)
      [] IsNotification(r) -> Http(202)                              \* handle_notification
      [] r.method # "initialize" /\ r.fails = "version" -> RpcError(r.id)
      [] OTHER -> [status |-> 0]
Dispatched(r) == Handle(r).status = 0

----------------------------------------------------------------------------
(* Methods: the response and what was asked of the application on the way *)
Outcome(response, asked) == [response |-> response, asked |-> asked]

InitializeMethod(r) == Outcome(IF r.fails = "params" THEN RpcError(r.id) ELSE RpcResult(r.id, r.result), {})

ListTools(r) ==
    CASE r.fails = "params" -> Outcome(RpcError(r.id), {})
      [] r.fails \in {"policy", "items"} -> Outcome(RpcError(r.id), {"policy"})
      [] OTHER -> Outcome(RpcResult(r.id, r.result), {"policy"})

\* A list, a read or a get of the context: capability, parameters, provider, its result, budget.
ContextMethod(r, capable) ==
    CASE ~capable \/ r.fails = "params" -> Outcome(RpcError(r.id), {})
      [] r.fails \in {"provider", "items"} -> Outcome(RpcError(r.id), {"provider"})
      [] r.result > ResponseBytes -> Outcome(ResponseLimitError, {"provider"})
      [] OTHER -> Outcome(RpcResult(r.id, r.result), {"provider"})
ListResources(r) == ContextMethod(r, Resources)
ListResourceTemplates(r) == ContextMethod(r, Resources)
ReadResourceMethod(r) == ContextMethod(r, Resources)
ListPrompts(r) == ContextMethod(r, Prompts)
GetPrompt(r) == ContextMethod(r, Prompts)

MethodAnswer(r) ==
    CASE r.method = "initialize" -> InitializeMethod(r)
      [] r.method = "tools/list" -> ListTools(r)
      [] r.method = "resources/list" -> ListResources(r)
      [] r.method = "resources/templates/list" -> ListResourceTemplates(r)
      [] r.method = "resources/read" -> ReadResourceMethod(r)
      [] r.method = "prompts/list" -> ListPrompts(r)
      [] r.method = "prompts/get" -> GetPrompt(r)
      [] OTHER -> Outcome(RpcError(r.id), {})                        \* method not found

----------------------------------------------------------------------------
(* The service *)
Reply(c, r, response, asked) ==
    served' = [served EXCEPT ![c] = [pc |-> "replied", request |-> r, response |-> response, asked |-> asked]]

Arrive(c) ==
    /\ served[c].pc = "idle"
    /\ \E r \in McpRequests : served' = [served EXCEPT ![c] = [pc |-> "body", request |-> r]]
    /\ UNCHANGED nextCallId

\* Everything after the body was read runs without an await, up to the tool's execution.
Dispatch(c) ==
    /\ served[c].pc = "body"
    /\ LET r == served[c].request IN
       /\ ~Dispatched(r) \/ r.method # "tools/call"
       /\ IF Dispatched(r) THEN Reply(c, r, MethodAnswer(r).response, MethodAnswer(r).asked)
                           ELSE Reply(c, r, Handle(r), {})
    /\ UNCHANGED nextCallId

\* prepare_tool_call: the call id is drawn before the access policy is asked.
PrepareToolCall(c) ==
    /\ served[c].pc = "body"
    /\ LET r == served[c].request IN
       /\ Dispatched(r) /\ r.method = "tools/call"
       /\ IF r.fails = "params" THEN Reply(c, r, RpcError(r.id), {}) /\ UNCHANGED nextCallId
          ELSE /\ nextCallId' = nextCallId + 1
               /\ IF r.fails \in {"policy", "permit", "context"} THEN Reply(c, r, ToolFailure(r.id), {"policy"})
                  ELSE served' = [served EXCEPT ![c] = [pc |-> "executing", request |-> r, call |-> nextCallId']]

\* execute_tool: the registry runs the handler; only then is the size of its result known.
ExecuteTool(c) ==
    /\ served[c].pc = "executing"
    /\ LET r == served[c].request IN
       \/ Reply(c, r, ToolSuccess(r.id, r.result), {"policy", "handler"})
       \/ Reply(c, r, ToolFailure(r.id), {"policy", "handler"})
    /\ UNCHANGED nextCallId

McpServerNext == \E c \in McpConnections : Arrive(c) \/ Dispatch(c) \/ PrepareToolCall(c) \/ ExecuteTool(c)
McpServerSpec == McpServerInit /\ [][McpServerNext]_serverVars

----------------------------------------------------------------------------
(* Properties *)

ServerTypeOK ==
    /\ nextCallId \in 0..Cardinality(McpConnections)
    /\ \A c \in McpConnections : served[c].pc \in {"idle", "body", "executing", "replied"}

Replied(c) == served[c].pc = "replied"

(* Nothing of the application is asked for a request that fails an admission check: no policy, *)
(* provider or handler runs for a wrong origin, path, method, media type, size, envelope or    *)
(* protocol version, and no handler without its policy's consent (the order of McpServer::     *)
(* handle and prepare_tool_call).                                                              *)
NothingIsAskedBeforeAdmission ==
    \A c \in McpConnections : Replied(c) /\ served[c].asked # {} =>
       LET r == served[c].request IN
       /\ r.fails \notin {"origin", "path", "method", "media", "size", "read", "json", "rpc", "params"}
       /\ r.method # "initialize" => r.fails # "version"
       /\ "handler" \in served[c].asked => r.fails \notin {"policy", "permit", "context"}

(* Two tool calls that run at the same time have different call ids, so their audit records    *)
(* are never taken for one another's (next_call_id.fetch_add).                                 *)
RunningCallsAreDistinct ==
    \A c, d \in McpConnections :
       c # d /\ served[c].pc = "executing" /\ served[d].pc = "executing" => served[c].call # served[d].call

-----------------------------------------------------------------------------
(* Resources and prompts on both sides of the MCP wire: what the server's     *)
(* value constructors admit and its wire budget lets through (rustee-mcp,     *)
(* context.rs and context/*.rs, server/context.rs), and what the client's     *)
(* parsers accept (rustee-ai-mcp, context.rs and context/*.rs, the read and   *)
(* get methods).  A string is its length and what it contains; a length of 0  *)
(* in an optional field means the field is absent.                            *)

CONSTANTS NameBytes, UriBytes, MetadataBytes, MimeBytes,   \* the fixed limits of both crates
          ServerBytes, ServerItems,                        \* max_response_bytes, max_context_items of the server
          ClientBytes, ClientItems,                        \* max_context_bytes, max_context_items of the client
          ContextStrings,                                  \* the strings a field is drawn from
          ContentSizes, MaxParts                           \* bounds: content lengths, contents per answer

VARIABLE contextExchange    \* the last exchange: what the provider returned and what both sides made of it
contextVars == contextExchange

Absent == [len |-> 0, has |-> "plain"]
Refuse(why) == [ok |-> FALSE, why |-> why]
Accept(value) == [ok |-> TRUE, value |-> value]

----------------------------------------------------------------------------
(* Validators.  "nul" is a NUL, which is a control character too. *)
IsValidContextName(s) == s.len > 0 /\ s.has # "blank" /\ s.len <= NameBytes /\ s.has \notin {"nul", "control"}
IsValidResourceUri(s) == s.len > 0 /\ s.len <= UriBytes /\ s.has \notin {"nul", "control"}
ValidMetadata(s) == s.len <= MetadataBytes /\ s.has # "nul"
ValidMimeType(s) == s.len > 0 /\ s.len <= MimeBytes /\ s.has = "plain"
OptionalMime(s) == s = Absent \/ ValidMimeType(s)

(* The client's versions of the same checks. *)
ClientName(s) == s.len > 0 /\ s.has # "blank" /\ s.len <= NameBytes /\ s.has \notin {"nul", "control"}
ParseUri(s) == s.len <= UriBytes /\ s.has # "nul" /\ s.len > 0
ValidUriTemplate(s) == s.len > 0 /\ s.len <= UriBytes /\ s.has \notin {"nul", "control"}
OptionalMetadata(s) == s.len <= MetadataBytes /\ s.has # "nul"
OptionalMimeType(s) == s = Absent \/ (s.len > 0 /\ s.len <= MimeBytes /\ s.has = "plain")

----------------------------------------------------------------------------
(* Server values: what their constructors admit, and what each reserves on the wire. *)
Base64(n) == ((n + 2) \div 3) * 4
Data(c) == IF c.kind = "text" THEN c.bytes ELSE Base64(c.bytes)

NewResource(r) == IsValidContextName(r.name) /\ ValidMetadata(r.title) /\ OptionalMime(r.mime)
ResourceWire(r) == r.uri.len + r.name.len + r.title.len + r.mime.len
NewTemplate(r) == IsValidResourceUri(r.uri) /\ NewResource(r)
TemplateWire(r) == r.uri.len + r.name.len + r.title.len + r.mime.len
NewPrompt(r) == IsValidContextName(r.name) /\ ValidMetadata(r.title) /\ IsValidContextName(r.uri)
PromptWire(r) == r.name.len + r.title.len + r.uri.len       \* uri stands for the one argument's name
ContentsWire(c) == c.uri + Data(c)
PromptContentWire(c) ==
    CASE c.kind = "text" -> c.bytes
      [] c.kind = "blob" -> Data(c)          \* image and audio
      [] c.kind = "link" -> c.uri            \* a resource link
      [] OTHER -> ContentsWire(c)            \* an embedded resource

\* ContextWireBudget: every reservation is subtracted from what is left, and none may fail.
WithinBudget(costs, limit) ==
    LET left[i \in 0..Len(costs)] ==
          IF i = 0 THEN [ok |-> TRUE, n |-> limit]
          ELSE LET before == left[i - 1] IN
               IF before.ok /\ costs[i] <= before.n THEN [ok |-> TRUE, n |-> before.n - costs[i]]
                                                   ELSE [ok |-> FALSE, n |-> 0]
    IN left[Len(costs)].ok

----------------------------------------------------------------------------
(* The server's answers to resources/list and its siblings, resources/read and prompts/get *)
ServerList(kind, items) ==
    LET wire(r) == CASE kind = "resource" -> ResourceWire(r) [] kind = "template" -> TemplateWire(r)
                     [] OTHER -> PromptWire(r)
        key(r) == IF kind = "resource" THEN r.uri ELSE r.name
    IN CASE Len(items) > ServerItems \/ \E i, j \in DOMAIN items : i # j /\ key(items[i]) = key(items[j]) ->
              Refuse("invalid context provider result")
         [] ~WithinBudget([i \in DOMAIN items |-> wire(items[i])], ServerBytes) -> Refuse("limit")
         [] OTHER -> Accept(items)
ServerReadResource(uri, contents) ==
    CASE contents = <<>> \/ Len(contents) > ServerItems \/ \E i \in DOMAIN contents : contents[i].uri # uri ->
           Refuse("invalid context provider result")
      [] ~WithinBudget([i \in DOMAIN contents |-> ContentsWire(contents[i])], ServerBytes) -> Refuse("limit")
      [] OTHER -> Accept(contents)
ServerGetPrompt(messages) ==
    CASE Len(messages) > ServerItems -> Refuse("invalid context provider result")
      [] ~WithinBudget([i \in DOMAIN messages |-> PromptContentWire(messages[i])], ServerBytes) -> Refuse("limit")
      [] OTHER -> Accept(messages)

----------------------------------------------------------------------------
(* The client's parsers *)
ParseResource(r) == ParseUri(r.uri) /\ ClientName(r.name) /\ OptionalMetadata(r.title) /\ OptionalMimeType(r.mime)
ParseResourceTemplate(r) ==
    ValidUriTemplate(r.uri) /\ ClientName(r.name) /\ OptionalMetadata(r.title) /\ OptionalMimeType(r.mime)
ParsePrompt(r) == ClientName(r.uri) /\ ClientName(r.name) /\ OptionalMetadata(r.title)
ClientList(kind, items) ==
    CASE \E i \in DOMAIN items : ~(CASE kind = "resource" -> ParseResource(items[i])
                                     [] kind = "template" -> ParseResourceTemplate(items[i])
                                     [] OTHER -> ParsePrompt(items[i])) -> Refuse("MalformedResponse")
      [] Len(items) > ClientItems -> Refuse("ContextLimit")
      [] OTHER -> Accept(items)

\* decode_binary: bounded before decoding by the encoded length, and after it by the data.
DecodeBinary(encoded, bytes, limit) == encoded <= ((limit + 2) \div 3) * 4 /\ bytes <= limit
ParseResourceContents(c, limit) ==
    IF c.kind = "text" THEN c.bytes <= limit ELSE DecodeBinary(Base64(c.bytes), c.bytes, limit)
ParsePromptContent(c, limit) ==
    CASE c.kind = "text" -> c.bytes <= limit
      [] c.kind = "link" -> TRUE
      [] OTHER -> ParseResourceContents(c, limit)


\* The loops of read_resource and parse_prompt_result: each part may use what the ones before
\* it left (a link counts for nothing).
Uses(c) == IF c.kind = "link" THEN 0 ELSE c.bytes
ParseAll(parts, inPrompt) ==
    LET parse(c, limit) == IF inPrompt THEN ParsePromptContent(c, limit) ELSE ParseResourceContents(c, limit)
        total[i \in 0..Len(parts)] == IF i = 0 THEN 0 ELSE total[i - 1] + Uses(parts[i])
        left(i) == IF total[i - 1] >= ClientBytes THEN 0 ELSE ClientBytes - total[i - 1]
    IN \A i \in DOMAIN parts : parse(parts[i], left(i)) /\ total[i] <= ClientBytes
ReadResource(uri, contents) ==
    CASE contents = <<>> \/ Len(contents) > ClientItems -> Refuse("MalformedResponse")
      [] \E i \in DOMAIN contents : contents[i].uri # uri -> Refuse("MalformedResponse")
      [] ~ParseAll(contents, FALSE) -> Refuse("ContextLimit")
      [] OTHER -> Accept(contents)
ParsePromptResult(messages) ==
    CASE Len(messages) > ClientItems -> Refuse("MalformedResponse")
      [] ~ParseAll(messages, TRUE) -> Refuse("ContextLimit")
      [] OTHER -> Accept(messages)

----------------------------------------------------------------------------
Items == [uri : ContextStrings, name : ContextStrings, title : ContextStrings, mime : ContextStrings]
PartsOf(kinds) == [kind : kinds, bytes : ContentSizes, uri : 1..2]
ContextInit == contextExchange = [op |-> "none"]

\* One list request.  The provider can only return values its constructors admitted.
ListExchange ==
    \E kind \in {"resource", "template", "prompt"}, r \in Items :
      /\ CASE kind = "resource" -> NewResource(r) /\ r.uri.has = "plain" /\ r.uri.len > 0
           [] kind = "template" -> NewTemplate(r)
           [] OTHER -> NewPrompt(r) /\ r.mime = Absent
      /\ LET sent == ServerList(kind, <<r>>) IN
         contextExchange' = [op |-> kind, item |-> r, sent |-> sent,
                      got |-> IF sent.ok THEN ClientList(kind, sent.value) ELSE sent]

\* One read or get.
ReadExchange ==
    \E n \in 0..MaxParts : \E contents \in [1..n -> PartsOf({"text", "blob"})] :
      LET sent == ServerReadResource(1, contents) IN
      contextExchange' = [op |-> "read", parts |-> contents, sent |-> sent,
                   got |-> IF sent.ok THEN ReadResource(1, sent.value) ELSE sent]
PromptExchange ==
    \E n \in 0..MaxParts : \E messages \in [1..n -> {p \in PartsOf({"text", "blob", "link"}) : p.uri = 1}] :
      LET sent == ServerGetPrompt(messages) IN
      contextExchange' = [op |-> "get", parts |-> messages, sent |-> sent,
                   got |-> IF sent.ok THEN ParsePromptResult(sent.value) ELSE sent]
ContextNext == contextExchange.op = "none" /\ (ListExchange \/ ReadExchange \/ PromptExchange)
ContextSpec == ContextInit /\ [][ContextNext]_contextVars

----------------------------------------------------------------------------
(* Properties *)

Total(parts) == FoldSeq(LAMBDA p, n : n + (IF p.kind = "link" THEN 0 ELSE p.bytes), 0, parts)

(* What this server sends, this client reads: every resource, template or prompt the server's  *)
(* constructors admit and its answer carries parses on the other side, and contents or         *)
(* messages whose decoded size is within the client's limits arrive unchanged.  (A resource    *)
(* URI is the exception: the server has no limit on the one it is given.)                      *)
WhatIsSentIsRead ==
    /\ contextExchange.op \in {"resource", "template", "prompt"} /\ contextExchange.sent.ok =>
         contextExchange.got.ok \/ (contextExchange.op = "resource" /\ contextExchange.item.uri.len > UriBytes)
    /\ contextExchange.op \in {"read", "get"} /\ contextExchange.sent.ok
         /\ Len(contextExchange.parts) <= ClientItems /\ Total(contextExchange.parts) <= ClientBytes =>
         contextExchange.got = Accept(contextExchange.parts)

(* The client never holds more decoded content than max_context_bytes, however the bytes are   *)
(* spread over parts and whatever their base64 padding: the limit is checked against what is   *)
(* left for each part and again against the sum.                                               *)
DecodedWithinLimit ==
    contextExchange.op \in {"read", "get"} /\ contextExchange.got.ok => Total(contextExchange.parts) <= ClientBytes

=============================================================================
