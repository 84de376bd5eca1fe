------------------------------ MODULE MCAgents ------------------------------
(* The AI components and the tool protocol they use side by side: a          *)
(* behaviour runs one of them, chosen at the start, and the others rest in   *)
(* their initial state.                                                      *)
EXTENDS AiPipeline, AiRuns, OpenAi, McpClient, McpServer

CONSTANT Parts
VARIABLE part
wireVars == <<eventVars, contextVars, listingVars>>
mcpVars == <<stdioVars, sessionVars, wireVars, serverVars>>
ragVars == <<ingestionVars, retrieval>>
openAiVars == <<sseVars, batchVars, exchangeVars, evaluationVars>>
agentVars == <<pipelineVars, toolVars, cacheVars, onceVars, ragVars, trip, openAiVars>>

(* Two clients of one subject over one key, within and beyond the limit of   *)
(* tools.                                                                    *)
Requests == {[model |-> "m", chars |-> 1, tools |-> t, results |-> 0] : t \in 0..2}
Subjects == [c \in Client |-> "ann"]

(* Chunks of one document, too many or too long for one batch; lists with a  *)
(* repeated identifier, a chunk of another document, and one no batch takes. *)
Chunk(id, n) == [id |-> id, document |-> "d1", bytes |-> n]
ChunkAnswers ==
  {<<>>, <<Chunk(1, 1), Chunk(1, 1)>>, <<Chunk(1, 4)>>,
   <<Chunk(1, 1), [id |-> 2, document |-> "d2", bytes |-> 1]>>}
  \cup {[j \in 1..3 |-> Chunk(j, s[j])] : s \in [1..3 -> 1..3]}
  \cup {[j \in 1..4 |-> Chunk(j, s[j])] : s \in [1..4 -> 1..2]}
StoredChunks ==
  UNION {[1..n -> [tenant : {"t1", "t2"}, document : {"d1", "d2"}, bytes : {1, 2}]] : n \in 0..3}

(* Bodies of two or three frames under every line ending.                    *)
Endings == {<<"n", "n">>, <<"r", "r">>, <<"r", "n", "r", "n">>, <<"r", "n", "n">>}
Frames ==
  {<<data>> \o e : data \in {"delta", "completed", "unknown", "[DONE]", "failed"}, e \in Endings}
  \cup {<<"delta", "n", "delta", "n", "n">>, <<"n">>}
SseBodies ==
  {f \o g : f, g \in Frames}
  \cup {<<"delta", "r", "n", "r", "n">> \o f \o g :
          f \in {<<"delta", "n", "n">>, <<"unknown", "r", "r">>}, g \in Frames}
(* Lines of an output file: a result, an error, both, a broken result, an    *)
(* identifier that is not valid, and a line that is no JSON.                 *)
OutputLine(json, id, response, error) == [json |-> json, id |-> id, response |-> response, error |-> error]
OutputLines ==
  LET lines == {OutputLine(TRUE, "a", "whole", "none"), OutputLine(TRUE, "b", "none", "code"),
                OutputLine(TRUE, "a", "whole", "code"), OutputLine(TRUE, "a", "partial", "none"),
                OutputLine(TRUE, "invalid", "whole", "none"), OutputLine(FALSE, "a", "none", "none")}
  IN UNION {[1..n -> lines] : n \in 1..3}
EmbeddingItems == UNION {[1..n -> [index : 0..2, value : {"a", "b", "invalid"}]] : n \in 1..3}

(* Suites of one and two cases, and the ones AiEvaluationSuite refuses.      *)
Suites ==
  {[name |-> n, cases |-> c] : n \in {"s", ""}, c \in {<<>>, <<"a">>, <<"a", "b">>, <<"a", "a">>, <<"a", "">>, <<"a", "b", "c">>}}
Grades ==
  [outcome : {"passed", "failed"}, score : {0, 3, 10, 11}, label : {"exact", ""}]

HttpAnswer(status, type, length, chunks, content) ==
  [status |-> status, type |-> type, length |-> length, chunks |-> chunks, body |-> content]
HttpAnswers ==
  {HttpAnswer("failure", "json", 0, <<>>, "fits"), HttpAnswer("success", "event_stream", 0, <<1>>, "fits"),
   HttpAnswer("success", "json", 3, <<1>>, "fits"), HttpAnswer("success", "json", 0, <<1, 1>>, "fits"),
   HttpAnswer("success", "json", 0, <<2, 1>>, "fits"), HttpAnswer("success", "json", 0, <<1>>, "other"),
   HttpAnswer("success", "json", 0, <<1>>, "garbled")}

(* Events with and without an id, a retry delay, an answer or a wrong payload. *)
Event(id, payload, retry) == [id |-> id, payload |-> payload, retry |-> retry]
Logs ==
  UNION {[1..n -> {Event(TRUE, "note", "none"), Event(FALSE, "note", "none"), Event(TRUE, "none", "short"),
                   Event(FALSE, "note", "long"), Event(TRUE, "answer", "none"), Event(FALSE, "wrong", "none")}] :
         n \in 1..3}

(* Strings within and beyond each limit, blank, or with a NUL or a control character. *)
Strings == {Absent} \cup [len : 1..4, has : {"plain", "nul", "control"}] \cup {[len |-> 1, has |-> "blank"]}

(* Requests that fail one check, with ids within and beyond the bound, and   *)
(* results within and beyond the response limit.                             *)
RequestIds == {[raw |-> 1, encoded |-> 1], [raw |-> 128, encoded |-> 768], [raw |-> 129, encoded |-> 131], NoId}
OneId == {[raw |-> 1, encoded |-> 1]}
RequestsThatFail ==
  [id : OneId, method : {"tools/call", "tools/list", "resources/list"}, result : {5},
   fails : {"none", "origin", "path", "method", "media", "size", "read", "json", "rpc", "version", "params",
            "policy", "items", "provider", "permit", "context"}]
  \cup [id : RequestIds, method : {"tools/call", "resources/list"}, result : {5, 400, 600}, fails : {"none", "params"}]
  \cup [id : OneId, fails : {"none", "version", "params"}, result : {5},
        method : {"initialize", "resources/templates/list", "resources/read", "prompts/list", "prompts/get", "unknown"}]

McpInit ==
  /\ EventsInit /\ (part # "events" => log = <<Event(TRUE, "note", "none")>> /\ stream.use = "response")
  /\ StdioInit /\ SessionsInit /\ ContextInit /\ McpServerInit /\ ListingInit

McpNext ==
  \/ part = "stdio" /\ StdioNext /\ UNCHANGED <<sessionVars, wireVars, serverVars>>
  \/ part = "sessions" /\ SessionsNext /\ UNCHANGED <<stdioVars, wireVars, serverVars>>
  \/ part = "events" /\ EventsNext /\ UNCHANGED <<stdioVars, sessionVars, contextVars, listingVars, serverVars>>
  \/ part = "context" /\ ContextNext /\ UNCHANGED <<stdioVars, sessionVars, eventVars, listingVars, serverVars>>
  \/ part = "listing" /\ ListingNext /\ UNCHANGED <<stdioVars, sessionVars, eventVars, contextVars, serverVars>>
  \/ part = "server" /\ McpServerNext /\ UNCHANGED <<stdioVars, sessionVars, wireVars>>

(* A part that is not run rests in one initial state.                        *)
Init ==
  /\ part \in Parts
  /\ CacheInit /\ (part # "cache" => cacheBackend = "memory" /\ failClosed)
  /\ OnceInit /\ (part # "once" => flavor = CHOOSE f \in Flavors : TRUE)
  /\ SseInit /\ (part # "sse" => body = <<"n", "n">>)
  /\ BatchInit /\ (part # "batch" => builder.endpoint = "responses")
  /\ PipelineInit /\ ToolInit /\ IngestionInit /\ RetrievalInit /\ TextInit /\ ExchangeInit /\ EvaluationInit
  /\ McpInit

AiNext ==
  \/ /\ part = "pipeline" /\ PipelineNext
     /\ UNCHANGED <<toolVars, cacheVars, onceVars, ragVars, trip, openAiVars>>
  \/ /\ part = "tools" /\ ToolNext
     /\ UNCHANGED <<pipelineVars, cacheVars, onceVars, ragVars, trip, openAiVars>>
  \/ /\ part = "cache" /\ CacheNext
     /\ UNCHANGED <<pipelineVars, toolVars, onceVars, ragVars, trip, openAiVars>>
  \/ /\ part = "once" /\ OnceNext
     /\ UNCHANGED <<pipelineVars, toolVars, cacheVars, ragVars, trip, openAiVars>>
  \/ /\ part = "ingestion" /\ IngestionNext
     /\ UNCHANGED <<pipelineVars, toolVars, cacheVars, onceVars, retrieval, trip, openAiVars>>
  \/ /\ part = "retrieval" /\ RetrievalNext
     /\ UNCHANGED <<pipelineVars, toolVars, cacheVars, onceVars, ingestionVars, trip, openAiVars>>
  \/ /\ part = "text" /\ TextNext
     /\ UNCHANGED <<pipelineVars, toolVars, cacheVars, onceVars, ragVars, openAiVars>>
  \/ /\ part = "sse" /\ SseNext
     /\ UNCHANGED <<pipelineVars, toolVars, cacheVars, onceVars, ragVars, trip, batchVars, exchangeVars, evaluationVars>>
  \/ /\ part = "batch" /\ BatchNext
     /\ UNCHANGED <<pipelineVars, toolVars, cacheVars, onceVars, ragVars, trip, sseVars, exchangeVars, evaluationVars>>
  \/ /\ part = "exchange" /\ ExchangeNext
     /\ UNCHANGED <<pipelineVars, toolVars, cacheVars, onceVars, ragVars, trip, sseVars, batchVars, evaluationVars>>
  \/ /\ part = "evaluation" /\ EvaluationNext
     /\ UNCHANGED <<pipelineVars, toolVars, cacheVars, onceVars, ragVars, trip, sseVars, batchVars, exchangeVars>>

Next ==
  /\ \/ AiNext /\ UNCHANGED mcpVars
     \/ McpNext /\ UNCHANGED agentVars
  /\ UNCHANGED part

Spec == Init /\ [][Next]_<<part, agentVars, mcpVars>>

=============================================================================
