------------------------------- MODULE OpenAi -------------------------------
(* The OpenAI provider: its event stream, its batch files, and its bounded  *)
(* HTTP exchanges.                                                          *)
EXTENDS Naturals, Sequences, FiniteSets
LOCAL INSTANCE SequencesExt
LOCAL INSTANCE TLC

-----------------------------------------------------------------------------
(* A streamed Responses API answer (rustee-ai-openai provider/responses.rs   *)
(* stream, response/sse.rs): the body arrives in chunks cut anywhere, frames *)
(* are taken out of the buffer as they become complete, and each carries one *)
(* event.  A byte is "r", "n", or the symbol of a whole data line's content: *)
(* what the framing looks at is the line ends alone.                         *)

CONSTANTS
  Bodies,           \* bodies the server may send: sequences of bytes
  MaxSseEventBytes  \* max_sse_event_bytes

VARIABLES
  body,             \* the body being received
  received,         \* how many of its bytes have arrived
  buffer,           \* SseFrameBuffer: the bytes not yet taken
  yielded,          \* the events the stream has yielded
  streamEnd         \* "open", "ok" or the error that ended the stream

sseVars == <<body, received, buffer, yielded, streamEnd>>

LineEnd == {"r", "n"}
Events == {"delta", "tool", "completed"}

(* Where the line break at position i ends, given the bytes there are.       *)
BreakWidth(bytes, i) ==
  IF bytes[i] = "r" /\ i < Len(bytes) /\ bytes[i + 1] = "n" THEN 2 ELSE 1

(* A line starts where a line break has ended: the line starts reached by    *)
(* reading on from the first byte.                                           *)
NextLine(bytes, start) ==
  LET breaks == {i \in start..Len(bytes) : bytes[i] \in LineEnd}
  IN IF breaks = {} THEN 0
     ELSE LET i == CHOOSE b \in breaks : \A c \in breaks : b <= c IN i + BreakWidth(bytes, i)

(* sse_frame_end: the number of bytes up to the first empty line, or 0.      *)
FrameEnd(bytes) ==
  LET endFrom[start \in 1..(Len(bytes) + 1)] ==
        IF start > Len(bytes) \/ NextLine(bytes, start) = 0 THEN 0
        ELSE IF bytes[start] \in LineEnd THEN NextLine(bytes, start) - 1
        ELSE endFrom[NextLine(bytes, start)]
  IN endFrom[1]

(* sse_payload: the data lines of a frame; none is an error, and several are *)
(* joined to a text that is no event.                                        *)
Payload(frame) ==
  LET data == SelectSeq(frame, LAMBDA b : b \notin LineEnd)
  IN CASE Len(data) = 0 -> "malformed"
       [] Len(data) = 1 -> data[1]
       [] Len(data) > 1 -> "malformed"

(* [DONE] taken for the end of a whole answer.                               *)
TakeEventOrDone(payload, events) ==
  CASE payload \in {"delta", "tool"} -> [events |-> Append(events, payload), end |-> "open"]
    [] payload = "completed" -> [events |-> Append(events, payload), end |-> "ok"]
    [] payload = "unknown" -> [events |-> events, end |-> "open"]
    [] payload = "[DONE]" -> [events |-> events, end |-> "ok"]
    [] payload \in {"failed", "malformed"} -> [events |-> events, end |-> "malformed"]

(* decode_stream_event and the loop's reaction: an unknown event is skipped, *)
(* an error event or a malformed one ends the stream, and so do [DONE] and   *)
(* the completed event.                                                      *)
TakeEvent(payload, events) ==
  CASE payload \in {"delta", "tool"} -> [events |-> Append(events, payload), end |-> "open"]
    [] payload = "completed" -> [events |-> Append(events, payload), end |-> "ok"]
    [] payload = "unknown" -> [events |-> events, end |-> "open"]
    [] payload = "[DONE]" -> [events |-> events, end |-> "terminated"]
    [] payload \in {"failed", "malformed"} -> [events |-> events, end |-> "malformed"]

(* The frames of a buffer, taken one after the other until none is complete  *)
(* or the stream has ended.                                                  *)
DrainOf(bytes, events) ==
  LET take(s) ==
        LET n == FrameEnd(s.rest)
            t == TakeEvent(Payload(SubSeq(s.rest, 1, n)), s.events)
        IN IF s.end # "open" \/ n = 0 THEN s
           ELSE [rest |-> SubSeq(s.rest, n + 1, Len(s.rest)), events |-> t.events, end |-> t.end]
      taken[k \in 0..Len(bytes)] ==
        IF k = 0 THEN [rest |-> bytes, events |-> events, end |-> "open"] ELSE take(taken[k - 1])
  IN taken[Len(bytes)]

(* A chunk arrives: it is refused when it does not fit into what the limit   *)
(* leaves, else all complete frames are taken.                               *)
ReceiveChunk(k) ==
  /\ streamEnd = "open"
  /\ k \in 1..(Len(body) - received)
  /\ received' = received + k
  /\ IF k > MaxSseEventBytes - Len(buffer)
     THEN streamEnd' = "too_large" /\ UNCHANGED <<buffer, yielded>>
     ELSE LET d == DrainOf(buffer \o SubSeq(body, received + 1, received + k), yielded)
          IN buffer' = d.rest /\ yielded' = d.events /\ streamEnd' = d.end
  /\ UNCHANGED body

(* The connection breaks, or the body is over without a completed event.     *)
BodyBreaks ==
  /\ streamEnd = "open" /\ received < Len(body)
  /\ streamEnd' = "transport"
  /\ UNCHANGED <<body, received, buffer, yielded>>

BodyEnds ==
  /\ streamEnd = "open" /\ received = Len(body)
  /\ streamEnd' = "terminated"
  /\ UNCHANGED <<body, received, buffer, yielded>>

SseInit ==
  /\ body \in Bodies
  /\ received = 0
  /\ buffer = <<>>
  /\ yielded = <<>>
  /\ streamEnd = "open"

SseNext ==
  \/ \E k \in 1..Len(body) : ReceiveChunk(k)
  \/ BodyBreaks \/ BodyEnds

-----------------------------------------------------------------------------
SseTypeOK ==
  /\ received \in 0..Len(body) /\ Len(buffer) <= received
  /\ yielded \in Seq(Events)
  /\ streamEnd \in {"open", "ok", "malformed", "too_large", "transport", "terminated"}

(* The events of the body when it arrives in one piece.                      *)
WholeEvents == DrainOf(body, <<>>)

(* However the body is cut, the stream yields events of the body, in their   *)
(* order, each once (SseFrameBuffer, take_frame).                            *)
YieldedIsPrefix == yielded # <<>> => IsPrefix(yielded, WholeEvents.events)

(* The stream ends without an error exactly when it has yielded a completed  *)
(* event, as its last one: a truncated answer is never taken for a whole one *)
(* (stream, StreamTerminated).                                               *)
EndsOkIffCompleted ==
  /\ streamEnd = "ok" <=> \E i \in DOMAIN yielded : yielded[i] = "completed"
  /\ \A i \in DOMAIN yielded : yielded[i] = "completed" => i = Len(yielded)

-----------------------------------------------------------------------------
(* Batch files of the OpenAI provider (rustee-ai-openai batch/): rows are    *)
(* pushed into a bounded JSONL file, and the rows of an output file are read *)
(* back one by one; an embeddings body is put in the order of its indexes.   *)

CONSTANTS
  CustomId,
  Endpoint,         \* OpenAiBatchEndpoint
  RowBytes,         \* lengths of a serialized row, without its line feed
  MaxFileBytes,     \* OPENAI_BATCH_FILE_MAX_BYTES
  MaxRequests,      \* OPENAI_BATCH_MAX_REQUESTS, and the limit of rows read
  MaxPushes,        \* bound on the pushes
  OutputFiles,      \* sequences of lines [json, id, response, error]
  EmbeddingBodies,  \* sequences of items [index, value], and how many are expected
  ExpectedEmbeddings

VARIABLES
  builder,          \* OpenAiBatchJsonlBuilder: the rows pushed and the bytes of the file
  pushes,           \* ghost: the rows that push has accepted
  reader,           \* OpenAiBatchOutputRows and what it has yielded
  vectors           \* the last decode_embeddings

batchVars == <<builder, pushes, reader, vectors>>

NewBuilder(endpoint) ==
  [endpoint |-> endpoint, ids |-> {}, jsonl |-> <<>>, rows |-> 0, built |-> FALSE, calls |-> 0]
FileBytes(jsonl) ==
  LET upTo[j \in 0..Len(jsonl)] == IF j = 0 THEN 0 ELSE upTo[j - 1] + jsonl[j].bytes
  IN upTo[Len(jsonl)]

(* append_jsonl_row: the row and its line feed, or nothing.  The writer      *)
(* refuses what does not fit, and a row that leaves no room for the line     *)
(* feed is taken out again.                                                  *)
AppendRow(jsonl, row) ==
  IF row.bytes >= MaxFileBytes - FileBytes(jsonl)
  THEN [fits |-> FALSE, jsonl |-> jsonl]
  ELSE [fits |-> TRUE, jsonl |-> Append(jsonl, [id |-> row.id, bytes |-> row.bytes + 1])]

(* push: another endpoint, too many rows and a known identifier are refused, *)
(* then a row that does not fit.                                             *)
Push(row) ==
  /\ ~builder.built /\ builder.calls < MaxPushes
  /\ LET refused == \/ row.endpoint # builder.endpoint
                    \/ builder.rows >= MaxRequests
                    \/ row.id \in builder.ids
         written == AppendRow(builder.jsonl, row)
     IN IF refused
        THEN builder' = [builder EXCEPT !.calls = @ + 1] /\ UNCHANGED pushes
        ELSE IF ~written.fits
        THEN builder' = [builder EXCEPT !.jsonl = written.jsonl, !.calls = @ + 1] /\ UNCHANGED pushes
        ELSE /\ builder' = [builder EXCEPT !.jsonl = written.jsonl, !.ids = @ \cup {row.id},
                                           !.rows = @ + 1, !.calls = @ + 1]
             /\ pushes' = Append(pushes, row)
  /\ UNCHANGED <<reader, vectors>>

(* build: an empty builder is refused.                                       *)
Build ==
  /\ ~builder.built /\ builder.rows > 0
  /\ builder' = [builder EXCEPT !.built = TRUE]
  /\ UNCHANGED <<pushes, reader, vectors>>

-----------------------------------------------------------------------------
NewReader(lines) == [lines |-> lines, offset |-> 0, failed |-> FALSE, yields |-> <<>>]

(* decode_batch_output_row: a correlation identifier, and either a response  *)
(* with a status, a request identifier and an object, or an error with a     *)
(* code, but not both.                                                       *)
DecodeRow(line) ==
  CASE ~line.json \/ line.id = "invalid" -> "bad"
    [] line.json /\ line.id # "invalid" /\ line.response = "whole" /\ line.error = "none" -> "row"
    [] line.json /\ line.id # "invalid" /\ line.response = "none" /\ line.error = "code" -> "error"
    [] OTHER -> "bad"

(* OpenAiBatchOutputRows::next: one line; a row beyond the limit, an empty   *)
(* line and one that does not decode are errors after which nothing follows. *)
NextRow ==
  /\ ~reader.failed /\ reader.offset < Len(reader.lines)
  /\ LET line == DecodeRow(reader.lines[reader.offset + 1])
         error == CASE reader.offset + 1 > MaxRequests -> "too_many"
                    [] reader.offset + 1 <= MaxRequests /\ line = "bad" -> "malformed"
                    [] OTHER -> "none"
     IN reader' = [reader EXCEPT !.offset = @ + 1, !.failed = error # "none",
                     !.yields = Append(@, IF error = "none" THEN line ELSE error)]
  /\ UNCHANGED <<builder, pushes, vectors>>

-----------------------------------------------------------------------------

(* decode_embeddings: as many items as inputs, each with an index of its own *)
(* below their number, and a value that is an embedding.                     *)
DecodeEmbeddings(items, n) ==
  IF /\ Len(items) = n
     /\ \A j \in 1..n : items[j].index < n /\ items[j].value # "invalid"
     /\ \A j, k \in 1..n : items[j].index = items[k].index => j = k
  THEN [ok |-> TRUE,
        vectors |-> [i \in 1..n |-> (CHOOSE it \in {items[j] : j \in 1..n} : it.index = i - 1).value]]
  ELSE [ok |-> FALSE]

Embed(items) ==
  /\ vectors.items = <<>>
  /\ vectors' = [items |-> items, result |-> DecodeEmbeddings(items, ExpectedEmbeddings)]
  /\ UNCHANGED <<builder, pushes, reader>>

Rows == [id : CustomId, endpoint : Endpoint, bytes : RowBytes]

BatchInit ==
  /\ builder \in {NewBuilder(e) : e \in Endpoint}
  /\ pushes = <<>>
  /\ reader = NewReader(<<>>)
  /\ vectors = [items |-> <<>>, result |-> [ok |-> FALSE]]

(* The three uses do not touch each other: a behaviour is one of them.       *)
BatchNext ==
  \/ reader.lines = <<>> /\ vectors.items = <<>> /\ ((\E row \in Rows : Push(row)) \/ Build)
  \/ /\ builder.calls = 0 /\ reader.lines = <<>> /\ vectors.items = <<>>
     /\ \E lines \in OutputFiles : reader' = NewReader(lines)
     /\ UNCHANGED <<builder, pushes, vectors>>
  \/ NextRow
  \/ builder.calls = 0 /\ reader.lines = <<>> /\ \E items \in EmbeddingBodies : Embed(items)

-----------------------------------------------------------------------------
BatchTypeOK ==
  /\ builder.rows \in 0..MaxRequests
  /\ reader.offset \in 0..Len(reader.lines)
  /\ vectors.items \in EmbeddingBodies \cup {<<>>}

(* The file is exactly the accepted rows, whole and in order, each under an  *)
(* identifier of its own, within both limits: a refused push leaves nothing  *)
(* behind (push, append_jsonl_row).                                          *)
FileIsTheRows ==
  /\ Len(builder.jsonl) = Len(pushes)
  /\ \A j \in DOMAIN pushes : /\ builder.jsonl[j].id = pushes[j].id
                              /\ builder.jsonl[j].bytes = pushes[j].bytes + 1
  /\ \A j, k \in DOMAIN pushes : pushes[j].id = pushes[k].id => j = k
  /\ FileBytes(builder.jsonl) <= MaxFileBytes /\ Len(pushes) <= MaxRequests

(* The rows yielded are the lines of the file up to the first error, which   *)
(* is yielded once and last, each with the one outcome its line holds; no    *)
(* line is skipped (OpenAiBatchOutputRows).                                  *)
RowsUpToTheError ==
  LET y == reader.yields
  IN /\ \A j \in DOMAIN y : y[j] \in {"malformed", "too_many"} => j = Len(y)
     /\ \A j \in DOMAIN y : y[j] \in {"row", "error"} => j <= MaxRequests /\ y[j] = DecodeRow(reader.lines[j])

(* The vector of input i is the one the provider numbers i, however the      *)
(* provider orders its items, and there is one for each (decode_embeddings). *)
VectorsAreNumbered ==
  vectors.result.ok =>
    \A j \in DOMAIN vectors.items :
      /\ vectors.items[j].index + 1 \in DOMAIN vectors.result.vectors
      /\ vectors.result.vectors[vectors.items[j].index + 1] = vectors.items[j].value

-----------------------------------------------------------------------------
(* One HTTP exchange of the OpenAI provider (rustee-ai-openai): complete,    *)
(* stream, embed, and the calls on batches and batch files, against a        *)
(* service that may perform a request whose answer is lost.                  *)

CONSTANTS
  Caller,
  Ids,               \* the numbers the service gives to files and batches
  RequestBytes,      \* lengths of an encoded request or of a file
  MaxRequestBytes, MaxBatchFileBytes, MaxResponseBytes, MaxDownloadBytes,
  ServiceAnswer             \* what the service may send: [status, type, length, chunks, body]

VARIABLES
  remote,            \* the service: [files, batches, issued]
  exchange           \* Caller -> the call in progress, or its result

exchangeVars == <<remote, exchange>>

(* The steps of each operation, in the order of its function: "check" is     *)
(* what is tested before a request is built, "encode" its bounded encoding.  *)
Answered == <<"status", "json", "body", "decode">>
CompletePlan == <<"encode", "send">> \o Answered
StreamPlan == <<"encode", "send", "status", "event_stream">>
EmbedPlan == <<"check", "encode", "send">> \o Answered
UploadBatchInput == <<"check", "send">> \o Answered
DownloadBatchFile == <<"check", "send", "status", "body">>
DeleteBatchFile == <<"check", "send">> \o Answered
SubmitBatch == <<"encode", "send">> \o Answered
RetrieveBatch == <<"check", "send">> \o Answered
CancelBatch == <<"check", "send">> \o Answered
PlanOf ==
  [complete |-> CompletePlan, stream |-> StreamPlan, embed |-> EmbedPlan,
   upload |-> UploadBatchInput, download |-> DownloadBatchFile, delete |-> DeleteBatchFile,
   submit |-> SubmitBatch, retrieve |-> RetrieveBatch, cancel |-> CancelBatch]
Operation == DOMAIN PlanOf
(* These name a file or a batch the service has issued; 0 is an identifier   *)
(* that valid_provider_path_identifier refuses.                              *)
NamesTarget == {"download", "delete", "submit", "retrieve", "cancel"}

Idle == [step |-> "idle"]
Begin(c, op, bytes, target) ==
  /\ exchange[c].step = "idle"
  /\ exchange' = [exchange EXCEPT ![c] =
       [step |-> PlanOf[op][1], at |-> 1, op |-> op, bytes |-> bytes, target |-> target, got |-> 0]]
  /\ UNCHANGED remote

(* The call ends, Ok with what it names.                                     *)
Fails(c, error) == exchange' = [exchange EXCEPT ![c] = [step |-> "failed"]]
Succeeds(c, call) ==
  exchange' = [exchange EXCEPT ![c] = [step |-> "ok", op |-> call.op, target |-> call.target, got |-> call.got]]
Goes(c, call) ==
  LET plan == PlanOf[call.op]
  IN IF call.at = Len(plan) THEN Succeeds(c, call)
     ELSE exchange' = [exchange EXCEPT ![c] = [call EXCEPT !.at = @ + 1, !.step = plan[call.at + 1]]]

(* The tests before a request: a path identifier, the size of an upload, an  *)
(* embedding batch of no input or above its own limit.                       *)
CheckInput(c) ==
  /\ exchange[c].step = "check"
  /\ LET call == exchange[c]
         error == CASE call.op = "upload" /\ call.bytes > MaxBatchFileBytes -> "batch_file_too_large"
                    [] call.op = "embed" /\ call.bytes = 0 -> "empty_embedding_batch"
                    [] call.op \in NamesTarget /\ call.target = 0 -> "malformed"
                    [] OTHER -> "none"
     IN IF error = "none" THEN Goes(c, call) ELSE Fails(c, error)
  /\ UNCHANGED remote

(* encode_json_request: above the limit is refused.                          *)
Encode(c) ==
  /\ exchange[c].step = "encode"
  /\ IF exchange[c].bytes > MaxRequestBytes THEN Fails(c, "request_too_large") ELSE Goes(c, exchange[c])
  /\ UNCHANGED remote

(* What the service does with a request it receives.                         *)
Performed(call) ==
  LET unused == Ids \ remote.issued
      next == CHOOSE i \in unused : \A j \in unused : i <= j
  IN CASE call.op = "upload" /\ unused # {} -> [remote EXCEPT !.files = @ \cup {next}, !.issued = @ \cup {next}]
       [] call.op = "submit" /\ unused # {} /\ call.target \in remote.files ->
            [remote EXCEPT !.batches = @ \cup {next}, !.issued = @ \cup {next}]
       [] call.op = "delete" -> [remote EXCEPT !.files = @ \ {call.target}]
       [] OTHER -> remote
Created(call) == Performed(call).issued \ remote.issued

(* send: the service performs the request and answers, or fails it, or the   *)
(* answer is lost with the request performed or not (Transport, a timeout).  *)
Send(c) ==
  /\ exchange[c].step = "send"
  /\ LET call == exchange[c]
         gone == call.op \in {"download", "submit"} /\ call.target \notin remote.files
         full == call.op \in {"upload", "submit"} /\ Created(call) = {}
     IN \/ remote' \in {remote, Performed(call)} /\ Fails(c, "transport")
        \/ /\ (gone \/ full)
           /\ Fails(c, "http_status") /\ UNCHANGED remote
        \/ /\ ~gone /\ ~full
           /\ \E answer \in ServiceAnswer :
             /\ remote' = IF call.op = "delete" /\ answer.body = "other" THEN remote ELSE Performed(call)
             /\ Goes(c, [call EXCEPT !.got = IF Created(call) = {} THEN call.target
                                          ELSE CHOOSE i \in Created(call) : TRUE]
                     @@ [answer |-> answer, read |-> 0])

(* Status, then content type: application/json once, or text/event-stream.   *)
ReadStatus(c) ==
  /\ exchange[c].step = "status"
  /\ IF exchange[c].answer.status = "success" THEN Goes(c, exchange[c]) ELSE Fails(c, "http_status")
  /\ UNCHANGED remote
ReadContentType(c) ==
  /\ exchange[c].step \in {"json", "event_stream"}
  /\ IF exchange[c].answer.type = exchange[c].step THEN Goes(c, exchange[c])
     ELSE Fails(c, "unexpected_content_type")
  /\ UNCHANGED remote

Limit(op) == IF op = "download" THEN MaxDownloadBytes ELSE MaxResponseBytes
TooLarge(op) == IF op = "download" THEN "batch_file_too_large" ELSE "response_too_large"

(* collect_response_body and read_bounded_batch_file: a declared length      *)
(* above the limit is refused at once, then every chunk that would pass it;  *)
(* the connection may break at any chunk.                                    *)
Collect(c) ==
  /\ exchange[c].step = "body"
  /\ LET call == exchange[c]
         chunks == call.answer.chunks
     IN \/ /\ call.answer.length > Limit(call.op)
           /\ Fails(c, TooLarge(call.op))
        \/ /\ call.answer.length <= Limit(call.op)
           /\ \/ chunks = <<>> /\ Goes(c, call)
              \/ /\ chunks # <<>>
                 /\ \/ Fails(c, "transport")
                    \/ IF Head(chunks) > Limit(call.op) - call.read THEN Fails(c, TooLarge(call.op))
                       ELSE exchange' = [exchange EXCEPT ![c].answer.chunks = Tail(@),
                                                         ![c].read = @ + Head(chunks)]
  /\ UNCHANGED remote

(* The decoder of the operation; a deletion must say that the file asked for *)
(* is deleted ("other": it names another, or says deleted is false).         *)
Decode(c) ==
  /\ exchange[c].step = "decode"
  /\ LET call == exchange[c]
     IN IF \/ call.answer.body = "garbled"
           \/ call.op = "delete" /\ call.answer.body = "other"
        THEN Fails(c, "malformed") ELSE Goes(c, call)
  /\ UNCHANGED remote

(* A dropped future abandons the call wherever it stands.                    *)
Forget(c) ==
  /\ exchange[c].step \notin {"idle", "failed", "ok"}
  /\ Fails(c, "dropped")
  /\ UNCHANGED remote

ExchangeInit ==
  /\ remote = [files |-> {}, batches |-> {}, issued |-> {}]
  /\ exchange = [c \in Caller |-> Idle]
ExchangeNext ==
  \E c \in Caller :
    \/ \E op \in Operation \ NamesTarget, n \in RequestBytes : Begin(c, op, n, 0)
    \/ \E op \in NamesTarget, i \in remote.issued \cup {0} : Begin(c, op, 1, i)
    \/ CheckInput(c) \/ Encode(c) \/ Send(c) \/ ReadStatus(c)
    \/ ReadContentType(c) \/ Collect(c) \/ Decode(c) \/ Forget(c)

-----------------------------------------------------------------------------
ExchangeTypeOK ==
  /\ remote.files \cup remote.batches \subseteq remote.issued /\ remote.issued \subseteq Ids
  /\ \A c \in Caller : exchange[c].step \in {"idle", "failed"} \/ exchange[c].op \in Operation

(* No request above its limit reaches the service, and no more of an answer  *)
(* than its limit is held, whatever length it declares.                      *)
ExchangeIsBounded ==
  \A c \in Caller : LET call == exchange[c] IN
    /\ (call.step \in {"status", "json", "event_stream", "body", "decode"}
          /\ call.op \in {"complete", "stream", "embed"}) => call.bytes <= MaxRequestBytes
    /\ (call.step \in {"body", "decode"}) => call.read <= Limit(call.op)

(* Ok of an upload or a submission names what the service created for this   *)
(* call and no other caller holds; Ok of a deletion is for a file that is    *)
(* gone, though another caller may have deleted it first.                    *)
OkIsOwn ==
  \A c \in Caller : exchange[c].step = "ok" =>
    /\ exchange[c].op = "submit" => exchange[c].got \in remote.batches
    /\ exchange[c].op = "delete" => exchange[c].target \notin remote.files
    /\ exchange[c].op \in {"upload", "submit"} => \A d \in Caller \ {c} :
         (exchange[d].step = "ok" /\ exchange[d].op = exchange[c].op) => exchange[d].got # exchange[c].got

(* However the network cuts and orders what the provider sends, a stream yields *)
(* each event once and ends well only when completed, a batch file is its rows, *)
(* vectors are those of their inputs, and an exchange stays within its limits  *)
(* and is answered for itself.                                                 *)
ProviderAnswersAreWhole ==
  /\ SseTypeOK
  /\ BatchTypeOK
  /\ ExchangeTypeOK
  /\ YieldedIsPrefix
  /\ EndsOkIffCompleted
  /\ FileIsTheRows
  /\ RowsUpToTheError
  /\ VectorsAreNumbered
  /\ ExchangeIsBounded
  /\ OkIsOwn
=============================================================================
