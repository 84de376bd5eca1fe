-------------------------- MODULE ResponseContent --------------------------
(* What a response carries: the negotiation of an encoding, response        *)
(* compression, and static files with their ranges and validators.          *)
EXTENDS Integers, Sequences, FiniteSets
LOCAL INSTANCE FiniteSetsExt
LOCAL INSTANCE SequencesExt

-----------------------------------------------------------------------------
(* Reading an Accept-Encoding header.  The compression middleware             *)
(* (rustee-middleware/src/compression/negotiation.rs) and the static file     *)
(* service (rustee-static/src/encoding.rs) each have their own copy of it.    *)
(* The header is the sequence of its list members [token, q].                 *)

Codings == {"br", "gzip"}
NoQuality == [whole |-> -1, fraction |-> <<>>]  \* no q parameter

(* parse_quality: whole and fraction digits of a q-value, in thousandths; -1  *)
(* where the code returns None.                                               *)
ParseQuality(q) ==
  LET frac == q.fraction
      zeros == \A i \in DOMAIN frac : frac[i] = 0
      padded == [i \in 1..3 |-> IF i <= Len(frac) THEN frac[i] ELSE 0]
  IN  CASE q.whole = 1 /\ zeros /\ Len(frac) <= 3 -> 1000
        [] q.whole = 0 /\ Len(frac) <= 3 -> padded[1] * 100 + padded[2] * 10 + padded[3]
        [] OTHER -> -1

(* The quality of one list member: 1 without a q parameter, 0 if malformed.   *)
ItemQuality(item) ==
  IF item.q = NoQuality THEN 1000
  ELSE IF ParseQuality(item.q) = -1 THEN 0 ELSE ParseQuality(item.q)

(* quality_for: an explicit member outweighs "*", the largest of several      *)
(* counts, and 0 stands for None.                                             *)
QualityFor(accept, coding) ==
  LET of(token) == {ItemQuality(accept[i]) : i \in {i \in DOMAIN accept : accept[i].token = token}}
  IN  IF of(coding) # {} THEN Max(of(coding))
      ELSE IF of("*") # {} THEN Max(of("*")) ELSE 0

-----------------------------------------------------------------------------
(* The compression middleware of rustee-middleware (src/compression.rs and    *)
(* src/compression/): which coding a request accepts, which responses may be  *)
(* transformed, and the body that is compressed frame by frame.               *)

CONSTANTS AcceptItems,   \* list members of Accept-Encoding: [token, q]
          MaxAccept,     \* bound: members in one request
          InnerHeaders,  \* headers of the responses of the wrapped service
          InnerFrames    \* frame sequences of their bodies

VARIABLES codec,     \* the layer, the request and the inner response
          answer,    \* the response headers, or [done |-> FALSE] before the call returns
          pulled,    \* frames read from the inner body
          trailers,  \* names kept in the trailers mutex
          emitted    \* frames of the compressed body

encodingVars == <<codec, answer, pulled, trailers, emitted>>

(* select_coding: brotli on a tie; "none" when neither is acceptable.         *)
SelectCoding(layer, accept) ==
  LET q == [c \in Codings |-> IF c \in layer THEN QualityFor(accept, c) ELSE 0]
  IN  CASE q["br"] > 0 /\ q["br"] >= q["gzip"] -> "br"
        [] q["gzip"] > 0 -> "gzip"
        [] OTHER -> "none"

(* is_compressible_response.                                                  *)
IsCompressible(headers) ==
  /\ headers.hasBody /\ headers.encoding = "none" /\ ~headers.contentRange
  /\ ~headers.noTransform /\ headers.length # "zero" /\ headers.textual

AddVary(vary) == IF vary \cap {"*", "accept-encoding"} = {} THEN vary \cup {"accept-encoding"} ELSE vary

(* Compression::call, compress_response and vary_identity_response: HEAD and  *)
(* Range requests pass through; `plain` is neither.                           *)
CompressionCall(layer, request, headers) ==
  LET coding == SelectCoding(layer, request.accept) IN
  IF ~request.plain \/ ~IsCompressible(headers) THEN headers
  ELSE IF coding = "none" THEN [headers EXCEPT !.vary = AddVary(@)]
  ELSE [headers EXCEPT !.vary = AddVary(@), !.length = "none", !.encoding = coding]

Accepts == UNION {[1..n -> AcceptItems] : n \in 0..MaxAccept}

EncodingInit ==
  /\ codec \in [layer : SUBSET Codings,
                request : [plain : BOOLEAN, accept : Accepts],
                headers : InnerHeaders, frames : InnerFrames]
  /\ answer = [done |-> FALSE]
  /\ pulled = 0 /\ trailers = {} /\ emitted = <<>>

Answer ==
  /\ ~answer.done
  /\ answer' = [done |-> TRUE,
                headers |-> CompressionCall(codec.layer, codec.request, codec.headers)]
  /\ UNCHANGED <<codec, pulled, trailers, emitted>>

Transforms == answer.done /\ answer.headers.encoding # codec.headers.encoding
Ended == emitted # <<>> /\ emitted[Len(emitted)].kind \in {"error", "trailers", "end"}
Data(n) == [kind |-> "data", of |-> n]

(* Later trailer frames extend the stored ones.                               *)
ExtendTrailers(names) == trailers \cup names

(* One frame of the inner body: data through the encoder, trailers kept, an   *)
(* error passed on, which ends the reader.                                    *)
PullFrame ==
  /\ Transforms /\ ~Ended /\ pulled < Len(codec.frames)
  /\ LET frame == codec.frames[pulled + 1] IN
     /\ pulled' = pulled + 1
     /\ trailers' = IF frame.kind = "trailers" THEN ExtendTrailers(frame.names) ELSE trailers
     /\ emitted' = CASE frame.kind = "data" -> Append(emitted, Data(pulled'))
                     [] frame.kind = "error" -> Append(emitted, [kind |-> "error"])
                     [] OTHER -> emitted
  /\ UNCHANGED <<codec, answer>>

(* The inner body is over: what take_trailers returns is the last frame.      *)
TakeTrailers ==
  /\ Transforms /\ ~Ended /\ pulled = Len(codec.frames)
  /\ emitted' = Append(emitted, IF trailers = {} THEN [kind |-> "end"]
                                ELSE [kind |-> "trailers", names |-> trailers])
  /\ trailers' = {}
  /\ UNCHANGED <<codec, answer, pulled>>

EncodingNext == Answer \/ PullFrame \/ TakeTrailers
EncodingSpec == EncodingInit /\ [][EncodingNext]_encodingVars

-----------------------------------------------------------------------------
EncodingTypeOK ==
  /\ codec.layer \subseteq Codings
  /\ pulled \in 0..Len(codec.frames)
  /\ answer.done => answer.headers.encoding \in Codings \cup {"none"}

(* A cache that honours Vary never serves an encoding to a client that cannot *)
(* read it: if this response would have been encoded differently for another  *)
(* Accept-Encoding, it names the field.                                       *)
VaryCoversEncoding ==
  answer.done /\ (\E other \in Accepts :
      CompressionCall(codec.layer, [codec.request EXCEPT !.accept = other], codec.headers).encoding
        # answer.headers.encoding)
  => answer.headers.vary \cap {"*", "accept-encoding"} # {}

(* A response is encoded at most once, and only with a coding the request     *)
(* gives a positive weight; a transformed response declares no stale length.  *)
EncodedOnceAsAccepted ==
  answer.done /\ answer.headers.encoding # codec.headers.encoding =>
    /\ codec.headers.encoding = "none"
    /\ \E i \in DOMAIN codec.request.accept :
         /\ codec.request.accept[i].token \in {answer.headers.encoding, "*"}
         /\ ItemQuality(codec.request.accept[i]) > 0
    /\ answer.headers.length = "none"

(* Compression neither loses nor reorders: a body that ends well has emitted  *)
(* all data in order and then every trailer once.                             *)
NothingLostInBody ==
  Ended /\ emitted[Len(emitted)].kind # "error" =>
    LET last == emitted[Len(emitted)]
        data == {i \in DOMAIN codec.frames : codec.frames[i].kind = "data"}
        names == UNION {codec.frames[i].names :
                          i \in {i \in DOMAIN codec.frames : codec.frames[i].kind = "trailers"}}
    IN  /\ {emitted[i].of : i \in 1..Len(emitted) - 1} = data
        /\ \A i, j \in 1..Len(emitted) - 1 : i < j => emitted[i].of < emitted[j].of
        /\ IF last.kind = "trailers" THEN last.names = names ELSE names = {}

-----------------------------------------------------------------------------
(* The static file service of rustee-static: one GET or HEAD request for a    *)
(* file that may be written while it is served.  A file is its length and its *)
(* modification time in half seconds (HTTP dates have whole seconds); a byte  *)
(* is known by its position and the time of the version it belongs to.        *)

CONSTANTS DiskStates,          \* [{"plain", "br", "gzip"} -> file], Missing if absent
          FileLengths,         \* lengths that a write may leave
          MaxFileBytes,        \* StaticFiles::max_file_bytes
          StaticSettings,      \* [precompressed, threshold]; threshold 0: no streaming
          StaticRequests,      \* requests for the file
          MaxMultipartRanges,  \* MAX_MULTIPART_RANGES
          MaxRangeMembers,     \* MAX_RANGE_MEMBERS
          PartHeaderBytes,     \* length of a multipart part header
          MaxFileChanges       \* bound: writes during the request

VARIABLES disk, writes,  \* the files, and how often they were written
          static,        \* settings and request
          fileStep,      \* where serve_file awaits
          meta,          \* the representation chosen, as stat saw it
          fileReply,     \* status, Content-Length and Content-Encoding
          todo,          \* ranges still to stream
          opened,        \* the file as the open handle sees it
          sent           \* the body so far

staticVars == <<disk, writes, static, fileStep, meta, fileReply, todo, opened, sent>>

Missing == [len |-> -1, time |-> 0]
Servable(f) == f.len >= 0 /\ f.len <= MaxFileBytes
Seconds(time) == time \div 2
ByteRange(first, last) == [first |-> first, last |-> last]
RangeLen(r) == r.last - r.first + 1

StaticInit ==
  /\ disk \in DiskStates
  /\ static \in [settings : StaticSettings, request : StaticRequests]
  /\ writes = 0 /\ fileStep = "stat" /\ meta = [name |-> "none", len |-> 0, time |-> 0]
  /\ fileReply = [status |-> 0, length |-> 0, encoding |-> "none"]
  /\ todo = <<>> /\ opened = Missing /\ sent = <<>>

Finishes(status, length) ==
  /\ fileStep' = "done"
  /\ fileReply' = [status |-> status, length |-> length, encoding |-> "none"]

(* StaticFilesService::call: other methods and paths are passed on.           *)
PassedOn(r) == r.path = "outside" \/ r.method = "other"
(* relative_path: neither the mount itself nor a path that does not decode.   *)
RelativePath(r) == r.path = "file"

(* serve_file up to its metadata call: a missing or too long file is 404.     *)
StatFile ==
  /\ fileStep = "stat"
  /\ IF PassedOn(static.request)
       THEN Finishes(0, 0) /\ UNCHANGED meta
     ELSE IF ~RelativePath(static.request) \/ ~Servable(disk["plain"])
       THEN Finishes(404, 0) /\ UNCHANGED meta
     ELSE /\ meta' = [name |-> "plain", len |-> disk["plain"].len, time |-> disk["plain"].time]
          /\ fileStep' = "variant"
          /\ UNCHANGED fileReply
  /\ UNCHANGED <<disk, writes, static, todo, opened, sent>>

(* encoding_quality, the static service's copy.                               *)
EncodingQuality(accept, coding) == QualityFor(accept, coding)

(* preferred_precompressed_encodings.                                         *)
PreferredEncodings(accept) ==
  LET br == EncodingQuality(accept, "br")
      gz == EncodingQuality(accept, "gzip")
      ordered == IF br >= gz THEN <<"br", "gzip">> ELSE <<"gzip", "br">>
  IN  SelectSeq(ordered, LAMBDA c : EncodingQuality(accept, c) > 0)

(* select_precompressed_variant, skipped for a Range request.                 *)
PrecompressedVariant(r) ==
  LET found == SelectSeq(PreferredEncodings(r.accept), LAMBDA c : Servable(disk[c]))
  IN  IF static.settings.precompressed /\ r.range = <<>> /\ found # <<>> THEN found[1] ELSE "plain"

SelectVariant ==
  /\ fileStep = "variant"
  /\ LET name == PrecompressedVariant(static.request) IN
     meta' = IF name = "plain" THEN meta
             ELSE [name |-> name, len |-> disk[name].len, time |-> disk[name].time]
  /\ fileStep' = "answer"
  /\ UNCHANGED <<disk, writes, static, fileReply, todo, opened, sent>>

(* is_not_modified: If-None-Match (the ETag is length and time) decides alone *)
(* when it is there; If-Modified-Since has whole seconds.                     *)
IsNotModified(r) ==
  IF r.etag # "none" THEN r.etag = "star" \/ r.known = [len |-> meta.len, time |-> meta.time]
  ELSE r.since >= 0 /\ Seconds(meta.time) <= r.since

(* if_range_matches.                                                          *)
IfRangeMatches(r) == r.ifRange = -1 \/ Seconds(meta.time) <= r.ifRange

(* parse_range_member: the range, or "bad", or "empty" when it selects none.  *)
ParseRangeMember(spec, length) ==
  LET last == IF spec.last = -1 \/ spec.last >= length THEN length - 1 ELSE spec.last IN
  CASE spec.kind = "bad" -> [kind |-> "bad"]
    [] spec.kind = "suffix" ->
         IF spec.last = 0 \/ length = 0 THEN [kind |-> "empty"]
         ELSE [kind |-> "range", r |-> ByteRange(Max({0, length - spec.last}), length - 1)]
    [] spec.first >= length -> [kind |-> "empty"]
    [] last < spec.first -> [kind |-> "bad"]
    [] OTHER -> [kind |-> "range", r |-> ByteRange(spec.first, last)]

(* Mutant of MergeRanges: only adjacent ranges are merged.                    *)
MergeTouchingOnly(ranges) ==
  FoldLeft(LAMBDA acc, r :
             IF acc # <<>> /\ r.first = acc[Len(acc)].last + 1
             THEN [acc EXCEPT ![Len(acc)].last = r.last] ELSE Append(acc, r),
           <<>>, ranges)

(* The normalization of parse_range_set: sorted, overlapping and adjacent     *)
(* ranges merged.                                                             *)
MergeRanges(ranges) ==
  FoldLeft(LAMBDA acc, r :
             IF acc # <<>> /\ r.first <= acc[Len(acc)].last + 1
             THEN [acc EXCEPT ![Len(acc)].last = Max({@, r.last})] ELSE Append(acc, r),
           <<>>, ranges)

(* requested_range and parse_range_set: <<>> stands for the full file,        *)
(* [ok |-> FALSE] for an unsatisfiable set.  `range` is the sequence of the   *)
(* members of the one Range field; "unit" is one that is not in bytes.        *)
RequestedRange(r) ==
  LET parsed == [i \in DOMAIN r.range |-> ParseRangeMember(r.range[i], meta.len)]
      found == SelectSeq(parsed, LAMBDA p : p.kind = "range")
      before(a, b) == a.first < b.first \/ (a.first = b.first /\ a.last <= b.last)
      merged == MergeRanges(SortSeq([i \in DOMAIN found |-> found[i].r], before))
  IN  IF r.range = <<>> \/ r.range[1].kind = "unit" \/ ~IfRangeMatches(r)
        THEN [ok |-> TRUE, ranges |-> <<>>]
      ELSE IF Len(r.range) > MaxRangeMembers \/ merged = <<>> \/ Len(merged) > MaxMultipartRanges
              \/ \E i \in DOMAIN parsed : parsed[i].kind = "bad"
        THEN [ok |-> FALSE, ranges |-> <<>>]
      ELSE [ok |-> TRUE, ranges |-> merged]

(* multipart_content_length: a header and CRLF around each part, and the end. *)
MultipartContentLength(ranges) ==
  FoldLeft(LAMBDA n, r : n + PartHeaderBytes + RangeLen(r) + 2, PartHeaderBytes, ranges)

(* serve_file after the variant, without an await: 304, 416, or the headers   *)
(* of a full, partial or multipart response and the way its body is read.     *)
AnswerFile ==
  /\ fileStep = "answer"
  /\ LET r == static.request
         wanted == RequestedRange(r)
         ranges == IF wanted.ranges = <<>> THEN <<ByteRange(0, meta.len - 1)>> ELSE wanted.ranges
         multipart == Len(ranges) > 1
         length == IF multipart THEN MultipartContentLength(ranges) ELSE RangeLen(ranges[1])
         streams == multipart \/ (static.settings.threshold > 0 /\ length >= static.settings.threshold)
     IN  IF IsNotModified(r) THEN Finishes(304, 0) /\ UNCHANGED todo
         ELSE IF ~wanted.ok THEN Finishes(416, 0) /\ UNCHANGED todo
         ELSE /\ fileReply' = [status |-> IF wanted.ranges = <<>> THEN 200 ELSE 206,
                               length |-> length,
                               encoding |-> IF meta.name = "plain" THEN "none" ELSE meta.name]
              /\ fileStep' = IF r.method = "HEAD" THEN "done"
                             ELSE IF ~streams THEN "read" ELSE IF multipart THEN "part" ELSE "open"
              /\ todo' = IF r.method = "HEAD" THEN <<>> ELSE ranges
  /\ UNCHANGED <<disk, writes, static, meta, opened, sent>>

FileByte(pos, file) == [kind |-> "byte", size |-> 1, pos |-> pos, time |-> file.time]
Framing(n) == [kind |-> "framing", size |-> n, pos |-> -1, time |-> 0]
BytesAt(r) == [i \in 1..RangeLen(r) |-> FileByte(r.first + i - 1, disk[meta.name])]

(* static_file_body below the threshold: the whole file must still have the   *)
(* length announced, a range must still be there; otherwise 404.              *)
ReadFile ==
  /\ fileStep = "read"
  /\ LET file == disk[meta.name]
         r == todo[1]
         complete == IF fileReply.status = 200 THEN file.len = meta.len ELSE r.last < file.len
     IN  IF complete
           THEN sent' = BytesAt(r) /\ fileStep' = "done" /\ UNCHANGED fileReply
           ELSE Finishes(404, 0) /\ UNCHANGED sent
  /\ todo' = <<>>
  /\ UNCHANGED <<disk, writes, static, meta, opened>>

(* multipart_file_body between two parts: the next header, or the end.        *)
NextPart ==
  /\ fileStep = "part"
  /\ sent' = Append(sent, Framing(PartHeaderBytes))
  /\ fileStep' = IF todo = <<>> THEN "done" ELSE "open"
  /\ UNCHANGED <<disk, writes, static, meta, fileReply, todo, opened>>

Multipart == sent # <<>> /\ sent[1].kind = "framing"

(* File::open of streaming_file_body, where a failure is still a 404, and of  *)
(* each part, where it is an error that ends the body.                        *)
OpenFile ==
  /\ fileStep = "open"
  /\ opened' = disk[meta.name]
  /\ IF disk[meta.name].len >= 0 THEN fileStep' = "stream" /\ UNCHANGED <<fileReply, todo>>
     ELSE /\ todo' = <<>>
          /\ IF Multipart THEN fileStep' = "done" /\ UNCHANGED fileReply ELSE Finishes(404, 0)
  /\ UNCHANGED <<disk, writes, static, meta, sent>>

(* One chunk of ReaderStream over file.take(length), or its end.              *)
StreamChunk ==
  /\ fileStep = "stream"
  /\ LET r == todo[1] IN
     IF r.first <= r.last /\ r.first < opened.len
       THEN /\ sent' = Append(sent, FileByte(r.first, opened))
            /\ todo' = [todo EXCEPT ![1].first = @ + 1]
            /\ UNCHANGED fileStep
       ELSE /\ sent' = IF Multipart THEN Append(sent, Framing(2)) ELSE sent
            /\ fileStep' = IF Multipart THEN "part" ELSE "done"
            /\ todo' = Tail(todo)
  /\ UNCHANGED <<disk, writes, static, meta, fileReply, opened>>

(* Another process writes or removes a file; its time moves on.  An open      *)
(* handle sees what is written, and outlives a removal.                       *)
WriteFile(name, len) ==
  /\ fileStep # "done" /\ writes < MaxFileChanges
  /\ writes' = writes + 1
  /\ disk' = [disk EXCEPT ![name] = [len |-> len, time |-> Max({disk[n].time : n \in DOMAIN disk}) + 1]]
  /\ opened' = IF fileStep = "stream" /\ name = meta.name /\ len >= 0 THEN disk'[name] ELSE opened
  /\ UNCHANGED <<static, fileStep, meta, fileReply, todo, sent>>

StaticNext ==
  \/ StatFile \/ SelectVariant \/ AnswerFile \/ ReadFile \/ NextPart \/ OpenFile \/ StreamChunk
  \/ \E name \in DOMAIN disk, len \in FileLengths \cup {-1} : WriteFile(name, len)

StaticSpec == StaticInit /\ [][StaticNext]_staticVars

-----------------------------------------------------------------------------
StaticTypeOK ==
  /\ fileStep \in {"stat", "variant", "answer", "read", "part", "open", "stream", "done"}
  /\ fileReply.status \in {0, 200, 206, 304, 404, 416}
  /\ writes \in 0..MaxFileChanges
  /\ meta.name \in {"none"} \cup DOMAIN disk

SentBytes == SelectSeq(sent, LAMBDA b : b.kind = "byte")
SentSize == FoldLeft(LAMBDA n, b : n + b.size, 0, sent)

(* What RFC 9110 lets a member of a Range field select, position by position. *)
Selects(spec, pos, length) ==
  CASE spec.kind = "suffix" -> pos >= length - spec.last
    [] spec.kind = "bad" -> FALSE
    [] OTHER -> pos >= spec.first /\ (spec.last = -1 \/ pos <= spec.last)

(* A file that nobody writes is served exactly: a 206 carries every byte some *)
(* member of the Range field selects, once and in order, a 200 all of them,   *)
(* and the body is as long as its Content-Length says.                        *)
BodyIsWhatWasAsked ==
  fileStep = "done" /\ writes = 0 /\ fileReply.status \in {200, 206}
      /\ static.request.method = "GET" =>
    LET r == static.request
        asked == {p \in 0..meta.len - 1 :
                    fileReply.status = 200 \/ \E i \in DOMAIN r.range : Selects(r.range[i], p, meta.len)}
    IN  /\ {SentBytes[i].pos : i \in DOMAIN SentBytes} = asked
        /\ \A i, j \in DOMAIN SentBytes : i < j => SentBytes[i].pos < SentBytes[j].pos
        /\ SentSize = fileReply.length

(* Whatever is written meanwhile, a body never outgrows its Content-Length,   *)
(* and one that was read before the answer was sent is never cut short.       *)
LengthIsHonest ==
  fileReply.status \in {200, 206} /\ static.request.method = "GET" =>
    /\ SentSize <= fileReply.length
    /\ fileStep = "done" /\ static.settings.threshold = 0 /\ (sent = <<>> \/ sent[1].kind = "byte")
         => SentSize = fileReply.length

(* A client that names the version it knows by ETag is not told that it is    *)
(* current when the file was written since, even within the same second.      *)
RevalidationIsFresh ==
  fileReply.status = 304 /\ static.request.etag = "known" =>
    static.request.known = [len |-> meta.len, time |-> meta.time]

(* A partial response is never cut out of a precompressed file: its positions *)
(* are positions in the file the client named.                                *)
RangesAreOfThePlainFile == fileReply.status = 206 => meta.name = "plain"

(* A client gets exactly the content it asked for and can decode, also through *)
(* caches, while files are written, and across ranges, validators and encodings. *)
ContentIsExact ==
  /\ EncodingTypeOK
  /\ StaticTypeOK
  /\ VaryCoversEncoding
  /\ EncodedOnceAsAccepted
  /\ NothingLostInBody
  /\ BodyIsWhatWasAsked
  /\ LengthIsHonest
  /\ RevalidationIsFresh
  /\ RangesAreOfThePlainFile
=============================================================================
