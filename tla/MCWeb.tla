-------------------------------- MODULE MCWeb --------------------------------
(* The HTTP side and the configuration for TLC in one state graph: a          *)
(* behaviour runs one component, chosen at the start, and the others rest.    *)
EXTENDS HttpServer, Application, ResponseContent, EdgeLayers
LOCAL INSTANCE TLC

VARIABLE part
httpSide == <<httpVars, routeVars, extractVars>>
bodySide == <<encodingVars, staticVars>>
edgeSide == <<edgeVars, rateVars>>
settingSide == <<configVars, traceVars, clientVars>>

-----------------------------------------------------------------------------
(* Routes: static and parameter segments in each position, and invalid ones.  *)
WebRoutePaths == {<<"">>, <<"a">>, <<"b", "">>, <<":p">>, <<":q">>, <<"a", ":p">>, <<":p", "b">>,
                  <<":p", ":p">>, <<"a", "", "b">>, <<":">>}
WebPrefixes == {<<"a">>, <<"a", "b">>, <<":p">>, <<"">>}
WebPaths == {<<"">>} \cup UNION {[1..n -> {"a", "b", "c"}] : n \in 1..4}

(* Accept-Encoding: weights given, absent, zero and out of range.             *)
Weight(w, f) == [whole |-> w, fraction |-> f]
WebAccept ==
  [token : {"br", "gzip", "*"}, q : {NoQuality, Weight(0, <<5>>), Weight(0, <<>>)}]
  \cup {[token |-> "gzip", q |-> Weight(1, <<5>>)], [token |-> "br", q |-> Weight(0, <<0, 1>>)],
        [token |-> "identity", q |-> NoQuality]}
PlainText == [hasBody |-> TRUE, encoding |-> "none", contentRange |-> FALSE, noTransform |-> FALSE,
              length |-> "some", textual |-> TRUE, vary |-> {}]
WebHeaders ==
  {PlainText, [PlainText EXCEPT !.hasBody = FALSE], [PlainText EXCEPT !.encoding = "br"],
   [PlainText EXCEPT !.contentRange = TRUE], [PlainText EXCEPT !.noTransform = TRUE],
   [PlainText EXCEPT !.length = "zero"], [PlainText EXCEPT !.textual = FALSE],
   [PlainText EXCEPT !.vary = {"*"}], [PlainText EXCEPT !.length = "none", !.vary = {"origin"}]}
Chunk == [kind |-> "data"]
Trailer(name) == [kind |-> "trailers", names |-> {name}]
WebFrames == {<<Chunk>>, <<Chunk, Chunk, Trailer("t")>>, <<Chunk, Trailer("t"), Trailer("u")>>,
              <<Chunk, Trailer("t"), [kind |-> "error"]>>}

(* Files up to the limit and beyond, with and without encoded siblings.       *)
File(n) == [len |-> n, time |-> 2]
WebDisks ==
  {[plain |-> File(n), br |-> Missing, gzip |-> Missing] : n \in {0, 2, 4}}
  \cup {[plain |-> File(3), br |-> File(2), gzip |-> Missing],
        [plain |-> File(2), br |-> File(5), gzip |-> File(1)],
        [plain |-> File(5), br |-> Missing, gzip |-> File(1)]}
WebSettings == [precompressed : BOOLEAN, threshold : {0, 2}]
Spec(kind, first, last) == [kind |-> kind, first |-> first, last |-> last]
RangeSpecs == {Spec("suffix", 0, n) : n \in {0, 1, 4}} \cup {Spec("range", a, b) : a \in {0, 2, 3}, b \in -1..3}
Overlapping == {Spec("suffix", 0, 1), Spec("range", 0, 0), Spec("range", 2, -1), Spec("range", 1, 2),
                Spec("range", 3, 1)}
Get == [method |-> "GET", path |-> "file", range |-> <<>>, accept |-> <<>>, etag |-> "none",
        known |-> [len |-> 2, time |-> 2], since |-> -1, ifRange |-> -1]
GetRange(specs) == [Get EXCEPT !.range = specs]
Takes(coding) == [token |-> coding, q |-> NoQuality]
WebFileRequests ==
  {GetRange(<<a>>) : a \in RangeSpecs \cup {Spec("unit", 0, 0)}}
  \cup {GetRange(<<a, b>>) : a, b \in Overlapping \cup {Spec("bad", 0, 0)}}
  \cup {GetRange(<<Spec("range", 0, 0), a, b>>) : a, b \in Overlapping}
  \cup {GetRange(<<a, a, a, a>>) : a \in Overlapping}
  \cup {Get, [Get EXCEPT !.method = "other"], [Get EXCEPT !.method = "HEAD"],
        [GetRange(<<Spec("range", 1, 2)>>) EXCEPT !.method = "HEAD"]}
  \cup {[Get EXCEPT !.path = p] : p \in {"outside", "bad", "root"}}
  \cup {[Get EXCEPT !.accept = a] : a \in {<<Takes("br")>>, <<Takes("gzip"), Takes("br")>>, <<Takes("*")>>}}
  \cup {[Get EXCEPT !.etag = e, !.since = s] : e \in {"none", "known", "star"}, s \in {-1, 1}}
  \cup {[GetRange(<<Spec("range", 1, 2)>>) EXCEPT !.ifRange = d, !.accept = a] :
          d \in {0, 1}, a \in {<<>>, <<Takes("br")>>}}

(* Proxies: networks of each prefix length, chains of up to three addresses.  *)
Network(a, p) == [address |-> a, prefix |-> p]
WebNetworks == {{}, {Network(3, 2)}, {Network(0, 3), Network(6, 2)}, {Network(1, 1)}, {Network(1, 0)},
                {Network(1, 3), Network(2, 3), Network(3, 3)}}
WebChains == [chain : UNION {[1..n -> {0, 2, 5, 7}] : n \in 0..3}, more : {"none", "edge", "inner", "bad"}]
CrossOrigin == [origins |-> <<"allowed">>, method |-> "GET", requestMethods |-> 0, peer |-> 2, panics |-> FALSE]
WebEdgeRequests ==
  {CrossOrigin, [CrossOrigin EXCEPT !.panics = TRUE], [CrossOrigin EXCEPT !.peer = -1],
   [CrossOrigin EXCEPT !.peer = 7, !.origins = <<>>], [CrossOrigin EXCEPT !.origins = <<"allowed", "allowed">>]}
  \cup {[CrossOrigin EXCEPT !.method = "OPTIONS", !.requestMethods = n] : n \in 0..2}
WebWindows == [limit : 0..2, window : {0, 2, 3}]

(* Configuration: scalars, objects, and variables whose paths conflict.       *)
Scalar(x) == <<>> :> x
Object(members) == (<<>> :> "object") @@ members
WebObjects ==
  {Scalar("s"), Object(<<"a">> :> "x"),
   Object((<<"a">> :> "object") @@ (<<"a", "b">> :> "y")),
   Object((<<"a">> :> "object") @@ (<<"a", "c">> :> "z") @@ (<<"d">> :> "w"))}
EnvVar(path, value) == [path |-> path, value |-> value, unicode |-> TRUE]
WebVariables ==
  {EnvVar(<<"a">>, Scalar("v1")), EnvVar(<<"a">>, Object(<<"b">> :> "v2")), EnvVar(<<"a", "b">>, Scalar("v3")),
   EnvVar(<<"a", "c">>, Scalar("v4")), EnvVar(<<"a", "b", "c">>, Scalar("v5")), EnvVar(<<"a", "">>, Scalar("v6")),
   [EnvVar(<<"e">>, Scalar("v7")) EXCEPT !.unicode = FALSE]}

(* Trace headers: a parent once, twice, too long or not ASCII, and states     *)
(* that fit apart and do not fit once they are joined.                        *)
TraceParent(n, ascii, trace) == [len |-> n, ascii |-> ascii, trace |-> trace, span |-> "remote"]
TraceState(n) == [len |-> n, ascii |-> TRUE]
Remote == TraceParent(1, TRUE, "t")
TraceFields(parents, states) == [parents |-> parents, states |-> states]
WebTraceFields ==
  {NoFields, TraceFields(<<Remote>>, <<TraceState(1), TraceState(0)>>),
   TraceFields(<<Remote>>, <<TraceState(2), TraceState(1)>>), TraceFields(<<Remote, Remote>>, <<>>),
   TraceFields(<<TraceParent(3, TRUE, "t")>>, <<>>), TraceFields(<<TraceParent(1, FALSE, "t")>>, <<>>),
   TraceFields(<<TraceParent(1, TRUE, "none")>>, <<>>)}

(* Answers to a test: over the jar's limits, invalid, broken, too large.      *)
Cookie(name, len) ==
  [name |-> name, len |-> len, pair |-> TRUE, validName |-> TRUE, validValue |-> TRUE, expires |-> FALSE]
Gone(name) == [Cookie(name, 0) EXCEPT !.expires = TRUE]
WebAnswers ==
  [cookies : {<<>>}, frames : {<<1, TrailerFrame, 2>>}]
  \cup [cookies : {<<Cookie("b", 2)>>}, frames : {<<2, 2>>, <<1, BrokenFrame>>}]
  \cup [cookies : {<<Cookie("a", 1)>>, <<Cookie("b", 2), [Cookie("c", 0) EXCEPT !.validValue = FALSE]>>,
                   <<Cookie("b", 1), Cookie("a", 5)>>, <<Gone("a"), Cookie("b", 3)>>, <<Cookie("c", 0)>>},
         frames : {<<1>>}]

-----------------------------------------------------------------------------
WebInit ==
  /\ part \in {"server", "routes", "extractors", "encoding", "static", "edge", "rate", "config", "trace",
              "client"}
  /\ part # "extractors" => handler = <<>> /\ request = CHOOSE r \in Requests : TRUE
  /\ part # "encoding" =>
       codec = [layer |-> {}, request |-> [plain |-> TRUE, accept |-> <<>>], headers |-> PlainText,
                frames |-> <<Chunk>>]
  /\ part # "static" =>
       disk = (CHOOSE d \in WebDisks : TRUE)
       /\ static = [settings |-> CHOOSE s \in WebSettings : TRUE, request |-> Get]
  /\ part # "edge" =>
       edge = [policy |-> NewPolicy({Network(3, 2)}), hops |-> 0, family |-> "forwarded",
               header |-> [chain |-> <<>>, more |-> "none"], request |-> CrossOrigin]
  /\ part # "rate" => rate = [policy |-> [limit |-> 1, window |-> 2], onFailure |-> "open"]
  /\ part # "config" => envLeft = {}
  /\ HttpInit /\ RouteInit /\ ExtractInit /\ EncodingInit /\ StaticInit /\ EdgeInit /\ RateInit
  /\ ConfigInit
  /\ part # "trace" => layerOrder = "noTrace" /\ exporting = FALSE
  /\ TraceInit /\ ClientInit

WebNext ==
  \/ part = "server" /\ HttpNext /\ UNCHANGED <<routeVars, extractVars, bodySide, edgeSide, settingSide, part>>
  \/ part = "routes" /\ RouteNext /\ UNCHANGED <<httpVars, extractVars, bodySide, edgeSide, settingSide, part>>
  \/ part = "extractors" /\ ExtractNext /\ UNCHANGED <<httpVars, routeVars, bodySide, edgeSide, settingSide, part>>
  \/ part = "encoding" /\ EncodingNext /\ UNCHANGED <<httpSide, staticVars, edgeSide, settingSide, part>>
  \/ part = "static" /\ StaticNext /\ UNCHANGED <<httpSide, encodingVars, edgeSide, settingSide, part>>
  \/ part = "edge" /\ EdgeNext /\ UNCHANGED <<httpSide, bodySide, rateVars, settingSide, part>>
  \/ part = "rate" /\ RateNext /\ UNCHANGED <<httpSide, bodySide, edgeVars, settingSide, part>>
  \/ part = "config" /\ ConfigNext /\ UNCHANGED <<httpSide, bodySide, edgeSide, traceVars, clientVars, part>>
  \/ part = "trace" /\ TraceNext /\ UNCHANGED <<httpSide, bodySide, edgeSide, configVars, clientVars, part>>
  \/ part = "client" /\ ClientNext /\ UNCHANGED <<httpSide, bodySide, edgeSide, configVars, traceVars, part>>

WebSpec == WebInit /\ [][WebNext]_<<part, httpSide, bodySide, edgeSide, settingSide>>

=============================================================================
