---------------------------- MODULE Application ----------------------------
(* What an application is made of: its routes and their dispatch, the       *)
(* arguments its handlers extract, its configuration, and the client that   *)
(* tests it.                                                                *)
EXTENDS Integers, Sequences, FiniteSets
LOCAL INSTANCE SequencesExt
LOCAL INSTANCE FiniteSetsExt
LOCAL INSTANCE Functions

-----------------------------------------------------------------------------
(* The router of rustee-router: registering routes and nested services        *)
(* (App::try_route, App::try_nest) and dispatching a request to them.         *)
(*                                                                            *)
(* A path is the sequence of the pieces between its slashes, so "/" is <<"">>,*)
(* "/a/" is <<"a", "">> and "/a//b" is <<"a", "", "b">>.  The services that   *)
(* are nested are other Apps, finished before they are mounted; App 1 serves. *)

CONSTANTS Parameters,     \* segments ":name" with a valid name
          BadParameter,   \* a segment ":" whose name is empty or not ASCII
          RoutePaths,     \* paths that applications register
          NestPrefixes,   \* prefixes that they mount under
          RequestPaths,   \* paths that clients ask for
          RouteMethods,
          Apps,           \* 1..n
          MaxRoutes,      \* bound: routes in all
          MaxMounts       \* bound: nested services in all

VARIABLES building,  \* the App under construction; 0 when App 1 is serving
          apps       \* per App: its routes, its nested services, its fallback

routeVars == <<building, apps>>

IsParameter(s) == s \in Parameters \cup {BadParameter}
RepeatedSlash(path) == \E i \in 1..Len(path) - 1 : path[i] = ""
Pieces(path) == SelectSeq(path, LAMBDA s : s # "")

(* RoutePattern::parse accepts the path; its segments are Pieces(path).       *)
ParsePattern(path) ==
  LET segs == Pieces(path) IN
  /\ ~RepeatedSlash(path)
  /\ BadParameter \notin Range(segs)
  /\ \A i, j \in DOMAIN segs : segs[i] = segs[j] /\ i # j => ~IsParameter(segs[i])

StaticSegments(segs) == Cardinality({i \in DOMAIN segs : ~IsParameter(segs[i])})

(* RoutePattern::matches, without the parameter values it captures.           *)
Matches(segs, path) ==
  LET incoming == Pieces(path) IN
  /\ ~RepeatedSlash(path)
  /\ Len(incoming) = Len(segs)
  /\ \A i \in DOMAIN segs : IsParameter(segs[i]) \/ segs[i] = incoming[i]

(* Mutant of EquivalentTo: parameter names count.                             *)
EquivalentByName(left, right) == left = right

(* RoutePattern::is_equivalent_to: parameter names do not count.              *)
EquivalentTo(left, right) ==
  /\ Len(left) = Len(right)
  /\ \A i \in DOMAIN left :
       left[i] = right[i] \/ (IsParameter(left[i]) /\ IsParameter(right[i]))

RoutesInAll == FoldFunctionOnSet(LAMBDA a, n : Len(a.routes) + n, 0, apps, Apps)
MountsInAll == FoldFunctionOnSet(LAMBDA a, n : Len(a.nested) + n, 0, apps, Apps)

(* App::try_route: a second route for a method and an equivalent pattern is   *)
(* refused; otherwise it is appended, its order the number before it.         *)
TryRoute(method, path) ==
  /\ building > 0 /\ RoutesInAll < MaxRoutes
  /\ ParsePattern(path)
  /\ ~\E i \in DOMAIN apps[building].routes :
        LET r == apps[building].routes[i] IN
        r.method = method /\ EquivalentTo(Pieces(r.template), Pieces(path))
  /\ apps' = [apps EXCEPT ![building].routes =
                Append(@, [method |-> method, template |-> path])]
  /\ UNCHANGED building

(* App::try_nest and NestedPrefix::parse: static segments only, at least one. *)
TryNest(prefix, inner) ==
  /\ building > 0 /\ inner > building /\ MountsInAll < MaxMounts
  /\ ParsePattern(prefix)
  /\ Pieces(prefix) # <<>>
  /\ \A i \in DOMAIN Pieces(prefix) : ~IsParameter(Pieces(prefix)[i])
  /\ apps' = [apps EXCEPT ![building].nested =
                Append(@, [prefix |-> Pieces(prefix), inner |-> inner])]
  /\ UNCHANGED building

SetFallback ==
  /\ building > 0 /\ ~apps[building].fallback
  /\ apps' = [apps EXCEPT ![building].fallback = TRUE]
  /\ UNCHANGED building

Finish ==
  /\ building > 0
  /\ building' = building - 1
  /\ UNCHANGED apps

(* NestedPrefix::strip: the rest of the path, "/" when nothing is left.       *)
Strips(prefix, path) == IsPrefix(prefix, path)
Strip(prefix, path) ==
  IF path = prefix THEN <<"">> ELSE SubSeq(path, Len(prefix) + 1, Len(path))

(* join_route_paths, on the path of a template and the prefix above it.       *)
JoinRoutePaths(prefix, path) ==
  IF prefix = <<>> THEN path
  ELSE IF path = <<"">> THEN prefix ELSE prefix \o path

(* The methods select_direct_route collects for the Allow header.             *)
AllowedMethods(a, path) ==
  LET routes == apps[a].routes IN
  {routes[i].method : i \in {i \in DOMAIN routes : Matches(Pieces(routes[i].template), path)}}

(* The candidate select_direct_route keeps: compare_routes ranks by static    *)
(* segments, then by earlier registration.                                    *)
DirectRoute(a, method, path) ==
  LET routes == apps[a].routes
      statics(i) == StaticSegments(Pieces(routes[i].template))
      hits == {i \in DOMAIN routes :
                 routes[i].method = method /\ Matches(Pieces(routes[i].template), path)}
  IN  {i \in hits : \A j \in hits \ {i} :
         statics(i) > statics(j) \/ (statics(i) = statics(j) /\ i < j)}

(* select_nested_route: the longest matching prefix, the earlier on a tie.    *)
NestedRoute(a, path) ==
  LET nested == apps[a].nested
      hits == {i \in DOMAIN nested : Strips(nested[i].prefix, path)}
      deep(i) == Len(nested[i].prefix)
  IN  {i \in hits : \A j \in hits \ {i} :
         deep(i) > deep(j) \/ (deep(i) = deep(j) /\ i < j)}

Outcome(class, template, app, route, allow) ==
  [class |-> class, template |-> template, app |-> app, route |-> route, allow |-> allow]

(* dispatch and NestedRoute::call: a direct route, then 405, then the nested  *)
(* service with the stripped path and the joined prefix, fallback and 404.    *)
RECURSIVE Dispatch(_, _, _, _)
Dispatch(a, method, path, prefix) ==
  LET direct == DirectRoute(a, method, path)
      nested == NestedRoute(a, path)
  IN  IF direct # {}
      THEN LET i == CHOOSE i \in direct : TRUE IN
           Outcome("matched", JoinRoutePaths(prefix, apps[a].routes[i].template), a, i, {})
      ELSE IF AllowedMethods(a, path) # {}
      THEN Outcome("method_not_allowed", <<>>, a, 0, AllowedMethods(a, path))
      ELSE IF nested # {}
      THEN LET n == apps[a].nested[CHOOSE i \in nested : TRUE] IN
           Dispatch(n.inner, method, Strip(n.prefix, path), JoinRoutePaths(prefix, n.prefix))
      ELSE Outcome(IF apps[a].fallback THEN "fallback" ELSE "not_found", <<>>, a, 0, {})

RouteInit ==
  /\ building = Cardinality(Apps)
  /\ apps = [a \in Apps |-> [routes |-> <<>>, nested |-> <<>>, fallback |-> FALSE]]

RouteNext ==
  \/ \E method \in RouteMethods, path \in RoutePaths : TryRoute(method, path)
  \/ \E prefix \in NestPrefixes, inner \in Apps : TryNest(prefix, inner)
  \/ SetFallback
  \/ Finish

RouteSpec == RouteInit /\ [][RouteNext]_routeVars

-----------------------------------------------------------------------------
RouteTypeOK ==
  /\ building \in 0..Cardinality(Apps)
  /\ \A a \in Apps :
       /\ \A i \in DOMAIN apps[a].routes :
            apps[a].routes[i] \in [method : RouteMethods, template : RoutePaths]
       /\ \A i \in DOMAIN apps[a].nested : apps[a].nested[i].inner \in Apps

(* The template the router reports for a request (it names metrics and spans) *)
(* is a pattern of the path the client asked for, through every nesting.      *)
TemplateDescribesRequest ==
  building = 0 =>
    \A method \in RouteMethods, path \in RequestPaths :
      LET out == Dispatch(1, method, path, <<>>) IN
      out.class = "matched" => Matches(Pieces(out.template), path)

(* A registered route is never dead: some request of its method reaches it in *)
(* its own App, whatever else is registered and in whatever order.            *)
EveryRouteIsReachable ==
  building = 0 =>
    \A a \in Apps : \A i \in DOMAIN apps[a].routes :
      \E path \in RequestPaths :
        LET out == Dispatch(a, apps[a].routes[i].method, path, <<>>) IN
        out.class = "matched" /\ out.app = a /\ out.route = i

(* The Allow header of a 405 lists exactly the methods that would have        *)
(* matched a route for the same path.                                         *)
AllowIsTruthful ==
  building = 0 =>
    \A path \in RequestPaths :
      LET out == [m \in RouteMethods |-> Dispatch(1, m, path, <<>>)] IN
      \A m \in RouteMethods : out[m].class = "method_not_allowed" =>
        out[m].allow = {k \in RouteMethods : out[k].class = "matched"}

-----------------------------------------------------------------------------
(* Calling a handler: impl_handler! of rustee-router runs the handler's       *)
(* extractors one after the other on one request (rustee-core/src/extract)    *)
(* and stops at the first that fails.  A request body is a stream that        *)
(* collect_body reads to its end.                                             *)

CONSTANTS MaxExtractors  \* bound: arguments of the handler (the macro allows six)

VARIABLES handler,  \* the extractors of the matched handler, in argument order
          request,  \* what matters of the request
          left,     \* the body has not been read yet
          done,     \* the extractors that succeeded, with the body they were given
          reply     \* "none", "handler" or the error response

extractVars == <<handler, request, left, done, reply>>

Kinds == {"Bytes", "Json", "Header", "State", "Path", "Query", "ConnectionInfo"}
NeedsBody == {"Bytes", "Json"}

Requests ==
  [types : {"none", "json", "other", "two"},     \* Content-Type fields
   body : {"empty", "json", "text", "over", "cut"},
   headers : {"none", "one", "bad", "two"},      \* fields the Header extractor asks for
   lacks : {"nothing", "State", "Path", "Query", "ConnectionInfo"}]  \* what would fail

(* collect_body of a body read by an earlier extractor: there is nothing left.*)
BodyAfterReading == FALSE

CollectBodyFails(body) ==
  CASE body = "over" -> "payload_too_large"
    [] body = "cut" -> "bad_request"
    [] OTHER -> "none"

(* Json::from_request: the media type is refused before the body is touched.  *)
JsonError(r, body) ==
  CASE r.types = "two" -> "bad_request"
    [] r.types # "json" -> "unsupported_media_type"
    [] CollectBodyFails(body) # "none" -> CollectBodyFails(body)
    [] body # "json" -> "bad_request"
    [] OTHER -> "none"

(* Header::from_request: exactly one field, of visible ASCII.                 *)
HeaderError(r) == IF r.headers = "one" THEN "none" ELSE "bad_request"

(* from_request of Query and Path, of State and of ConnectionInfo.            *)
ParametersError(kind, r) == IF kind = r.lacks THEN "bad_request" ELSE "none"
StateError(r) == IF r.lacks = "State" THEN "internal_error" ELSE "none"
ConnectionInfoError(r) == IF r.lacks = "ConnectionInfo" THEN "connection_info_missing" ELSE "none"

ExtractError(kind, r, body) ==
  CASE kind = "Json" -> JsonError(r, body)
    [] kind = "Bytes" -> CollectBodyFails(body)
    [] kind = "Header" -> HeaderError(r)
    [] kind = "State" -> StateError(r)
    [] kind = "ConnectionInfo" -> ConnectionInfoError(r)
    [] OTHER -> ParametersError(kind, r)

ReadsBody(kind, r) == kind = "Bytes" \/ (kind = "Json" /\ r.types = "json")

ExtractInit ==
  /\ handler \in UNION {[1..n -> Kinds] : n \in 0..MaxExtractors}
  /\ request \in Requests
  /\ left = TRUE /\ done = <<>> /\ reply = "none"

(* One `match $extractor::from_request` of the macro.                         *)
ExtractArgument ==
  /\ reply = "none" /\ Len(done) < Len(handler)
  /\ LET kind == handler[Len(done) + 1]
         body == IF left THEN request.body ELSE "empty"
         error == ExtractError(kind, request, body)
     IN  /\ left' = IF ReadsBody(kind, request) THEN BodyAfterReading ELSE left
         /\ IF error = "none"
              THEN /\ done' = Append(done, [kind |-> kind, body |-> body])
                   /\ UNCHANGED reply
              ELSE /\ reply' = error
                   /\ UNCHANGED done
  /\ UNCHANGED <<handler, request>>

CallHandler ==
  /\ reply = "none" /\ Len(done) = Len(handler)
  /\ reply' = "handler"
  /\ UNCHANGED <<handler, request, left, done>>

ExtractNext == ExtractArgument \/ CallHandler
ExtractSpec == ExtractInit /\ [][ExtractNext]_extractVars

-----------------------------------------------------------------------------
ExtractTypeOK ==
  /\ handler \in Seq(Kinds) /\ request \in Requests
  /\ left \in BOOLEAN
  /\ Len(done) <= Len(handler)
  /\ reply \in STRING

(* The handler runs only with every argument extracted from this request, and *)
(* a request for which some extractor fails by itself never reaches it.       *)
HandlerHasEveryArgument ==
  reply = "handler" =>
    \A i \in DOMAIN handler :
      /\ done[i].kind = handler[i]
      /\ ExtractError(handler[i], request, done[i].body) = "none"

(* No two arguments share one body: at most one extractor of a handler is     *)
(* given a body that is not empty, so a second Json never parses.             *)
BodyHasOneReader ==
  \A i, j \in DOMAIN done :
    /\ i # j /\ done[i].kind \in NeedsBody /\ done[j].kind \in NeedsBody
    => done[i].body = "empty" \/ done[j].body = "empty"

-----------------------------------------------------------------------------
(* ConfigBuilder (rustee-config): sources are added in any order, environment *)
(* variables one by one, and build merges them in their fixed precedence.     *)
(* A JSON value is a function from the paths of its members, at every depth,  *)
(* to "object" or a scalar; the empty path is the value itself, and the paths *)
(* of a member's ancestors are "object".                                      *)

CONSTANTS Objects,        \* JSON values given to source()
          Variables,      \* matching environment variables: [path, value]
          MaxVariables,   \* MAX_ENVIRONMENT_VARIABLES
          MaxPathSegments \* MAX_ENVIRONMENT_PATH_SEGMENTS

VARIABLES sources,    \* ConfigBuilder::sources
          envLeft,    \* variables std::env::vars_os has still to yield
          envValues,  \* the map collect_environment_values has built
          envRead,    \* the variables read into it
          built       \* the merged values, or why there are none

configVars == <<sources, envLeft, envValues, envRead, built>>

SourceOrder == <<"defaults", "local", "environment", "deployment">>
EmptyObject == [p \in {<<>>} |-> "object"]
NotSet == [set |-> FALSE, value |-> EmptyObject]
Above(path) == {SubSeq(path, 1, n) : n \in 0..Len(path)}

Grafted(path, value) ==
  [p \in {path \o q : q \in DOMAIN value} |-> value[SubSeq(p, Len(path) + 1, Len(p))]]
Join(f, g) == [p \in DOMAIN f \cup DOMAIN g |-> IF p \in DOMAIN g THEN g[p] ELSE f[p]]

(* insert_path: no overwriting, and every ancestor is an object.              *)
InsertPath(values, path, value) ==
  LET above == Above(path) \ {path} IN
  [ok |-> /\ path # <<>>
          /\ path \notin DOMAIN values
          /\ \A p \in above : p \in DOMAIN values => values[p] = "object",
   values |-> Join(Join(values, [p \in above |-> "object"]), Grafted(path, value))]

(* merge_values: objects are merged member by member; anything else replaces. *)
MergeValues(target, source) ==
  LET replaced == {p \in DOMAIN target : \E q \in Above(p) :
                     q \in DOMAIN source /\ ~(source[q] = "object" /\ target[q] = "object")}
  IN  [p \in DOMAIN source \cup (DOMAIN target \ replaced) |->
         IF p \in DOMAIN source THEN source[p] ELSE target[p]]

Snapshots == {v \in SUBSET Variables : Cardinality(v) <= MaxVariables + 1}

ConfigInit ==
  /\ sources = [s \in {"defaults", "local", "environment", "deployment"} |-> NotSet]
  /\ envLeft \in Snapshots
  /\ envValues = EmptyObject /\ envRead = {}
  /\ built = [state |-> "building"]

(* ensure_source_available.                                                   *)
EnsureSourceAvailable(s) == ~sources[s].set

(* source: once per source, JSON objects only.                                *)
AddSource(s, value) ==
  /\ built.state = "building" /\ envRead = {}
  /\ IF ~EnsureSourceAvailable(s) \/ value[<<>>] # "object"
       THEN built' = [state |-> "failed"] /\ UNCHANGED sources
       ELSE sources' = [sources EXCEPT ![s] = [set |-> TRUE, value |-> value]] /\ UNCHANGED built
  /\ UNCHANGED <<envLeft, envValues, envRead>>

(* One turn of collect_environment_values, in the order the process yields.   *)
ReadVariable(v) ==
  /\ built.state = "building" /\ v \in envLeft /\ ~sources["environment"].set
  /\ LET inserted == InsertPath(envValues, v.path, v.value)
         admitted == /\ Cardinality(envRead) # MaxVariables
                     /\ v.unicode
                     /\ \A i \in DOMAIN v.path : v.path[i] # ""
                     /\ Len(v.path) <= MaxPathSegments
     IN  IF admitted /\ inserted.ok
           THEN /\ envValues' = inserted.values /\ envRead' = envRead \cup {v}
                /\ envLeft' = envLeft \ {v} /\ UNCHANGED built
           ELSE built' = [state |-> "failed"] /\ UNCHANGED <<envValues, envRead, envLeft>>
  /\ UNCHANGED sources

(* environment: the whole snapshot has been read.                             *)
Environment ==
  /\ built.state = "building" /\ (envLeft = {} \/ sources["environment"].set)
  /\ IF ~EnsureSourceAvailable("environment")
       THEN built' = [state |-> "failed"] /\ UNCHANGED sources
       ELSE /\ sources' = [sources EXCEPT !["environment"] = [set |-> TRUE, value |-> envValues]]
            /\ UNCHANGED built
  /\ envRead' = {}
  /\ UNCHANGED <<envLeft, envValues>>

(* build: the four sources folded in order; the schema may refuse the result. *)
MergeTo(target, s) == IF sources[s].set THEN MergeValues(target, sources[s].value) ELSE target
Merged == FoldLeft(MergeTo, EmptyObject, SourceOrder)
Build ==
  /\ built.state = "building" /\ envRead = {}
  /\ built' \in {[state |-> "built", value |-> Merged], [state |-> "failed"]}
  /\ UNCHANGED <<sources, envLeft, envValues, envRead>>

ConfigNext ==
  \/ \E s \in DOMAIN sources, value \in Objects : AddSource(s, value)
  \/ \E v \in envLeft : ReadVariable(v)
  \/ Environment
  \/ Build
ConfigSpec == ConfigInit /\ [][ConfigNext]_configVars

-----------------------------------------------------------------------------
ConfigTypeOK ==
  /\ built.state \in {"building", "built", "failed"}
  /\ envLeft \cap envRead = {}
  /\ \A s \in DOMAIN sources : sources[s].set \in BOOLEAN

Rank(s) == CHOOSE i \in 1..4 : SourceOrder[i] = s
(* A source speaks about a path when it has it, or has a scalar above it.     *)
Speaks(s, p) ==
  /\ sources[s].set
  /\ \E q \in Above(p) : q \in DOMAIN sources[s].value
                             /\ (q = p \/ sources[s].value[q] # "object")

(* What build returns is decided, path by path, by the highest source that    *)
(* speaks about it: a lower source never shows through a value or reappears   *)
(* under a scalar that a source between them put there (merge_values).        *)
HighestSourceDecides ==
  built.state = "built" =>
    /\ \A p \in DOMAIN built.value \ {<<>>} : \E s \in DOMAIN sources :
         /\ Speaks(s, p) /\ p \in DOMAIN sources[s].value /\ sources[s].value[p] = built.value[p]
         /\ \A t \in DOMAIN sources : Speaks(t, p) => Rank(t) <= Rank(s)
    /\ \A s \in DOMAIN sources : sources[s].set =>
         \A p \in DOMAIN sources[s].value :
           \/ p \in DOMAIN built.value
           \/ \E t \in DOMAIN sources : Rank(t) > Rank(s) /\ Speaks(t, p)

(* In whatever order the environment is read, an accepted variable keeps its  *)
(* whole value: none overwrites or truncates another (insert_path).           *)
NoVariableIsLost ==
  \A v \in envRead : \A q \in DOMAIN v.value :
    v.path \o q \in DOMAIN envValues /\ envValues[v.path \o q] = v.value[q]

-----------------------------------------------------------------------------
(* The in-process test client (rustee-test): requests built by value and sent *)
(* through an application, responses buffered under a limit, and the cookie   *)
(* jar that every clone of a client shares.  Sends await the application and  *)
(* the response's frames, so exchanges of one client interleave; the jar is   *)
(* read when a request is sent and changed when its response is whole.        *)

CONSTANTS
  Exchanges,          \* requests in flight on one client
  RequestBodies,      \* sizes of the bodies given to a request
  MaxTestRequest, MaxTestResponse,
  MaxCookieCount, MaxCookieBytes,
  Answers,            \* what an application answers: its Set-Cookie headers, and
                      \* its frames, each a size or one of the two below
  MaxAbsorbed         \* bound on the responses whose cookies were kept

NameBytes == 1        \* cookie names are one byte long
TrailerFrame == 1000  \* a frame without data
BrokenFrame == 1001   \* the body stream fails

VARIABLES
  jar,                \* cookie name -> length of its value
  exchange,           \* the request and response of each exchange
  absorbed            \* history: the cookie updates kept since the last clear

clientVars == <<jar, exchange, absorbed>>

Unbuilt == [phase |-> "building", cookie |-> FALSE, body |-> 0, sent |-> {}, seen |-> "none",
            answer |-> [cookies |-> <<>>, frames |-> <<>>], frames |-> <<>>, read |-> 0]

ClientInit == jar = <<>> /\ exchange = [x \in Exchanges |-> Unbuilt] /\ absorbed = <<>>

-----------------------------------------------------------------------------
(* Building a request: an explicit Cookie header, a body of any size, or a    *)
(* JSON value whose encoding must fit before the request exists.              *)
Building(x) == exchange[x].phase = "building"

WithCookie(x) ==
  /\ Building(x) /\ ~exchange[x].cookie
  /\ exchange' = [exchange EXCEPT ![x].cookie = TRUE]
  /\ UNCHANGED <<jar, absorbed>>

WithBody(x, size) ==
  /\ Building(x) /\ exchange[x].body = 0 /\ size > 0
  /\ exchange' = [exchange EXCEPT ![x].body = size]
  /\ UNCHANGED <<jar, absorbed>>

WithJson(x, size) ==
  /\ Building(x) /\ exchange[x].body = 0 /\ size > 0
  /\ exchange' = IF size > MaxTestRequest THEN [exchange EXCEPT ![x].phase = "refused"]
                 ELSE [exchange EXCEPT ![x].body = size]
  /\ UNCHANGED <<jar, absorbed>>

(* The pairs of the Cookie header, and its length: name=value joined by "; ". *)
RequestHeader(entries) == {<<name, entries[name]>> : name \in DOMAIN entries}

CookieHeaderLen(entries) ==
  FoldSet(LAMBDA name, total : total + NameBytes + 1 + entries[name], 0, DOMAIN entries)
  + (IF entries = <<>> THEN 0 ELSE 2 * (Cardinality(DOMAIN entries) - 1))

(* The Cookie header is the caller's, or else the jar's at this moment; a     *)
(* body over the limit reaches the handler as a failing stream.               *)
Send(x) ==
  /\ Building(x)
  /\ exchange' = [exchange EXCEPT ![x] =
                    [Unbuilt EXCEPT !.phase = "sent",
                       !.sent = IF exchange[x].cookie THEN {} ELSE RequestHeader(jar),
                       !.seen = IF exchange[x].body > MaxTestRequest THEN "limit" ELSE "whole"]]
  /\ UNCHANGED <<jar, absorbed>>

AppAnswers(x, answer) ==
  /\ exchange[x].phase = "sent"
  /\ exchange' = [exchange EXCEPT ![x] = [Unbuilt EXCEPT !.phase = "reading", !.answer = answer,
                                                         !.frames = answer.frames]]
  /\ UNCHANGED <<jar, absorbed>>

-----------------------------------------------------------------------------
(* Buffering the response: each data frame must fit what is left.             *)
FitsResponse(read, frame) == frame <= MaxTestResponse - read

ReadFrame(x) ==
  LET got == exchange[x]
      frame == Head(got.frames)
  IN  /\ got.phase = "reading" /\ got.frames # <<>>
      /\ exchange' =
           IF frame = TrailerFrame THEN [exchange EXCEPT ![x].frames = Tail(got.frames)]
           ELSE IF frame = BrokenFrame \/ ~FitsResponse(got.read, frame)
             THEN [exchange EXCEPT ![x].phase = "failed"]
           ELSE [exchange EXCEPT ![x].frames = Tail(got.frames), ![x].read = got.read + frame]
      /\ UNCHANGED <<jar, absorbed>>

(* A Set-Cookie header is a pair with a valid name and value; Max-Age=0 among *)
(* its attributes removes the cookie.                                         *)
ParsesAsCookie(header) == header.pair /\ header.validName /\ header.validValue

ApplyUpdate(entries, header) ==
  IF header.expires THEN Restrict(entries, DOMAIN entries \ {header.name})
  ELSE [name \in DOMAIN entries \cup {header.name} |-> IF name = header.name THEN header.len ELSE entries[name]]

FitsJar(entries) ==
  Cardinality(DOMAIN entries) <= MaxCookieCount /\ CookieHeaderLen(entries) <= MaxCookieBytes

JarAfter(entries, cookies) == FoldLeft(ApplyUpdate, entries, cookies)

(* The updates are applied to a copy, the limits are checked after each one,  *)
(* and the copy replaces the jar only when every one of them fits.            *)
Absorbable(entries, cookies) ==
  /\ \A i \in DOMAIN cookies : ParsesAsCookie(cookies[i])
  /\ \A n \in DOMAIN cookies : FitsJar(JarAfter(entries, SubSeq(cookies, 1, n)))

Absorb(entries, cookies) ==
  IF Absorbable(entries, cookies) THEN JarAfter(entries, cookies) ELSE entries

SendReturns(x) ==
  LET got == exchange[x]
      fits == Absorbable(jar, got.answer.cookies)
  IN  /\ got.phase = "reading" /\ got.frames = <<>>
      /\ Len(absorbed) + Len(got.answer.cookies) <= MaxAbsorbed
      /\ jar' = Absorb(jar, got.answer.cookies)
      /\ exchange' = [exchange EXCEPT ![x].phase = IF fits THEN "done" ELSE "failed"]
      /\ absorbed' = IF fits THEN absorbed \o got.answer.cookies ELSE absorbed

(* A test keeps its client: the exchange's place is free for another request. *)
NextRequest(x) ==
  /\ exchange[x].phase \in {"done", "failed", "refused"}
  /\ exchange' = [exchange EXCEPT ![x] = Unbuilt]
  /\ UNCHANGED <<jar, absorbed>>

ClearJar == jar # <<>> /\ jar' = <<>> /\ absorbed' = <<>> /\ UNCHANGED exchange

ClientNext ==
  \/ \E x \in Exchanges :
       \/ WithCookie(x) \/ Send(x) \/ ReadFrame(x) \/ SendReturns(x) \/ NextRequest(x)
       \/ \E size \in RequestBodies : WithBody(x, size) \/ WithJson(x, size)
       \/ \E answer \in Answers : AppAnswers(x, answer)
  \/ ClearJar

ClientSpec == ClientInit /\ [][ClientNext]_clientVars

-----------------------------------------------------------------------------
ClientTypeOK ==
  /\ \A name \in DOMAIN jar : jar[name] \in Nat
  /\ \A x \in Exchanges : exchange[x].phase \in {"building", "refused", "sent", "reading", "done", "failed"}

(* However responses of concurrent exchanges interleave, the jar never holds  *)
(* more cookies, nor more bytes of Cookie header, than its two bounds         *)
(* (DEFAULT_MAX_COOKIE_COUNT, DEFAULT_MAX_COOKIE_BYTES), and every header     *)
(* sent from it fits as well.                                                 *)
JarWithinLimits ==
  /\ Cardinality(DOMAIN jar) <= MaxCookieCount /\ CookieHeaderLen(jar) <= MaxCookieBytes
  /\ \A x \in Exchanges : Cardinality(exchange[x].sent) <= MaxCookieCount

(* Each cookie in the jar is the last one that the absorbed responses set for *)
(* its name since the jar was cleared, and one they removed last is not       *)
(* there: a response refused for one of its cookies (TestCookieJar::absorb)   *)
(* leaves no other cookie behind.                                             *)
JarIsWhatWasAbsorbed ==
  LET Newest(name) == Max({0} \cup {i \in DOMAIN absorbed : absorbed[i].name = name})
  IN  \A name \in DOMAIN jar \cup {absorbed[i].name : i \in DOMAIN absorbed} :
        IF Newest(name) = 0 \/ absorbed[Newest(name)].expires THEN name \notin DOMAIN jar
        ELSE name \in DOMAIN jar /\ jar[name] = absorbed[Newest(name)].len

(* A response handed to the test holds all the data its application sent and  *)
(* stays within the limit, whatever the frames it came in                     *)
(* (TestResponse::from_response).                                             *)
BufferedIsWhole ==
  \A x \in Exchanges : exchange[x].phase = "done" =>
    LET frames == exchange[x].answer.frames
    IN  /\ exchange[x].read = FoldLeft(+, 0, SelectSeq(frames, LAMBDA frame : frame < TrailerFrame))
        /\ exchange[x].read <= MaxTestResponse
        /\ \A i \in DOMAIN frames : frames[i] # BrokenFrame

(* However an application is put together, a request reaches the route its     *)
(* template describes, every route can be reached and Allow is true; a handler *)
(* runs with all its arguments and one reader of the body; each setting comes  *)
(* from the highest source; and a test's cookie jar is what its responses made it. *)
ApplicationIsConsistent ==
  /\ RouteTypeOK
  /\ ExtractTypeOK
  /\ ConfigTypeOK
  /\ ClientTypeOK
  /\ TemplateDescribesRequest
  /\ EveryRouteIsReachable
  /\ AllowIsTruthful
  /\ HandlerHasEveryArgument
  /\ BodyHasOneReader
  /\ HighestSourceDecides
  /\ NoVariableIsLost
  /\ JarWithinLimits
  /\ JarIsWhatWasAbsorbed
  /\ BufferedIsWhole
=============================================================================
