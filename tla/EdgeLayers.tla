----------------------------- MODULE EdgeLayers -----------------------------
(* The layers at the edge of a service: CORS, trusted proxies and the panic *)
(* boundary, the rate limit, and the propagation of traces.                 *)
EXTENDS Integers, Sequences, FiniteSets
LOCAL INSTANCE SequencesExt

-----------------------------------------------------------------------------
(* Three layers of rustee-middleware around a service, outermost first: CORS  *)
(* (src/cors.rs), trusted proxies (src/trusted_proxy/) and the panic boundary *)
(* (src/panic.rs).  Addresses are AddressBits wide; a network is an address   *)
(* and a prefix length, as in TrustedProxyNetwork.                            *)

CONSTANTS AddressBits,       \* 32 or 128 in the code
          ProxyNetworks,     \* sets of [address, prefix] to build the policy from
          MaxNetworks,       \* MAX_TRUSTED_PROXY_NETWORKS
          ChainHops,         \* values given to with_forwarded_chain_hops; 0: not called
          ForwardedHeaders,  \* forwarded headers of requests
          EdgeRequests       \* their other fields: origins, method, peer ...

VARIABLES edge,     \* policy, family of headers and request
          stage,    \* the layer that handles the request
          client,   \* the ForwardedContext put into the request
          edgeReply \* status and CORS headers of the response

edgeVars == <<edge, stage, client, edgeReply>>

Addresses == 0..2 ^ AddressBits - 1

(* normalize_ip and TrustedProxyNetwork::contains: both sides shifted right.  *)
NormalizeIp(address, prefix) == (address \div 2 ^ (AddressBits - prefix)) * 2 ^ (AddressBits - prefix)
NetworkContains(network, address) ==
  network.address \div 2 ^ (AddressBits - network.prefix)
    = address \div 2 ^ (AddressBits - network.prefix)

(* TrustedProxyNetwork::new and TrustedProxyPolicy::new.                      *)
ValidNetwork(n) == n.prefix \in 1..AddressBits
NewPolicy(networks) ==
  LET kept == {[address |-> NormalizeIp(n.address, n.prefix), prefix |-> n.prefix] : n \in networks}
  IN  [ok |-> (\A n \in networks : ValidNetwork(n)) /\ kept # {} /\ Cardinality(kept) <= MaxNetworks,
       networks |-> kept]
Trusts(policy, address) == \E n \in policy.networks : NetworkContains(n, address)

(* select_client_ip and the loop of parse_forwarded: from the right, at most  *)
(* `hops` trusted proxies are passed over; -1 when the chain runs out.        *)
SelectClientIp(chain, policy, hops) ==
  LET skipped == {n \in 0..Len(chain) :
                    n <= hops /\ \A i \in 1..n : Trusts(policy, chain[Len(chain) + 1 - i])}
      n == CHOOSE n \in skipped : \A k \in skipped : k <= n
  IN  IF n = Len(chain) THEN -1 ELSE chain[Len(chain) - n]

(* parse_forwarded_headers and parse_x_forwarded_headers.  A header is its    *)
(* chain of addresses and what else it says: "edge" when the last element (or *)
(* the separate X-Forwarded field) names scheme and host, "inner" when an     *)
(* earlier element does, "bad" when it is malformed, too long or sent twice.  *)
ParseForwarded(family, header, policy, hops) ==
  LET address == SelectClientIp(header.chain, policy, hops) IN
  CASE header.chain = <<>> /\ header.more = "none" -> [kind |-> "absent"]
    [] header.chain = <<>> \/ header.more = "bad" -> [kind |-> "invalid"]
    [] Len(header.chain) > hops + 1 -> [kind |-> "invalid"]
    [] family = "forwarded" /\ header.more = "inner" -> [kind |-> "invalid"]
    [] address = -1 -> [kind |-> "invalid"]
    [] OTHER -> [kind |-> "context", ip |-> address]

(* accepts_origin and classify_request.                                       *)
ClassifyRequest(r) ==
  CASE r.origins # <<"allowed">> -> "none"
    [] r.method = "OPTIONS" /\ r.requestMethods = 1 -> "preflight"
    [] r.method = "OPTIONS" /\ r.requestMethods > 1 -> "none"
    [] OTHER -> "actual"

NoReply == [status |-> 0, grant |-> FALSE, methods |-> FALSE, vary |-> {}]

(* apply_origin and add_vary_origin.                                          *)
ApplyOrigin(reply) ==
  [reply EXCEPT !.grant = TRUE,
                !.vary = IF @ \cap {"*", "origin"} = {} THEN @ \cup {"origin"} ELSE @]

Reply(status) == [NoReply EXCEPT !.status = status]

Policies == {p \in {NewPolicy(n) : n \in ProxyNetworks} : p.ok}

EdgeInit ==
  /\ edge \in [policy : Policies, hops : ChainHops, family : {"forwarded", "x-forwarded"},
               header : ForwardedHeaders, request : EdgeRequests]
  /\ stage = "cors" /\ client = -1 /\ edgeReply = NoReply

(* Cors::call before the inner service: a preflight is answered here.         *)
CorsCall ==
  /\ stage = "cors"
  /\ IF ClassifyRequest(edge.request) = "preflight"
       THEN /\ edgeReply' = [ApplyOrigin(Reply(204)) EXCEPT !.methods = TRUE]
            /\ stage' = "done"
       ELSE stage' = "proxy" /\ UNCHANGED edgeReply
  /\ UNCHANGED <<edge, client>>

(* TrustedProxy::call: only a trusted peer's headers are read.                *)
TrustedProxyCall ==
  /\ stage = "proxy"
  /\ LET parsed == ParseForwarded(edge.family, edge.header, edge.policy, edge.hops)
         trusted == Trusts(edge.policy, edge.request.peer)
     IN  IF edge.request.peer = -1
           THEN edgeReply' = Reply(500) /\ stage' = "answer" /\ UNCHANGED client
         ELSE IF trusted /\ parsed.kind = "invalid"
           THEN edgeReply' = Reply(400) /\ stage' = "answer" /\ UNCHANGED client
         ELSE /\ client' = IF trusted /\ parsed.kind = "context" THEN parsed.ip ELSE client
              /\ stage' = "service" /\ UNCHANGED edgeReply
  /\ UNCHANGED edge

(* PanicCatch::call around the application, which answers or panics.          *)
PanicCatchCall ==
  /\ stage = "service"
  /\ \E vary \in {{}, {"*"}, {"accept-encoding"}} :
       edgeReply' = IF edge.request.panics THEN Reply(500) ELSE [Reply(200) EXCEPT !.vary = vary]
  /\ stage' = "answer"
  /\ UNCHANGED <<edge, client>>

(* Cors::call after the inner service.                                        *)
CorsAnswer ==
  /\ stage = "answer"
  /\ edgeReply' = IF ClassifyRequest(edge.request) = "actual" THEN ApplyOrigin(edgeReply) ELSE edgeReply
  /\ stage' = "done"
  /\ UNCHANGED <<edge, client>>

EdgeNext == CorsCall \/ TrustedProxyCall \/ PanicCatchCall \/ CorsAnswer
EdgeSpec == EdgeInit /\ [][EdgeNext]_edgeVars

-----------------------------------------------------------------------------
EdgeTypeOK ==
  /\ stage \in {"cors", "proxy", "service", "answer", "done"}
  /\ client \in Addresses \cup {-1}
  /\ edgeReply.status \in {0, 200, 204, 400, 500}

SharesPrefix(a, b, bits) == \E k \in 0..2 ^ bits - 1 :
  LET w == 2 ^ (AddressBits - bits) IN a \in k * w..(k + 1) * w - 1 /\ b \in k * w..(k + 1) * w - 1

(* The client address is believed only along an unbroken chain of trusted     *)
(* proxies: the peer and every address to the right of the chosen one lie in  *)
(* an allowed network, and at most the configured number were passed over.    *)
ClientIsVouchedFor ==
  LET chain == edge.header.chain
      trusted(a) == \E n \in edge.policy.networks : SharesPrefix(a, n.address, n.prefix)
  IN  client # -1 =>
        /\ trusted(edge.request.peer)
        /\ \E i \in DOMAIN chain :
             /\ chain[i] = client
             /\ \A j \in i + 1..Len(chain) : trusted(chain[j])
             /\ Len(chain) - i <= edge.hops
             /\ ~trusted(chain[i]) \/ Len(chain) - i = edge.hops

(* Every response readable across origins says so to caches, whichever layer  *)
(* produced it: preflight, rejection, caught panic or the application.        *)
GrantsVary == stage = "done" /\ edgeReply.grant => edgeReply.vary \cap {"*", "origin"} # {}

-----------------------------------------------------------------------------
(* Fixed-window rate limiting: RateLimitLayer (rustee-rate-limit) over the    *)
(* Lua script of RedisFixedWindowStore (rustee-rate-limit-redis).  Time is in *)
(* milliseconds of Redis, TicksPerSecond of which make the second that the    *)
(* response headers count in.                                                 *)

CONSTANTS LimitKeys, Windows, TicksPerSecond,
          MaxTicks     \* bound on the clock

VARIABLES rate,        \* FixedWindow and StoreFailurePolicy
          tick,        \* Redis time
          counters,    \* key -> [count, expires]; count 0: the key is not there
          calls,       \* key -> the times at which the inner service was called
          limited      \* the last answer of the layer

rateVars == <<rate, tick, counters, calls, limited>>

(* FixedWindow::new admits a positive limit and a positive window.            *)
ValidWindow(w) == w.limit > 0 /\ w.window > 0

RateInit ==
  /\ rate \in [policy : {w \in Windows : ValidWindow(w)}, onFailure : {"open", "closed"}]
  /\ tick = 0
  /\ counters = [k \in LimitKeys |-> [count |-> 0, expires |-> 0]]
  /\ calls = [k \in LimitKeys |-> <<>>]
  /\ limited = [status |-> 0]

(* FIXED_WINDOW_SCRIPT: INCR, PEXPIRE for the first of the window, PTTL.      *)
FixedWindowScript(k) ==
  [count |-> counters[k].count + 1,
   expires |-> IF counters[k].count = 0 THEN tick + rate.policy.window ELSE counters[k].expires]

(* rounded_seconds: any started second counts.                                *)
RoundedSeconds(millis) ==
  millis \div TicksPerSecond + (IF millis % TicksPerSecond = 0 THEN 0 ELSE 1)

Accepted(count) == count <= rate.policy.limit

(* RateLimitDecision::allowed and denied; remaining saturates at zero.        *)
Decision(count, resetAfter) ==
  [allowed |-> Accepted(count),
   remaining |-> IF Accepted(count) /\ count <= rate.policy.limit THEN rate.policy.limit - count ELSE 0,
   resetAfter |-> resetAfter]

(* RedisFixedWindowStore::check and RateLimit::call with its answer.          *)
Check(k) ==
  LET after == FixedWindowScript(k)
      decision == Decision(after.count, after.expires - tick)
      reset == RoundedSeconds(decision.resetAfter)
  IN  /\ counters' = [counters EXCEPT ![k] = after]
      /\ IF decision.allowed
           THEN /\ calls' = [calls EXCEPT ![k] = Append(@, tick)]
                /\ limited' = [status |-> 200, remaining |-> decision.remaining, reset |-> reset]
           ELSE /\ limited' = [status |-> 429, remaining |-> decision.remaining, reset |-> reset,
                               at |-> tick, key |-> k]
                /\ UNCHANGED calls
      /\ UNCHANGED <<rate, tick>>

(* The store fails before or after the script ran: StoreFailurePolicy.        *)
CheckFails(k) ==
  /\ counters' \in {counters, [counters EXCEPT ![k] = FixedWindowScript(k)]}
  /\ limited' = [status |-> IF rate.onFailure = "open" THEN 200 ELSE 503]
  /\ UNCHANGED <<rate, tick, calls>>

(* No key: rejected without asking the store.                                 *)
KeyMissing == limited' = [status |-> 400] /\ UNCHANGED <<rate, tick, counters, calls>>

(* Time passes in Redis, and keys whose TTL has run out are gone.             *)
RateTick ==
  /\ tick < MaxTicks
  /\ tick' = tick + 1
  /\ counters' = [k \in LimitKeys |->
       IF counters[k].expires <= tick' THEN [count |-> 0, expires |-> 0] ELSE counters[k]]
  /\ UNCHANGED <<rate, calls, limited>>

(* Counters are bounded for the model: a window's count stops two above.      *)
RateNext ==
  \/ \E k \in LimitKeys :
       counters[k].count < rate.policy.limit + 2 /\ (Check(k) \/ CheckFails(k))
  \/ KeyMissing
  \/ RateTick
RateSpec == RateInit /\ [][RateNext]_rateVars

-----------------------------------------------------------------------------
RateTypeOK ==
  /\ tick \in 0..MaxTicks
  /\ \A k \in LimitKeys : counters[k].count \in 0..rate.policy.limit + 2
  /\ limited.status \in {0, 200, 400, 429, 503}

(* However requests, lost answers and expiry interleave, no stretch of time   *)
(* as long as a window sees more than two windows' worth of admitted calls    *)
(* for one key (INCR, PEXPIRE and the comparison in check together).          *)
AdmissionIsBounded ==
  \A k \in LimitKeys : \A t \in 0..MaxTicks :
    LET within == {i \in DOMAIN calls[k] : calls[k][i] \in t..t + rate.policy.window - 1}
    IN  Cardinality(within) <= 2 * rate.policy.limit

(* A client refused with 429 that waits the Retry-After seconds finds its     *)
(* window over, whatever was asked for that key in the meantime.              *)
RetryAfterIsEnough ==
  limited.status = 429 /\ tick >= limited.at + limited.reset * TicksPerSecond
    => counters[limited.key].count = 0

-----------------------------------------------------------------------------
(***************************************************************************)
(* Request ids and W3C trace contexts: TraceContextLayer and               *)
(* RequestIdLayer around a handler, the helpers that pass the current span *)
(* on to outbound HTTP requests, jobs and events, and the wrapped handlers *)
(* that continue it.  Requests and deliveries take turns on one runtime    *)
(* thread, whose stack of entered spans decides what the current span is.  *)
(*                                                                         *)
(* A value is [len, ascii, trace, span]: the length of a field, whether it *)
(* is ASCII and what it says: a span of a trace, or "none" when the        *)
(* propagator would not accept it.  The tracing and OpenTelemetry          *)
(* libraries are external: a new span is a child of the current one,       *)
(* set_parent replaces that, a child inherits the trace and its state.     *)
(***************************************************************************)

CONSTANTS
  TraceRequests,        \* the requests of a run
  TraceFieldsTried,     \* [parents, states]: the header values that arrive
  LayerOrders,          \* subset of {"traceOutside", "traceInside", "noTrace"}
  MaxTraceparentLen,    \* MAX_TRACEPARENT_LEN
  MaxTracestateLen,     \* MAX_TRACESTATE_LEN
  MaxCarriers           \* bound on the jobs and events of a run

VARIABLES
  layerOrder,   \* how the application stacked the layers
  exporting,    \* the OpenTelemetry layer is installed
  traced,       \* [request -> its headers, span and where it is]
  entered,      \* the spans entered on the thread, innermost last
  carriers,     \* the jobs and events, with the fields they carry
  outbound      \* the trace headers of requests sent to others

traceVars == <<layerOrder, exporting, traced, entered, carriers, outbound>>

NoFields == [parents |-> <<>>, states |-> <<>>]
NoContext == [trace |-> "none", span |-> "none", states |-> <<>>]
NoSpan == [name |-> "none", parent |-> "none", trace |-> "none", states |-> <<>>]

CurrentSpan == IF entered = <<>> THEN NoSpan ELSE Last(entered)

\* info_span! and, for a remote context, set_parent, which without the
\* OpenTelemetry layer does nothing.  A root's trace has the name of its span.
NewSpan(name, remote) ==
  LET parent == IF exporting /\ remote # NoContext THEN remote
                  ELSE [trace |-> CurrentSpan.trace, span |-> CurrentSpan.name,
                        states |-> CurrentSpan.states]
  IN  [name |-> name, parent |-> parent.span,
       trace |-> IF parent.span = "none" THEN name ELSE parent.trace, states |-> parent.states]
-----------------------------------------------------------------------------
(* Fields and contexts *)

IsBoundedValue(v, limit) == v.len <= limit /\ v.ascii

\* The length of the values joined by commas; nothing precedes the first that
\* is not empty.
JoinedLen(values) ==
  FoldLeft(LAMBDA n, v : v.len + (IF n = 0 THEN 0 ELSE n + 1), 0, values)

\* one_bounded_header
OneBoundedHeader(values) == Len(values) = 1 /\ IsBoundedValue(values[1], MaxTraceparentLen)

\* joined_bounded_headers: an error when one value is not ASCII or the joined
\* text grows too long.
JoinedBoundedHeaders(values) ==
  /\ \A i \in DOMAIN values : values[i].ascii
  /\ JoinedLen(values) <= MaxTracestateLen

\* remote_parent: one parent, all states in wire order, and a valid context.
RemoteParent(headers) ==
  IF /\ OneBoundedHeader(headers.parents)
     /\ JoinedBoundedHeaders(headers.states)
     /\ headers.parents[1].trace # "none"
    THEN [trace |-> headers.parents[1].trace, span |-> headers.parents[1].span,
          states |-> headers.states]
    ELSE NoContext

\* capture_w3c_context: nothing for an invalid context, and no state that is
\* too long.  A span's own parent field is one short value.
CaptureW3cContext(span) ==
  IF ~exporting \/ span.name = "none" THEN NoFields
    ELSE [parents |-> <<[len |-> 1, ascii |-> TRUE, trace |-> span.trace, span |-> span.name]>>,
          states |-> IF JoinedLen(span.states) <= MaxTracestateLen THEN span.states ELSE <<>>]

\* extract_w3c_context: both fields bounded, and a valid context.
ExtractW3cContext(fields) ==
  IF /\ fields.parents # <<>>
     /\ IsBoundedValue(fields.parents[1], MaxTraceparentLen)
     /\ JoinedBoundedHeaders(fields.states)
     /\ fields.parents[1].trace # "none"
    THEN [trace |-> fields.parents[1].trace, span |-> fields.parents[1].span,
          states |-> fields.states]
    ELSE NoContext

\* inject_context: what the headers held before is removed, an invalid context
\* adds nothing, and an empty state is no header.
InjectContext(span, headers) ==
  IF ~exporting \/ span.name = "none" THEN NoFields
    ELSE [CaptureW3cContext(span) EXCEPT !.states = span.states]
-----------------------------------------------------------------------------
(* Requests *)

ThreadIsFree == \A r \in TraceRequests : traced[r].at # "polled"

\* TraceContextService::call: the parent for a request span made further in.
\* Inside the request id layer it comes too late.
ParentForRequest(headers) ==
  IF layerOrder = "traceOutside" THEN RemoteParent(headers) ELSE NoContext

\* RequestIdService::call creates the span before the request is polled.
Receive(r, headers) ==
  /\ traced[r].at = "none"
  /\ ThreadIsFree
  /\ traced' = [traced EXCEPT ![r] = [at |-> "waiting", headers |-> headers,
                                      span |-> NewSpan(r, ParentForRequest(headers))]]
  /\ UNCHANGED <<layerOrder, exporting, entered, carriers, outbound>>

\* Instrumented: every poll of the request enters its span and leaves it.
BeginPoll(r) ==
  /\ traced[r].at = "waiting"
  /\ ThreadIsFree
  /\ traced' = [traced EXCEPT ![r].at = "polled"]
  /\ entered' = Append(entered, traced[r].span)
  /\ UNCHANGED <<layerOrder, exporting, carriers, outbound>>

EndPoll(r, at) ==
  /\ traced[r].at = "polled"
  /\ traced' = [traced EXCEPT ![r].at = at]
  /\ entered' = Front(entered)
  /\ UNCHANGED <<layerOrder, exporting, carriers, outbound>>

\* The handler sends a request of its own, with headers it made or copied from
\* the request it serves.
InjectCurrentContext(r, before) ==
  /\ traced[r].at = "polled"
  /\ \A sent \in outbound : sent.request # r
  /\ outbound' = outbound \cup {[request |-> r, fields |-> InjectContext(CurrentSpan, before)]}
  /\ UNCHANGED <<layerOrder, exporting, traced, entered, carriers>>

Carry(r, kind) ==
  /\ traced[r].at = "polled"
  /\ Len(carriers) < MaxCarriers
  /\ carriers' = Append(carriers, [request |-> r, kind |-> kind, at |-> "queued", span |-> NoSpan,
                                   fields |-> CaptureW3cContext(CurrentSpan)])
  /\ UNCHANGED <<layerOrder, exporting, traced, entered, outbound>>

\* with_current_trace_context of the jobs and of the events.
EnqueueTraced(r) == Carry(r, "job")
PublishTraced(r) == Carry(r, "event")

\* Another program's job or event, whatever its fields hold.
ForeignCarrier(fields) ==
  /\ Len(carriers) < MaxCarriers
  /\ carriers' = Append(carriers, [request |-> "none", kind |-> "job", at |-> "queued",
                                   span |-> NoSpan, fields |-> fields])
  /\ UNCHANGED <<layerOrder, exporting, traced, entered, outbound>>

\* TraceContextHandler::handle: the span is made when the handler is polled.
Continue(i) ==
  /\ carriers[i].at = "queued"
  /\ ThreadIsFree
  /\ carriers' = [carriers EXCEPT ![i].at = "handled",
                    ![i].span = NewSpan("delivery", ExtractW3cContext(carriers[i].fields))]
  /\ UNCHANGED <<layerOrder, exporting, traced, entered, outbound>>

HandleTracedJob(i) == carriers[i].kind = "job" /\ Continue(i)
HandleTracedEvent(i) == carriers[i].kind = "event" /\ Continue(i)
-----------------------------------------------------------------------------
TraceInit ==
  /\ layerOrder \in LayerOrders
  /\ exporting \in BOOLEAN
  /\ traced = [r \in TraceRequests |-> [at |-> "none", headers |-> NoFields, span |-> NoSpan]]
  /\ entered = <<>>
  /\ carriers = <<>>
  /\ outbound = {}

TraceNext ==
  \/ \E r \in TraceRequests :
       \/ \E headers \in TraceFieldsTried : Receive(r, headers)
       \/ BeginPoll(r)
       \/ \E at \in {"waiting", "done"} : EndPoll(r, at)
       \/ \E before \in {NoFields, traced[r].headers} : InjectCurrentContext(r, before)
       \/ EnqueueTraced(r) \/ PublishTraced(r)
  \/ \E fields \in TraceFieldsTried : ForeignCarrier(fields)
  \/ \E i \in DOMAIN carriers : HandleTracedJob(i) \/ HandleTracedEvent(i)
-----------------------------------------------------------------------------
TraceTypeOK ==
  /\ layerOrder \in LayerOrders /\ exporting \in BOOLEAN
  /\ \A r \in TraceRequests : traced[r].at \in {"none", "waiting", "polled", "done"}
  /\ Len(entered) <= 1
  /\ \A i \in DOMAIN carriers : carriers[i].at \in {"queued", "handled"}

(* A request's span continues the trace its headers name when they hold one   *)
(* parent and a bounded state, and otherwise starts a trace of its own; a     *)
(* delivery's span is a child of the request that enqueued it, whatever else  *)
(* the thread was doing.                                                      *)
SpansJoinTheirCause ==
  /\ \A r \in TraceRequests : traced[r].at # "none" =>
       IF ~exporting \/ ParentForRequest(traced[r].headers) = NoContext
         THEN traced[r].span.parent = "none" /\ traced[r].span.trace = r
         ELSE traced[r].span.trace = traced[r].headers.parents[1].trace
  /\ \A i \in DOMAIN carriers :
       carriers[i].at = "handled" /\ carriers[i].request # "none" =>
         IF exporting THEN /\ carriers[i].span.parent = carriers[i].request
                           /\ carriers[i].span.trace = traced[carriers[i].request].span.trace
                      ELSE carriers[i].span.parent = "none"

(* An outbound request carries the context of the request that sent it or     *)
(* none, never the headers that its own caller sent.                          *)
OutboundIsOurs ==
  \A sent \in outbound :
    /\ exporting <=> sent.fields.parents # <<>>
    /\ exporting => sent.fields.parents[1].span = sent.request
    /\ ~exporting => sent.fields.states = <<>>

(* The trace state that a delivery continues with is bounded, and it is all   *)
(* of what arrived with its request, in order.                                *)
StateIsWhole ==
  \A i \in DOMAIN carriers : carriers[i].at = "handled" =>
    /\ JoinedLen(carriers[i].span.states) <= MaxTracestateLen
    /\ carriers[i].request # "none" /\ carriers[i].span.states # <<>> =>
         carriers[i].span.states = traced[carriers[i].request].headers.states

=============================================================================
