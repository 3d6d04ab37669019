------------------------------ MODULE ZenohRest ------------------------------
(***************************************************************************)
(* The HTTP surface over Zenoh (/api/zenoh/v1/...): authorization and      *)
(* audit, the request budget, the extractors (selector, query options,     *)
(* content negotiation, content metadata), the operation on the session,   *)
(* and the rendering of replies.  ServerRuntime has the session itself.    *)
(*                                                                         *)
(* A media type is [type, sub, suffix, params]; a q value is its digits,   *)
(* 10 being the point; a content coding is a token, "" being invalid.      *)
(***************************************************************************)
EXTENDS Options, FiniteSetsExt

CONSTANTS ZrCalls,      \* concurrent requests
          ZrRequests(_, _),  \* what each request may carry, by workload
          ZrPermits,    \* size of the Zenoh REST budget
          ZrSettings    \* admin space settings, whether a session is connected,
                        \* whether audit events are kept (onboarding is
                        \* configured), and the workload

VARIABLES zrConf,     \* one of the settings
          zrCall,     \* the requests: stage, request, response
          zrStored,   \* the sample at the key: None before any PUT
          zrSource,   \* the headers of the PUT that stored it
          zrAudit,    \* audit events, as calls with an outcome
          zrDone      \* calls whose write took effect

zrVars == <<zrConf, zrCall, zrStored, zrSource, zrAudit, zrDone>>

-----------------------------------------------------------------------------
\* Content negotiation.

ServerRepresentation == {"sse", "html", "json"}

MediaType(rep) ==
    CASE rep = "sse"  -> <<"text", "event-stream">>
      [] rep = "html" -> <<"text", "html">>
      [] rep = "json" -> <<"application", "json">>

ServerPreference(rep) == CASE rep = "sse" -> 0 [] rep = "html" -> 1 [] rep = "json" -> 2

ParseZeroPrefixed(decimals) ==
    IF Len(decimals) > 3 \/ \E i \in DOMAIN decimals : decimals[i] > 9
    THEN Err
    ELSE LET digit(i) == IF i <= Len(decimals) THEN decimals[i] ELSE 0
         IN 100 * digit(1) + 10 * digit(2) + digit(3)

\* Thousandths, or Err.
ParseQValue(v) ==
    CASE v = <<0>> -> 0
      [] v = <<1>> -> 1000
      [] Len(v) > 1 /\ v[1] = 0 /\ v[2] = 10 -> ParseZeroPrefixed(SubSeq(v, 3, Len(v)))
      [] Len(v) \in 2..5 /\ v[1] = 1 /\ v[2] = 10
           /\ (\A i \in 3..Len(v) : v[i] = 0) -> 1000
      [] OTHER -> Err

\* A range without a slash, or with a q that does not parse, is dropped.
ParseRange(r, order) ==
    LET q == IF r.q = None THEN 1000 ELSE ParseQValue(r.q)
    IN IF r.range = None \/ q = Err THEN None
       ELSE [range |-> r.range, q |-> q, order |-> order]

Matches(r, rep) ==
    LET m == MediaType(rep)
        exact == r.range = m
    IN CASE rep = "sse" /\ ~exact -> None
         [] r.range = <<"*", "*">> -> 0
         [] r.range = <<m[1], "*">> -> 1
         [] exact -> 2
         [] OTHER -> None

\* Lexicographic order on sequences of numbers.
Above(a, b) == \E i \in DOMAIN a : a[i] > b[i] /\ \A j \in 1..(i - 1) : a[j] = b[j]

Best(S, Key(_)) == CHOOSE x \in S : \A y \in S \ {x} : ~Above(Key(y), Key(x))


ScoreRepresentation(rep, ranges) ==
    LET matching == {r \in ranges : Matches(r, rep) # None}
        best == Best(matching, LAMBDA r : <<Matches(r, rep), r.q, 0 - r.order>>)
    IN IF matching = {} \/ best.q = 0 THEN None
       ELSE <<best.q, Matches(best, rep), 0 - best.order, ServerPreference(rep)>>

NegotiateResponse(accept) ==
    LET ranges == {ParseRange(accept[i], i) : i \in DOMAIN accept} \ {None}
        offered == {rep \in ServerRepresentation : ScoreRepresentation(rep, ranges) # None}
    IN IF offered = {} THEN "json"
       ELSE Best(offered, LAMBDA rep : ScoreRepresentation(rep, ranges))

-----------------------------------------------------------------------------
\* Selectors, query options and content metadata.

EnsureAdminSpaceAllowed(op) ==
    CASE ~zrConf.route -> "forbidden"
      [] ~zrConf.admin -> "unavailable"
      [] ~(op \in zrConf.perms) -> "forbidden"
      [] OTHER -> "ok"

\* "@/..." names the admin space; "@/local" needs the identity of the session.
ResolveAdminSelector(op) ==
    LET allowed == EnsureAdminSpaceAllowed(op)
    IN IF allowed # "ok" THEN allowed
       ELSE IF zrConf.connected THEN "ok" ELSE "unavailable"

ExtractSelector(key, op) ==
    CASE key = "empty" -> "bad_request"
      [] key = "@/local" -> ResolveAdminSelector(op)
      [] key = "invalid" -> "bad_request"
      [] OTHER -> "ok"

\* Liveliness takes no selector parameters but its own.
ParseOptions(params) ==
    IF "_liveliness" \in params
    THEN IF params \subseteq {"_liveliness", "_history", "_raw"}
         THEN [kind |-> "liveliness", raw |-> "_raw" \in params, history |-> "_history" \in params]
         ELSE Err
    ELSE [kind |-> "standard", raw |-> "_raw" \in params, history |-> FALSE]

\* The `subtype` of a media type leaves its structured suffix out.
SplitContentType(c) ==
    [media |-> [type |-> c.type, sub |-> c.sub], params |-> c.params]

NormalizeCodings(codings) ==
    IF codings = <<>> \/ \E i \in DOMAIN codings : codings[i] = "" THEN None ELSE codings

\* Content metadata of a request: with a content type that does not parse, the
\* content encoding is lost too.
RequestMetadata(r) ==
    IF r.ctype = Err THEN [media |-> None, codings |-> None, attachment |-> None]
    ELSE [media |-> IF r.ctype = None THEN None ELSE SplitContentType(r.ctype).media,
          codings |-> NormalizeCodings(r.codings),
          attachment |-> IF r.ctype = None \/ r.ctype.params = <<>> THEN None
                         ELSE r.ctype.params]

OctetStream == [type |-> "application", sub |-> "octet-stream"]

IntoTransport(meta, default) ==
    [media |-> IF meta.media = None THEN default ELSE meta.media,
     schema |-> meta.codings, attachment |-> meta.attachment]

\* The headers of a raw reply, from the encoding and the attachment.
FromZenohMetadata(sample) ==
    [ctype |-> [type |-> sample.media.type, sub |-> sample.media.sub, suffix |-> None,
                params |-> IF sample.attachment = None THEN <<>> ELSE sample.attachment],
     codings |-> IF sample.schema = None THEN None ELSE NormalizeCodings(sample.schema)]

\* JSON values are decoded for the plain JSON and text encodings only.
PayloadToJson(sample) ==
    CASE sample.schema # None -> "base64"
      [] sample.media \in {[type |-> "application", sub |-> "json"],
                           [type |-> "text", sub |-> "json"]} -> "json"
      [] sample.media = [type |-> "text", sub |-> "plain"] -> "text"
      [] OTHER -> "base64"

-----------------------------------------------------------------------------
\* The request.

Write(r) == r # None /\ r.method \in {"PUT", "DELETE"}

Needs(r) == IF r.method = "GET" THEN "read" ELSE "write"

ZrStage(c) == zrCall[c].stage

ZrInit ==
    /\ zrConf \in ZrSettings
    /\ zrCall = [c \in ZrCalls |-> [stage |-> "idle", r |-> None, reply |-> None, cmd |-> "none"]]
    /\ zrStored = None
    /\ zrSource = None
    /\ zrAudit = {}
    /\ zrDone = {}

Goes(c, stage) == zrCall' = [zrCall EXCEPT ![c].stage = stage]

\* A response: its status, representation, headers, rendered value, and the
\* PUT its sample is from.
Status(s) == [status |-> s, as |-> "none", headers |-> None, value |-> None, from |-> None]

\* It is on its way out; the permit is free again.
Responds(c, reply) == zrCall' = [zrCall EXCEPT ![c].stage = "responding", ![c].reply = reply]

\* Without a valid session nothing is audited; a denial is.
Authorize(c) ==
    /\ ZrStage(c) = "idle"
    /\ \E r \in ZrRequests(zrConf.load, c) :
          LET known == r.grants # None
              allowed == known /\ Needs(r) \in r.grants
          IN zrCall' = [zrCall EXCEPT ![c] =
                  [stage |-> CASE allowed -> "authorized" [] known -> "denying" [] OTHER -> "answered",
                   r |-> r,
                   reply |-> IF allowed THEN None
                             ELSE Status(IF known THEN "forbidden" ELSE "unauthorized"),
                   cmd |-> "none"]]
    /\ UNCHANGED <<zrConf, zrStored, zrSource, zrAudit, zrDone>>

HoldsPermit == {c \in ZrCalls : ZrStage(c) \in {"admitted", "ready", "sent"}}

\* `try_acquire`: no waiting.
ShedExcess(c) ==
    /\ ZrStage(c) = "authorized"
    /\ IF Cardinality(HoldsPermit) < ZrPermits THEN Goes(c, "admitted") ELSE Responds(c, Status("unavailable"))
    /\ UNCHANGED <<zrConf, zrStored, zrSource, zrAudit, zrDone>>

\* The extractors, in the order of the handler's parameters.
Extract(c) ==
    LET r == zrCall[c].r
        selector == ExtractSelector(r.key, IF Write(r) THEN "write" ELSE "read")
    IN /\ ZrStage(c) = "admitted"
       /\ IF selector # "ok" THEN Responds(c, Status(selector))
          ELSE IF ~Write(r) /\ ParseOptions(r.params) = Err THEN Responds(c, Status("bad_request"))
          ELSE Goes(c, "ready")
       /\ UNCHANGED <<zrConf, zrStored, zrSource, zrAudit, zrDone>>

\* A write is a command to the supervisor, which runs it whoever waits for it.
SendWriteUnawaited(c) ==
    /\ ZrStage(c) = "ready" /\ Write(zrCall[c].r)
    /\ zrCall' = [zrCall EXCEPT ![c].stage = "responding", ![c].reply = Status("ok"),
                                ![c].cmd = IF zrConf.connected THEN "queued" ELSE @]
    /\ UNCHANGED <<zrConf, zrStored, zrSource, zrAudit, zrDone>>

SendWrite(c) ==
    /\ ZrStage(c) = "ready" /\ Write(zrCall[c].r)
    /\ IF zrConf.connected
       THEN zrCall' = [zrCall EXCEPT ![c].stage = "sent", ![c].cmd = "queued"]
       ELSE Responds(c, Status("unavailable"))
    /\ UNCHANGED <<zrConf, zrStored, zrSource, zrAudit, zrDone>>

\* The command has run, or was refused; a caller that is still there is told.
Told(c, status) ==
    zrCall' = [zrCall EXCEPT ![c].cmd = "none",
                 ![c].stage = IF @ = "sent" THEN "responding" ELSE @,
                 ![c].reply = IF ZrStage(c) = "sent" THEN Status(status) ELSE @]

PerformWrite(c) ==
    LET r == zrCall[c].r IN
    /\ zrCall[c].cmd = "queued"
    /\ \/ /\ zrStored' = IF r.method = "PUT" THEN IntoTransport(RequestMetadata(r), OctetStream) ELSE None
          /\ zrSource' = IF r.method = "PUT" THEN r ELSE None
          /\ zrDone' = zrDone \cup {c}
          /\ Told(c, "ok")
       \/ Told(c, "unavailable") /\ UNCHANGED <<zrStored, zrSource, zrDone>>
    /\ UNCHANGED <<zrConf, zrAudit>>

\* The reply of a query: a stream, the first sample raw, or all rendered.
Rendered(r) ==
    LET options == ParseOptions(r.params)
        rep == NegotiateResponse(r.accept)
        sample == IF options.kind = "liveliness" THEN None ELSE zrStored
        ok == [Status("ok") EXCEPT !.as = rep]
    IN CASE rep = "sse" -> ok
         [] sample = None -> [ok EXCEPT !.as = IF options.raw THEN "raw" ELSE rep]
         [] rep # "sse" /\ sample # None /\ options.raw ->
              [ok EXCEPT !.as = "raw", !.headers = FromZenohMetadata(sample), !.from = zrSource]
         [] OTHER -> [ok EXCEPT !.value = PayloadToJson(sample)]

Query(c) ==
    LET r == zrCall[c].r IN
    /\ ZrStage(c) = "ready" /\ ~Write(r)
    /\ \/ ParseOptions(r.params).kind = "liveliness" /\ r.body /\ Responds(c, Status("bad_request"))
       \/ /\ ~(ParseOptions(r.params).kind = "liveliness" /\ r.body)
          /\ Responds(c, IF zrConf.connected THEN Rendered(r) ELSE Status("unavailable"))
       \/ zrConf.connected /\ Responds(c, Status("timeout"))
    /\ UNCHANGED <<zrConf, zrStored, zrSource, zrAudit, zrDone>>

Outcome(c) ==
    CASE ZrStage(c) = "denying"         -> "denied"
      [] zrCall[c].reply.status = "ok" -> "succeeded"
      [] OTHER                         -> "failed"

\* The audit event is stored before the response leaves.  Without onboarding
\* there is none, and a store that refuses it is only logged.
RecordAuditEvent(c) ==
    /\ ZrStage(c) \in {"denying", "responding"}
    /\ Goes(c, "recorded")
    /\ \/ zrConf.onboarding /\ zrAudit' = zrAudit \cup {<<c, Outcome(c)>>}
       \/ UNCHANGED zrAudit
    /\ UNCHANGED <<zrConf, zrStored, zrSource, zrDone>>

Return(c) ==
    /\ ZrStage(c) = "recorded"
    /\ Goes(c, "answered")
    /\ UNCHANGED <<zrConf, zrStored, zrSource, zrAudit, zrDone>>

\* The timeout layer is outside authorization: what it cuts off, the recording
\* of the event included, goes no further.
RequestTimesOut(c) ==
    /\ ZrStage(c) \notin {"idle", "answered", "cut"}
    /\ zrCall' = [zrCall EXCEPT ![c].stage = "cut", ![c].reply = Status("timeout")]
    /\ UNCHANGED <<zrConf, zrStored, zrSource, zrAudit, zrDone>>

ZrNext == \E c \in ZrCalls :
    \/ Authorize(c) \/ ShedExcess(c) \/ Extract(c) \/ SendWrite(c) \/ PerformWrite(c)
    \/ Query(c) \/ RecordAuditEvent(c) \/ Return(c) \/ RequestTimesOut(c)

ZrSpec == ZrInit /\ [][ZrNext]_zrVars

-----------------------------------------------------------------------------
\* The quality a client gives a representation: the highest q among the most
\* specific of the ranges that match it.
Quality(rep, accept) ==
    LET ranges == {ParseRange(accept[i], i) : i \in DOMAIN accept} \ {None}
        matching == {r \in ranges : Matches(r, rep) # None}
        specific == {r \in matching : \A s \in matching : Matches(s, rep) <= Matches(r, rep)}
    IN Max({0} \cup {r.q : r \in specific})

\* What a write did, what its caller is told and what the audit log says of it
\* agree, also when the request is cut off while the supervisor still has its
\* command: an event is the only one of its call, says "succeeded" only of a
\* write that took effect, and "failed" or "denied" only of one that did not
\* and never will.
WritesAreAudited ==
    \A c \in ZrCalls :
        LET call == zrCall[c] IN
        /\ Cardinality({e \in zrAudit : e[1] = c}) <= 1
        /\ Write(call.r) =>
              /\ call.stage = "answered" /\ call.reply.status = "ok" => c \in zrDone
              /\ <<c, "succeeded">> \in zrAudit => c \in zrDone
              /\ \A o \in {"failed", "denied"} :
                    <<c, o>> \in zrAudit => c \notin zrDone /\ call.cmd = "none"

=============================================================================
