------------------------------ MODULE AccessLog -----------------------------
(***************************************************************************)
(* The two middlewares every HTTP request passes through: RequestId binds  *)
(* an id to the log context of the worker and echoes it, HttpAccessLog     *)
(* writes one line per request, with headers and JSON bodies redacted when *)
(* LOG_HTTP_BODY=1.  A worker serves one request at a time; the workers    *)
(* share one log.                                                          *)
(*                                                                         *)
(* Django makes an answer of what a layer raises just outside that layer,  *)
(* and writes a line about it there: between the two middlewares for what  *)
(* HttpAccessLog raises, below both for a view.  An error that a view      *)
(* answers by itself gets that line when both middlewares have returned.   *)
(*                                                                         *)
(* How headers and bodies are redacted is the subject of Redaction.        *)
(***************************************************************************)
EXTENDS Redaction

CONSTANTS
  Workers, Requests,
  RequestIds,    \* ids a client may send as X-Request-ID
  Fresh,         \* Fresh[r]: the id uuid4() gives r
  HeaderMaps,    \* the headers requests and responses come with
  RequestBodies, \* RequestBodies[r]: the bodies r may come with
  ResponseBodies,
  Statuses,
  BodyLimit,     \* _BODY_BYTE_LIMIT
  None

ASSUME RequestsAssumption ==
  /\ None \notin RequestIds \cup Requests
  /\ BodyLimit \in Nat /\ Statuses \subseteq Nat

Invalid == [kind |-> "invalid"]
EmptyBody == [type |-> "json", size |-> 0, value |-> Invalid, cut |-> Invalid]

\* How a body arrives: all of it, more than request.body takes, or only the
\* beginning, because the client hangs up.
Arrivals == {"whole", "large", "broken"}
Ask(id, headers, body, arrives) ==
  [id |-> id, headers |-> headers, body |-> body, arrives |-> arrives]
Answer(status, id) == [status |-> status, id |-> id]

ASSUME NoneAssumption ==
  /\ \A r \in Requests : \A id \in RequestIds \cup {None}, headers \in HeaderMaps,
       body \in RequestBodies[r], arrives \in Arrivals :
         None # Ask(id, headers, body, arrives)
  /\ \A r \in Requests : None # Fresh[r]

(***************************************************************************)
(* Decoding for the log.  A body has a size, the value it holds (or        *)
(* Invalid), and the value its first BodyLimit bytes hold: Invalid where   *)
(* the limit cuts it, itself where only padding is cut off.  Only errors   *)
(* of decoding are caught: what nests too deeply raises RecursionError.    *)
(***************************************************************************)
Head4K(body) == IF body.size > BodyLimit THEN body.cut ELSE body.value

\* Sizes are numbers, and what is decoded as JSON is a JSON value.
ASSUME BodiesAssumption ==
  /\ \A r \in Requests : \A body \in RequestBodies[r] :
       /\ body.size \in Nat
       /\ body.type = "json" /\ body.size > 0 => Head4K(body) \in Json \cup {Invalid, Bottomless}
  /\ \A body \in ResponseBodies :
       body.type = "json" /\ ~body.streaming =>
         Head4K(body) \in Json \cup {Invalid, Bottomless}

Text(what, truncated) == [dump |-> "text", what |-> what, truncated |-> truncated]
Dump(value, truncated) == [dump |-> "json", value |-> value, truncated |-> truncated]

DecodeBody(body) ==
  CASE body.size = 0 -> Text("empty", FALSE)
    [] body.size > 0 /\ body.type # "json" -> Text("summary", body.size > BodyLimit)
    [] body.size > 0 /\ body.type = "json" /\ Head4K(body) = Invalid ->
         Text("invalid json", FALSE)
    [] OTHER -> Dump(RedactBody(Head4K(body)), FALSE)

DecodeResponseBody(body) ==
  CASE body.type # "json" -> Text("summary", FALSE)
    [] body.type = "json" /\ body.streaming -> Text("streaming", FALSE)
    [] body.type = "json" /\ ~body.streaming /\ Head4K(body) = Invalid ->
         Text("invalid json", FALSE)
    [] OTHER -> Dump(RedactBody(Head4K(body)), body.size > BodyLimit)

RequestRaises(body) == body.size > 0 /\ body.type = "json" /\ TooDeep(Head4K(body))
ResponseRaises(body) == body.type = "json" /\ ~body.streaming /\ TooDeep(Head4K(body))

LevelFor(status) ==
  IF status >= 500 THEN "ERROR" ELSE IF status >= 400 THEN "WARNING" ELSE "INFO"

-----------------------------------------------------------------------------
VARIABLES
  dumpBody,  \* LOG_HTTP_BODY when the middleware was made
  serving,   \* serving[w]: the request worker w serves, or None
  stage,     \* stage[w]: where it is
  context,   \* context[w]: the request_id of the log context, "-" outside
  stream,    \* stream[w]: the body of the request: "unread", "cached", "consumed"
  asked,     \* asked[r]: what the client has sent, None before
  result,    \* result[w]: what the view has answered
  answers,   \* answers[r]: status and X-Request-ID, None before
  log,       \* the lines written
  viewed     \* history: viewed[r]: the body the view has been given, None if none

vars == <<dumpBody, serving, stage, context, stream, asked, result, answers, log, viewed>>

NoResult == [status |-> 0, headers |-> None, body |-> None, logged |-> FALSE]

Init ==
  /\ dumpBody \in BOOLEAN
  /\ serving = [w \in Workers |-> None]
  /\ stage = [w \in Workers |-> "idle"]
  /\ context = [w \in Workers |-> "-"]
  /\ stream = [w \in Workers |-> "unread"]
  /\ asked = [r \in Requests |-> None]
  /\ result = [w \in Workers |-> NoResult]
  /\ answers = [r \in Requests |-> None]
  /\ log = {}
  /\ viewed = [r \in Requests |-> None]

Goto(w, from, to) == stage[w] = from /\ stage' = [stage EXCEPT ![w] = to]
Asked(w) == asked[serving[w]]

\* A line of the application, or of Django, as w has its context now.
Line(w, kind) == [kind |-> kind, by |-> serving[w], id |-> context[w]]

\* A request arrives at an idle worker.
Accept(w, r) ==
  /\ Goto(w, "idle", "bind")
  /\ asked[r] = None
  /\ \E id \in RequestIds \cup {None}, headers \in HeaderMaps,
        body \in RequestBodies[r], arrives \in Arrivals :
       /\ arrives = "large" => body.size > BodyLimit
       /\ arrives = "broken" => body.size > 0
       /\ asked' = [asked EXCEPT ![r] = Ask(id, headers, body, arrives)]
  /\ serving' = [serving EXCEPT ![w] = r]
  /\ stream' = [stream EXCEPT ![w] = "unread"]
  /\ UNCHANGED <<dumpBody, context, result, answers, log, viewed>>

\* RequestIdMiddleware: the id of the client or a fresh one.
BindId(w) ==
  /\ Goto(w, "bind", "body")
  /\ context' = [context EXCEPT ![w] =
                   IF Asked(w).id # None THEN Asked(w).id ELSE Fresh[serving[w]]]
  /\ UNCHANGED <<dumpBody, serving, stream, asked, result, answers, log, viewed>>

\* An exception of HttpAccessLogMiddleware is made an answer outside of it, and
\* a line about it written, still within RequestIdMiddleware.
Raise(w, status) ==
  /\ stage' = [stage EXCEPT ![w] = "echo"]
  /\ result' = [result EXCEPT ![w] = [NoResult EXCEPT !.status = status, !.logged = TRUE]]
  /\ log' = log \cup {Line(w, "django")}
  /\ UNCHANGED <<dumpBody, serving, context, stream, asked, answers, viewed>>

\* request.body raises RequestDataTooBig, a bad request, or UnreadablePostError.
RefuseBody(w) ==
  /\ stage[w] = "body" /\ dumpBody
  /\ \/ Asked(w).arrives = "large" /\ Raise(w, 400)
     \/ Asked(w).arrives = "broken" /\ Raise(w, 500)

\* Slip: the body is taken from the stream and not kept.
DrainBody(w) ==
  /\ Goto(w, "body", "view")
  /\ dumpBody => Asked(w).arrives = "whole"
  /\ stream' = [stream EXCEPT ![w] = IF dumpBody THEN "consumed" ELSE @]
  /\ UNCHANGED <<dumpBody, serving, context, asked, result, answers, log, viewed>>

\* HttpAccessLogMiddleware reads the body up front and Django keeps it.
ReadBody(w) ==
  /\ Goto(w, "body", "view")
  /\ dumpBody => Asked(w).arrives = "whole"
  /\ stream' = [stream EXCEPT ![w] = IF dumpBody THEN "cached" ELSE @]
  /\ UNCHANGED <<dumpBody, serving, context, asked, result, answers, log, viewed>>

\* A line of the application, written while w serves a request or between two.
Remark(w) ==
  /\ stage[w] \in {"idle", "view"}
  /\ log' = log \cup {Line(w, "app")}
  /\ UNCHANGED <<dumpBody, serving, stage, context, stream, asked, result, answers, viewed>>

\* A view that wants the body gets what is cached or left in the stream, which
\* may be more than request.body would take.
BodyIsGiven(w) ==
  \/ UNCHANGED <<stream, viewed>>
  \/ /\ Asked(w).arrives # "broken"
     /\ viewed' = [viewed EXCEPT ![serving[w]] =
                     IF stream[w] = "consumed" THEN EmptyBody ELSE Asked(w).body]
     /\ stream' = [stream EXCEPT ![w] = IF @ = "unread" THEN "consumed" ELSE @]

\* get_response returns what a view has answered, errors of its own included.
View(w) ==
  /\ Goto(w, "view", "line")
  /\ \E status \in Statuses, headers \in HeaderMaps, body \in ResponseBodies :
       result' = [result EXCEPT ![w] =
         [status |-> status, headers |-> headers, body |-> body, logged |-> FALSE]]
  /\ BodyIsGiven(w)
  /\ UNCHANGED <<dumpBody, serving, context, asked, answers, log>>

\* Slip: what a view raises passes HttpAccessLogMiddleware.
ExceptionPasses(w) == stage[w] = "view" /\ Raise(w, 500)

\* get_response returns the page for what a view has raised, which has a line.
ViewRaises(w) ==
  /\ Goto(w, "view", "line")
  /\ \E headers \in HeaderMaps, page \in ResponseBodies :
       /\ page.type # "json"
       /\ result' = [result EXCEPT ![w] =
            [status |-> 500, headers |-> headers, body |-> page, logged |-> TRUE]]
  /\ log' = log \cup {Line(w, "django")}
  /\ BodyIsGiven(w)
  /\ UNCHANGED <<dumpBody, serving, context, asked, answers>>

Undumpable(w) ==
  dumpBody /\ (RequestRaises(Asked(w).body) \/ ResponseRaises(result[w].body))

\* The dump of a body that nests too deeply: the view has run, its answer is lost.
FailToDump(w) == stage[w] = "line" /\ Undumpable(w) /\ Raise(w, 500)

\* The access line.
WriteLine(w) ==
  LET line == [kind |-> "access", by |-> serving[w], id |-> context[w],
               status |-> result[w].status, level |-> LevelFor(result[w].status),
               dump |-> IF ~dumpBody THEN None ELSE
                 [requestHeaders  |-> RedactHeaders(Asked(w).headers),
                  requestBody     |-> DecodeBody(Asked(w).body),
                  responseHeaders |-> RedactHeaders(result[w].headers),
                  responseBody    |-> DecodeResponseBody(result[w].body)]]
  IN /\ Goto(w, "line", "echo")
     /\ ~Undumpable(w)
     /\ log' = log \cup {line}
     /\ UNCHANGED <<dumpBody, serving, context, stream, asked, result, answers, viewed>>

\* Django's line for an error that has none, under the id the context has then.
LateLine(w, id) ==
  log' = IF result[w].status >= 500 /\ ~result[w].logged
         THEN log \cup {[kind |-> "django", by |-> serving[w], id |-> id]} ELSE log

\* Slip: the context is set and never left.
EchoOnly(w) ==
  /\ Goto(w, "echo", "idle")
  /\ answers' = [answers EXCEPT ![serving[w]] = Answer(result[w].status, context[w])]
  /\ LateLine(w, context[w])
  /\ serving' = [serving EXCEPT ![w] = None]
  /\ result' = [result EXCEPT ![w] = NoResult]
  /\ UNCHANGED <<dumpBody, context, stream, asked, viewed>>

\* The context manager is left, the id echoed, and only then Django writes the
\* line of a view's own error.
Echo(w) ==
  /\ Goto(w, "echo", "idle")
  /\ answers' = [answers EXCEPT ![serving[w]] = Answer(result[w].status, context[w])]
  /\ context' = [context EXCEPT ![w] = "-"]
  /\ LateLine(w, "-")
  /\ serving' = [serving EXCEPT ![w] = None]
  /\ result' = [result EXCEPT ![w] = NoResult]
  /\ UNCHANGED <<dumpBody, stream, asked, viewed>>

\* The worker is killed and replaced.
Kill(w) ==
  /\ serving[w] # None
  /\ serving' = [serving EXCEPT ![w] = None]
  /\ stage' = [stage EXCEPT ![w] = "idle"]
  /\ context' = [context EXCEPT ![w] = "-"]
  /\ result' = [result EXCEPT ![w] = NoResult]
  /\ UNCHANGED <<dumpBody, stream, asked, answers, log, viewed>>

Next ==
  \E w \in Workers :
    \/ \E r \in Requests : Accept(w, r)
    \/ BindId(w) \/ RefuseBody(w) \/ ReadBody(w) \/ Remark(w) \/ View(w) \/ ViewRaises(w)
    \/ FailToDump(w) \/ WriteLine(w) \/ Echo(w) \/ Kill(w)

Spec == Init /\ [][Next]_vars

(***************************************************************************)
(* Properties.                                                             *)
(***************************************************************************)
AccessLines(r) == {line \in log : line.kind = "access" /\ line.by = r}
IdOf(r) == IF asked[r].id # None THEN asked[r].id ELSE Fresh[r]

\* Without an access line only those go whose body could not be read for the
\* dump, or was, and nests too deeply for it.
Unreadable(r) == dumpBody /\ asked[r].arrives # "whole"
GoesUnlogged(r, status) ==
  /\ dumpBody
  /\ CASE asked[r].arrives = "large"  -> status = 400
       [] asked[r].arrives = "broken" -> status = 500
       [] OTHER -> /\ status = 500
                   /\ \/ RequestRaises(asked[r].body)
                      \/ \E body \in ResponseBodies : ResponseRaises(body)

\* Every request that is answered, by a view or for what it raises, has exactly
\* one access line, with its status and a severity to match; it has none when,
\* and only when, the dump of its bodies (LOG_HTTP_BODY=1) stands in the way.
OneLinePerAnswer ==
  \A r \in Requests : answers[r] # None =>
    \/ AccessLines(r) = {} /\ GoesUnlogged(r, answers[r].status)
    \/ /\ ~Unreadable(r) /\ ~(dumpBody /\ RequestRaises(asked[r].body))
       /\ \E line \in AccessLines(r) :
            /\ AccessLines(r) = {line}
            /\ line.status = answers[r].status
            /\ line.level \in {"WARNING", "ERROR"} <=> answers[r].status >= 400

\* All lines written for a request carry the id that is echoed to its client,
\* which is the client's own if it sent one, but for Django's line about an
\* error that a view has answered by itself: that comes when the context is
\* left, and of such an error the access line tells under the id.  An answer
\* without access line has another line with its id; lines of no request have
\* none.
LinesCarryTheirId ==
  /\ \A line \in log :
       \/ line.by = None /\ line.id = "-"
       \/ /\ line.by # None /\ line.id = IdOf(line.by)
          /\ answers[line.by] # None => answers[line.by].id = line.id
       \/ /\ line.by # None /\ line.id = "-" /\ line.kind = "django"
          /\ \E access \in AccessLines(line.by) :
               access.id = IdOf(line.by) /\ access.level = "ERROR"
  /\ \A r \in Requests : answers[r] # None /\ AccessLines(r) = {} =>
       [kind |-> "django", by |-> r, id |-> answers[r].id] \in log

\* The dump takes nothing from the view: it is given the body that was sent.
ViewsGetTheBody ==
  \A r \in Requests : viewed[r] # None => viewed[r] = asked[r].body

\* What the log says of headers and bodies is what was sent, masked, and never
\* more of it than the limit; the body of a request is dumped whenever the
\* limit leaves valid JSON.
DumpsAreMasked ==
  \A line \in log :
    line.kind = "access" /\ line.dump # None =>
      LET sent == asked[line.by]
          body == line.dump.requestBody
          answer == line.dump.responseBody
          masked(headers, dumped) == \A n \in DOMAIN headers :
            dumped[n] = IF Lower[n] \in SensitiveHeaders THEN REDACTED ELSE headers[n]
      IN /\ masked(sent.headers, line.dump.requestHeaders)
         /\ body.dump = "json" <=>
              sent.body.type = "json" /\ sent.body.size > 0 /\ Head4K(sent.body) # Invalid
         /\ body.dump = "json" => Masks(Head4K(sent.body), body.value)
         /\ \A w \in Workers :
              stage[w] = "echo" /\ serving[w] = line.by =>
                /\ masked(result[w].headers, line.dump.responseHeaders)
                /\ answer.dump = "json" => Masks(Head4K(result[w].body), answer.value)

(***************************************************************************)
(* The inductive invariant.                                                *)
(***************************************************************************)
Ids == RequestIds \cup {Fresh[r] : r \in Requests} \cup {"-"}

TypeOK ==
  /\ dumpBody \in BOOLEAN
  /\ serving \in [Workers -> Requests \cup {None}]
  /\ stage \in [Workers -> {"idle", "bind", "body", "view", "line", "echo"}]
  /\ context \in [Workers -> Ids]
  /\ stream \in [Workers -> {"unread", "cached", "consumed"}]
  /\ asked \in [Requests -> {None} \cup
       [id : RequestIds \cup {None}, headers : HeaderMaps,
        body : UNION {RequestBodies[r] : r \in Requests}, arrives : Arrivals]]
  /\ result \in [Workers -> [status : Nat, headers : HeaderMaps \cup {None},
                             body : ResponseBodies \cup {None}, logged : BOOLEAN]]
  /\ answers \in [Requests -> [status : Nat, id : Ids] \cup {None}]
  /\ DOMAIN viewed = Requests

\* A worker serves one request, and a request is served once.
ServedOnce ==
  /\ \A w \in Workers : serving[w] = None <=> stage[w] = "idle"
  /\ \A w \in Workers : serving[w] # None =>
       asked[serving[w]] # None /\ answers[serving[w]] = None
  /\ \A v, w \in Workers : serving[v] = serving[w] /\ serving[v] # None => v = w
  /\ \A r \in Requests : answers[r] # None \/ viewed[r] # None => asked[r] # None

\* The id is bound from the first middleware until the answer.
Late(line) ==
  /\ line.kind = "django" /\ line.by # None /\ line.id = "-"
  /\ \E access \in AccessLines(line.by) :
       access.id = IdOf(line.by) /\ access.level = "ERROR"
ContextIsBound ==
  /\ \A w \in Workers :
       context[w] = IF stage[w] \in {"idle", "bind"} THEN "-" ELSE IdOf(serving[w])
  /\ \A r \in Requests : answers[r] # None => answers[r].id = IdOf(r)
  /\ \A line \in log :
       /\ line.by # None => line.by \in Requests /\ asked[line.by] # None
       /\ line.id = (IF line.by = None THEN "-" ELSE IdOf(line.by)) \/ Late(line)
       /\ line.kind = "access" => line.id = IdOf(line.by)

\* The access line of a request is written when its worker gets to "echo".
LinesAreInTime ==
  /\ \A line \in log :
       line.kind = "access" =>
         /\ line.by # None
         /\ line.level = LevelFor(line.status)
         /\ \A w \in Workers : serving[w] = line.by => stage[w] = "echo"
  /\ \A one, other \in log :
       one.kind = "access" /\ other.kind = "access" /\ one.by = other.by => one = other

\* What is answered, or about to be, has its access line, or a reason to have
\* none and Django's line instead.
Accounted(r, status) ==
  IF AccessLines(r) = {}
  THEN GoesUnlogged(r, status) /\ [kind |-> "django", by |-> r, id |-> IdOf(r)] \in log
  ELSE /\ ~Unreadable(r) /\ ~(dumpBody /\ RequestRaises(asked[r].body))
       /\ \E line \in AccessLines(r) : line.status = status /\ status \in Nat
LinesAreWritten ==
  /\ \A w \in Workers : stage[w] \in {"view", "line"} => ~Unreadable(serving[w])
  /\ \A w \in Workers : stage[w] = "echo" =>
       /\ Accounted(serving[w], result[w].status)
       /\ AccessLines(serving[w]) = {} => result[w].logged
  /\ \A r \in Requests : answers[r] # None => Accounted(r, answers[r].status)

\* A dump is made of what was asked and, until that is forgotten, of what the
\* view has answered.
DumpIsGenuine(line) ==
  /\ line.dump.requestHeaders = RedactHeaders(asked[line.by].headers)
  /\ line.dump.requestBody = DecodeBody(asked[line.by].body)
  /\ ~RequestRaises(asked[line.by].body)
  /\ \A w \in Workers : stage[w] = "echo" /\ serving[w] = line.by =>
       /\ result[w].body \in ResponseBodies /\ ~ResponseRaises(result[w].body)
       /\ line.dump.responseHeaders = RedactHeaders(result[w].headers)
       /\ line.dump.responseBody = DecodeResponseBody(result[w].body)
DumpsAreGenuine ==
  /\ \A w \in Workers : stage[w] = "line" => result[w].body \in ResponseBodies
  /\ \A line \in log : line.kind = "access" /\ line.dump # None => DumpIsGenuine(line)

\* The view finds the body where it has not been read, or cached.
BodiesAreKept ==
  /\ \A w \in Workers :
       /\ stage[w] \in {"bind", "body"} => stream[w] = "unread"
       /\ stage[w] = "view" => stream[w] # "consumed"
  /\ ViewsGetTheBody

IInv ==
  /\ TypeOK
  /\ ServedOnce
  /\ ContextIsBound
  /\ LinesAreInTime
  /\ LinesAreWritten
  /\ DumpsAreGenuine
  /\ BodiesAreKept

=============================================================================
