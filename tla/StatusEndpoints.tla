-------------------------- MODULE StatusEndpoints ---------------------------
(***************************************************************************)
(* A request that goes through TaliskerMiddleware (talisker/wsgi.py) and   *)
(* StandardEndpointMiddleware (talisker/endpoints.py): where it comes from *)
(* and whether it may debug, which status endpoint answers it or that the  *)
(* application does, how /check makes the answer of the application its    *)
(* own, and whether a report is sent to sentry, under an id that the       *)
(* response has announced.  The server iterates every response to its end; *)
(* what happens when it does not is WsgiResponse.                          *)
(***************************************************************************)
EXTENDS Rendering

CONSTANTS Requests,   \* the requests that come in
          Headers,    \* the lists of headers the application gives
          None,       \* nothing
          MaxStarts   \* how often the application calls start_response

Addresses == {"loopback", "trusted", "other", "empty", "malformed"}
Endpoints == {"/ping", "/check", "/index", "/info/config", "/info/packages", "/info/workers",
              "/info/objgraph", "/test/statsd", "/test/prometheus", "/test/sentry"}
Statuses == {"200", "404", "500"}

ASSUME StatusAssumption ==
  /\ Requests \subseteq [path : Endpoints \cup {"/elsewhere"}, iface : BOOLEAN, forwarded : Seq(Addresses),
                         remote : Addresses \cup {None}, debug : BOOLEAN, slow : BOOLEAN]
  /\ Headers \subseteq Seq(STRING \X STRING)
  /\ MaxStarts \in Nat /\ None \notin Addresses \cup Statuses \cup {"403"}
  /\ None \notin [status : Statuses, headers : Headers, exc : BOOLEAN]
  /\ None \notin [status : Statuses \cup {"403"}, id : BOOLEAN]

VARIABLES
  enabled,   \* talisker.sentry.enabled: whether raven is installed
  request,   \* the request
  stage,     \* "received", "routed", "app" or "joined" in the application, "body", "done", "exited" or "broken"
  debug,     \* Context.debug
  soft,      \* whether a soft timeout is set in the context
  status, headers, id, exc,  \* of the TaliskerWSGIRequest: the last start_response, X-Sentry-Id in it
  body,      \* what is iterated: the "app"'s, or a "page"
  page,      \* the content of a page that is rendered
  sent,      \* the status and X-Sentry-Id the server was told last
  flowing,   \* whether it has been given data
  start,     \* what nagios_start has kept: the status, the headers, whether there was an exception
  report,    \* the report to sentry
  said, failed, late, own, starts, restarted, lost  \* of the application, for the properties: see there

talisker == <<debug, soft, status, headers, id, exc>>
response == <<body, page, sent, flowing>>
history == <<said, failed, late, own, starts, restarted, lost>>
vars == <<enabled, request, stage, talisker, response, start, report, history>>

Init ==
  /\ enabled \in BOOLEAN /\ request \in Requests /\ stage = "received"
  /\ debug = FALSE /\ soft = TRUE
  /\ status = None /\ headers = <<>> /\ id = FALSE /\ exc = FALSE
  /\ body = "none" /\ page = <<>> /\ sent = None /\ flowing = FALSE
  /\ start = None /\ report = "none"
  /\ said = None /\ failed = FALSE /\ late = FALSE /\ own = FALSE /\ starts = 0 /\ restarted = FALSE /\ lost = FALSE

-----------------------------------------------------------------------------
(* The pages.                                                              *)

Cells(n) == [i \in 1..n |-> IF i = 1 THEN "name" ELSE "value"]

\* Endpoints that render something: tables of two cells or more in a row.
PageOf(path) ==
  CASE path = "/index" -> <<Table(NoId, <<>>, <<Cells(2)>>)>>
    [] path = "/info/config" -> <<Content(NoId, "Config"), Table("config", Cells(4), <<Cells(4)>>)>>
    [] path = "/info/packages" -> <<Table("packages", Cells(4), <<Cells(4)>>)>>
    [] path = "/info/workers" ->
         <<Content(NoId, "Workers"), Table("workers", Cells(15), <<Cells(15)>>),
           Content(NoId, "Process"), Table("process_info", <<>>, <<Cells(2)>>), Table("process_env", <<>>, <<>>)>>
    [] path = "/info/objgraph" ->
         <<Content(NoId, "Objects"), HtmlOnly("limits"), Table("types", <<>>, <<Cells(2)>>),
           Table("leaking", <<>>, <<>>)>>
    [] OTHER -> <<>>

\* talisker_error_response: the headers are those of the last start_response.
ErrorContent ==
  <<Content("title", "error"), Table("id", <<>>, <<<<"Request-Id", "id">>>>),
    Content("traceback", "traceback"), Table("request_headers", <<"Request Headers", "">>, <<>>),
    Table("wsgi_env", <<"WSGI Environ", "">>, <<Cells(2)>>),
    Table("response_headers", <<"Response Headers", "">>, headers)>>

-----------------------------------------------------------------------------
(* The middleware of the request.                                          *)

\* CLIENT_ADDR, the last of the addresses of the route.
Client(r) == IF r.forwarded # <<>> THEN Last(r.forwarded) ELSE r.remote

\* is_trusted_addr
Trusted(address) == address \in {"loopback", "trusted"}

\* TaliskerMiddleware.__call__, up to the application
Receive ==
  /\ stage = "received"
  /\ ~(request.debug /\ Client(request) \in {None, "malformed"})
  /\ debug' = (request.debug /\ Trusted(Client(request)))
  /\ stage' = "routed"
  /\ UNCHANGED <<enabled, request, soft, status, headers, id, exc, response, start, report, history>>

\* An address that is none, or no route to log: __call__ raises before there is
\* anything to handle that.
ReceiveRaises ==
  /\ stage = "received"
  /\ request.debug /\ Client(request) \in {None, "malformed"}
  /\ stage' = "broken"
  /\ UNCHANGED <<enabled, request, talisker, response, start, report, history>>

\* (mutant) The header is for exceptions only.
AnnouncesErrors == exc

\* "are we going to be sending a sentry report?"
Announces == exc \/ debug

\* TaliskerWSGIRequest.start_response
StartResponse(s, h, e) ==
  /\ status' = s /\ headers' = h
  /\ id' = Announces
  /\ exc' = e
  /\ UNCHANGED <<debug, soft>>

\* TaliskerWSGIRequest.error, of an exception with the status not passed on or no data sent
Error ==
  /\ status' = "500" /\ headers' = <<>> /\ id' = TRUE /\ exc' = TRUE
  /\ UNCHANGED <<debug, soft>>
  /\ sent' = [status |-> "500", id |-> TRUE]
  /\ body' = "page" /\ page' = ErrorContent
  /\ stage' = "body" /\ UNCHANGED flowing

\* An endpoint answers: __next__ passes the status on before the body.
Answer(s, content) ==
  /\ StartResponse(s, <<>>, FALSE)
  /\ sent' = [status |-> s, id |-> id']
  /\ body' = "page" /\ page' = content
  /\ stage' = "body" /\ UNCHANGED flowing

-----------------------------------------------------------------------------
(* The endpoints.                                                          *)

IsStatus == request.path \in Endpoints /\ request.iface

\* StandardEndpointMiddleware.__call__, process_request
Route(path) ==
  /\ stage = "routed" /\ IsStatus /\ request.path = path
  /\ UNCHANGED <<enabled, request, start, report, history>>

Allowed == Trusted(Client(request))

\* private, for someone else; without an address the route of the request has no last one
Private(path) ==
  /\ Route(path)
  /\ IF Client(request) \in {None, "malformed"} THEN Error ELSE Answer("403", <<>>)

PrivatePaths == {"/info/config", "/info/packages", "/info/workers", "/info/objgraph",
                 "/test/statsd", "/test/prometheus", "/test/sentry"}

Refuse == \E path \in PrivatePaths : ~Allowed /\ Private(path)

\* ping and index
Public == \E path \in {"/ping", "/index"} : Route(path) /\ Answer("200", PageOf(path))

\* config, packages and the tests of the metrics, a 501 of which is as good as a 200
Inform ==
  \E path \in {"/info/config", "/info/packages", "/test/statsd", "/test/prometheus"} :
    Allowed /\ Route(path) /\ Answer("200", PageOf(path))

\* workers and objgraph: a worker may be gone when its row is made, the limit may
\* be no number and the package not be there.
Inspect ==
  \E path \in {"/info/workers", "/info/objgraph"} :
    /\ Allowed /\ Route(path)
    /\ Answer("200", PageOf(path)) \/ Error

\* error
RaiseTest == Allowed /\ Route("/test/sentry") /\ Error

\* The application is called, by check with a start_response of its own.
CallApp ==
  /\ stage = "routed" /\ (IsStatus => request.path = "/check")
  /\ stage' = "app"
  /\ UNCHANGED <<enabled, request, talisker, response, start, report, history>>

Checks == IsStatus /\ request.path = "/check"

-----------------------------------------------------------------------------
(* The application.                                                        *)

Running == stage \in {"app", "joined"} \/ (stage = "body" /\ body = "app")

\* (mutant) A later call decides about the exception as well.
KeptLast(s, h, e) == [status |-> s, headers |-> h, exc |-> e]

\* nagios_start: an exception is kept, whatever comes later.
Kept(s, h, e) == [status |-> s, headers |-> h, exc |-> e \/ (start # None /\ start.exc)]

\* It calls start_response, with or without exc_info.
AppStarts(s, h, e) ==
  /\ Running /\ starts < MaxStarts
  /\ e => s = "500"
  /\ IF Checks THEN start' = Kept(s, h, e) /\ UNCHANGED talisker
               ELSE StartResponse(s, h, e) /\ UNCHANGED start
  /\ starts' = starts + 1 /\ said' = s
  /\ failed' = (failed \/ e)
  /\ own' = (e /\ ~Checks)
  /\ late' = (late \/ stage = "body")
  /\ restarted' = (restarted \/ (~Checks /\ exc /\ ~e))
  /\ UNCHANGED <<enabled, request, stage, response, report, lost>>

\* It runs a job eagerly, which leaves the request without its context.
AppRunsJob ==
  /\ Running
  /\ debug' = FALSE /\ soft' = FALSE /\ lost' = (lost \/ debug)
  /\ UNCHANGED <<enabled, request, stage, status, headers, id, exc, response, start, report,
                 said, failed, late, own, starts, restarted>>

\* It returns, having called start_response or about to do it in its iterator.
AppReturns ==
  /\ stage = "app" /\ ~Checks
  /\ body' = "app" /\ stage' = "body"
  /\ sent' = IF status = None THEN None ELSE [status |-> status, id |-> id]
  /\ UNCHANGED <<enabled, request, talisker, page, flowing, start, report, history>>

\* check joins the body if there is no status yet.
CheckJoins ==
  /\ stage = "app" /\ Checks /\ start = None
  /\ stage' = "joined"
  /\ UNCHANGED <<enabled, request, talisker, response, start, report, history>>

\* What check makes of what it knows of the application.
Verdict ==
  CASE start = None -> "200"
    [] start # None /\ start.exc -> "500"
    [] start # None /\ ~start.exc -> IF start.status = "404" THEN "200" ELSE start.status

\* Whether it answers with what the application gave, and not in its place.
HandsOn == start # None /\ ~start.exc /\ start.status # "404"

\* check answers; with the body of the application, unless it was joined or replaced.
CheckAnswers ==
  /\ Checks
  /\ stage = "joined" \/ (stage = "app" /\ start # None)
  /\ StartResponse(Verdict, IF HandsOn THEN start.headers ELSE <<>>, FALSE)
  /\ sent' = [status |-> Verdict, id |-> id']
  /\ body' = IF stage = "app" /\ HandsOn THEN "app" ELSE "page"
  /\ stage' = "body"
  /\ UNCHANGED <<enabled, request, page, flowing, start, report, history>>

\* An exception in its call, or in its iterator before it has given any data.
AppRaises ==
  /\ Running /\ ~flowing
  /\ failed' = TRUE
  /\ Error
  /\ UNCHANGED <<enabled, request, start, report, said, late, own, starts, restarted, lost>>

\* An exception when data have been sent: the server does not take another status.
AppBreaks ==
  /\ Running /\ flowing
  /\ exc' = TRUE /\ id' = TRUE /\ status' = "500" /\ headers' = <<>>
  /\ body' = "none"
  /\ UNCHANGED <<enabled, request, stage, debug, soft, page, sent, flowing, start, report, history>>

\* It gives some data; it has called start_response by now, or that was done for it.
Yield ==
  /\ stage = "body" /\ body = "app" /\ ~flowing
  /\ status # None
  /\ sent' = IF sent = None THEN [status |-> status, id |-> id] ELSE sent
  /\ flowing' = TRUE
  /\ UNCHANGED <<enabled, request, stage, talisker, body, page, start, report, history>>

\* finish_request, of a request that has an exception or not: what is reported, if
\* sentry is enabled and does not fail, and the context is cleared.
FinishRequest(e) ==
  /\ report' \in IF ~enabled THEN {"none"} ELSE
       CASE e -> {"exception", "failed"}
         [] ~e /\ debug -> {"debug", "failed"}
         [] ~e /\ ~debug -> IF soft /\ request.slow /\ status # None THEN {"soft timeout", "failed"} ELSE {"none"}
  /\ debug' = FALSE /\ soft' = FALSE

\* The iterator is at its end.
Finish ==
  /\ stage = "body" /\ status # None
  /\ sent' = IF sent = None THEN [status |-> status, id |-> id] ELSE sent
  /\ FinishRequest(exc)
  /\ stage' = "done"
  /\ UNCHANGED <<enabled, request, status, headers, id, exc, body, page, flowing, start, history>>

\* A SystemExit goes on to the server, and the status does not.  It is an exception
\* unless its code is 0; and with that the request is not finished in the call.
AppExits ==
  /\ Running
  /\ \E zero \in BOOLEAN :
       /\ exc' = (exc \/ ~zero)
       /\ IF zero /\ stage # "body" THEN UNCHANGED <<debug, soft, report>> ELSE FinishRequest(exc')
  /\ stage' = "exited"
  /\ UNCHANGED <<enabled, request, status, headers, id, response, start, history>>

Next ==
  \/ Receive \/ ReceiveRaises
  \/ Refuse \/ Public \/ Inform \/ Inspect \/ RaiseTest \/ CallApp
  \/ \E s \in Statuses, h \in Headers, e \in BOOLEAN : AppStarts(s, h, e)
  \/ AppRunsJob \/ AppReturns \/ CheckJoins \/ CheckAnswers
  \/ AppRaises \/ AppBreaks \/ AppExits \/ Yield \/ Finish

Spec == Init /\ [][Next]_vars

-----------------------------------------------------------------------------
(* Properties.                                                             *)

\* Whether the application is all right: it has not called start_response with an
\* exception or raised before it gave data, and its last status is no error.
Healthy == ~failed /\ said # "500"

\* /check does not call an application healthy that is not, nor the other way
\* round; unless that turned out in its iterator, after it had called
\* start_response.
CheckTruthful ==
  stage = "done" /\ Checks /\ ~late => (sent.status = "200" <=> Healthy)

\* The client was told the id.
Announced == sent # None /\ sent.id

\* The id of a report is in the headers the client got, and one in the headers is
\* that of a report. Not so when the application passed the exception to
\* start_response itself or called that again after it had; when data were
\* already sent; when it lost the context; when it exits; when sentry is not
\* enabled, for start_response does not ask, or fails; and never for a soft timeout.
ReportsAnnounced ==
  stage \in {"done", "exited"} =>
    /\ report = "exception" => Announced \/ flowing \/ own \/ stage = "exited"
    /\ report = "debug" => Announced \/ sent = None
    /\ Announced /\ report \notin {"exception", "debug"} => ~enabled \/ report = "failed" \/ restarted \/ lost

\* Two rows of a table are told apart by their first cells.
Distinct(rows, row) == \A r \in ToSet(rows) : r[1] = row[1] => r = row

\* A page shows the same to programs as to people, but for what has no id, and
\* rows of a dictionary with the same first cell as another.
PagesAgree ==
  /\ Shown("text", page) \subseteq Shown("html", page)
  /\ Shown("json", page) \subseteq Shown("text", page)
  /\ \A b \in ToSet(page) : b.id # NoId =>
       \A row \in ToSet(b.rows) : row \in Shown("json", page) \/ (b.table /\ ~Distinct(b.rows, row))

=============================================================================
