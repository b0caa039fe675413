---------------------------- MODULE WsgiResponse ----------------------------
(***************************************************************************)
(* One request in talisker's WSGI middleware (talisker/wsgi.py):           *)
(* TaliskerMiddleware.__call__ runs the application, TaliskerWSGIRequest   *)
(* keeps back the application's start_response, hands its chunks to the    *)
(* server, turns an exception into an error response and logs the request  *)
(* when it is over.  Application and server are the environment: the       *)
(* application may do anything WSGI lets it do, in any order.              *)
(***************************************************************************)
EXTENDS Naturals, Sequences

CONSTANTS AppStatuses,  \* the statuses the application may answer
          MaxCalls,     \* bound: calls of start_response by the application
          MaxChunks     \* bound: chunks the application yields

NoStatus == "NoStatus"
ErrorStatus == "500"
NoExc == "NoException"

\* What the application may raise.  SystemExit is told apart by its code.
Exceptions == {"error", "RequestTimeout"}
Exits == {"SystemExit_0", "SystemExit_1"}

ASSUME BoundsAssumption ==
  /\ NoStatus \notin AppStatuses /\ ErrorStatus \notin AppStatuses
  /\ MaxCalls \in Nat /\ MaxChunks \in Nat

VARIABLES
  pc,           \* who runs: "app", "next" (the app's iterator), the server, nobody
  status,       \* request.status
  called,       \* request.start_response_called
  excInfo,      \* request.exc_info
  timedout,     \* request.timedout
  iter,         \* request.iter: what the application returned, an iterator over its
                \* items, the error page; or the server's own file wrapper
  closed,       \* request.closed
  tracked,      \* REQUESTS holds the request
  logs,         \* the access log records written for it
  sent,         \* the status given to the server's start_response
  headersSent,  \* the server has sent the headers, with the first chunk
  appCloses,    \* how often what the application returned was closed
  workerExit,   \* gunicorn_worker_exit has not run ("no"), has finished the request
                \* ("finished") or did not find it in REQUESTS ("idle")
  calls,        \* start_response calls so far
  chunks,       \* chunks so far
  raised        \* (history) the exception the application raised, and when

request == <<status, called, excInfo, timedout, iter, closed>>
server == <<sent, headersSent>>
vars == <<pc, request, tracked, logs, server, appCloses, workerExit, calls, chunks, raised>>

Statuses == AppStatuses \cup {ErrorStatus, NoStatus}
ExcInfos == Exceptions \cup Exits \cup {NoExc}
Records == [status : Statuses, exc : ExcInfos, timedout : BOOLEAN]

TypeOK ==
  /\ pc \in {"app", "ready", "next", "ended", "over", "exiting", "dead"}
  /\ status \in Statuses
  /\ called \in BOOLEAN
  /\ excInfo \in ExcInfos
  /\ timedout \in BOOLEAN
  /\ iter \in {"none", "app", "items", "file", "error", "drained"}
  /\ closed \in BOOLEAN
  /\ tracked \in BOOLEAN
  /\ logs \in Seq(Records)
  /\ sent \in Statuses
  /\ headersSent \in BOOLEAN
  /\ appCloses \in 0..1
  /\ workerExit \in {"no", "finished", "idle"}
  /\ calls \in 0..MaxCalls
  /\ chunks \in 0..MaxChunks
  /\ raised \in [exc : Exceptions \cup {NoExc}, early : BOOLEAN]

\* The middleware has made the context, registered the request in REQUESTS
\* and is about to call the application.
Init ==
  /\ pc = "app"
  /\ status = NoStatus /\ called = FALSE /\ excInfo = NoExc /\ timedout = FALSE
  /\ iter = "none" /\ closed = FALSE
  /\ tracked = TRUE /\ logs = <<>>
  /\ sent = NoStatus /\ headersSent = FALSE
  /\ appCloses = 0 /\ workerExit = "no" /\ calls = 0 /\ chunks = 0
  /\ raised = [exc |-> NoExc, early |-> FALSE]

-----------------------------------------------------------------------------
(* What the steps are made of.                                             *)

\* (mutant) finish_request leaves the request in REQUESTS.
FinishKeeps ==
  /\ logs' = Append(logs, [status |-> status', exc |-> excInfo', timedout |-> timedout'])
  /\ UNCHANGED tracked

\* finish_request with the request's fields as they are after the step.
Finish ==
  /\ logs' = Append(logs, [status |-> status', exc |-> excInfo', timedout |-> timedout'])
  /\ tracked' = FALSE

NotFinished == UNCHANGED <<logs, tracked>>

\* close(): the application's iterator first, then finish_request, once.
Close ==
  /\ closed' = TRUE
  /\ IF closed
     THEN NotFinished /\ UNCHANGED appCloses
     ELSE /\ Finish
          /\ appCloses' = IF iter' = "app" THEN appCloses + 1 ELSE appCloses

NotClosed == NotFinished /\ UNCHANGED <<closed, appCloses>>

\* call_start_response: the server takes the status unless there is none.
CallStartResponse(st) ==
  /\ called' = TRUE
  /\ sent' = st

\* (mutant) The server is told whenever the response goes on.
CallAgain ==
  IF status # NoStatus THEN CallStartResponse(status) ELSE UNCHANGED <<called, sent>>

\* The first part of __next__, and the one after an empty or first chunk.
CallIfPending ==
  IF status # NoStatus /\ ~called
  THEN CallStartResponse(status)
  ELSE UNCHANGED <<called, sent>>

\* (mutant) error() tells the server only what it has not been told.
SwitchQuietly(e) ==
  /\ excInfo' = e
  /\ timedout' = (timedout \/ e = "RequestTimeout")
  /\ status' = ErrorStatus
  /\ IF called THEN UNCHANGED <<called, sent>> ELSE CallStartResponse(ErrorStatus)

\* (mutant) error() answers without exc_info.
SwitchWithoutInfo(e) ==
  /\ excInfo' = NoExc
  /\ timedout' = (timedout \/ e = "RequestTimeout")
  /\ status' = ErrorStatus
  /\ IF headersSent THEN UNCHANGED <<called, sent>> ELSE CallStartResponse(ErrorStatus)

\* error(): switch to the error response.  Both start_response calls carry
\* exc_info, so the server raises when the headers are out.
SwitchToError(e) ==
  /\ excInfo' = e
  /\ timedout' = (timedout \/ e = "RequestTimeout")
  /\ status' = ErrorStatus
  /\ IF headersSent THEN UNCHANGED <<called, sent>> ELSE CallStartResponse(ErrorStatus)

-----------------------------------------------------------------------------
(* The application, in its call or in its iterator.                        *)

\* request.start_response, with or without exc_info: that of an exception the
\* application caught, its own or the RequestTimeout of gunicorn_worker_abort.
AppStartResponse(st, e) ==
  /\ pc \in {"app", "next"} /\ calls < MaxCalls
  /\ calls' = calls + 1
  /\ status' = st
  /\ excInfo' = e
  /\ UNCHANGED <<pc, called, timedout, iter, closed, tracked, logs, server, appCloses,
                 workerExit, chunks, raised>>

\* It returns an iterable.  wrap_response keeps only iter() of it: the same
\* object for a generator ("app"), another one for a list or a response object.
AppReturns(i) ==
  /\ pc = "app"
  /\ pc' = "ready"
  /\ iter' = i
  /\ UNCHANGED <<status, called, excInfo, timedout, closed, tracked, logs, server, appCloses,
                 workerExit, calls, chunks, raised>>

\* It returns what iter() refuses, or a file wrapper with no status set:
\* wrap_response raises, and the exception goes through to the server.
AppReturnsUnusable ==
  /\ pc = "app"
  /\ pc' = "over"
  /\ UNCHANGED <<request, tracked, logs, server, appCloses, workerExit, calls, chunks, raised>>

\* It returns a wsgi.file_wrapper, with a status set by now.
AppReturnsFile ==
  /\ pc = "app" /\ status # NoStatus
  /\ pc' = "ready"
  /\ iter' = "file"
  /\ CallStartResponse(status)
  /\ UNCHANGED <<status, excInfo, timedout, closed, tracked, logs, headersSent, appCloses,
                 workerExit, calls, chunks, raised>>

\* It raises in its call: the response is talisker's error page.
AppCallRaises(e) ==
  /\ pc = "app"
  /\ pc' = "ready"
  /\ iter' = "error"
  /\ SwitchToError(e)
  /\ raised' = [exc |-> e, early |-> TRUE]
  /\ UNCHANGED <<closed, tracked, logs, headersSent, appCloses, workerExit, calls, chunks>>

\* It exits in its call.  Only a non-zero code finishes the request here.
AppCallExits(e) ==
  /\ pc = "app"
  /\ pc' = "exiting"
  /\ UNCHANGED <<status, called, timedout, iter, closed, server, appCloses, workerExit, calls,
                 chunks, raised>>
  /\ IF e = "SystemExit_0"
     THEN UNCHANGED excInfo /\ NotFinished
     ELSE excInfo' = e /\ Finish

\* Its iterator yields a chunk, with a status set by now.  For an empty one a
\* server may keep the headers back.
AppYields ==
  /\ pc = "next" /\ chunks < MaxChunks /\ status # NoStatus
  /\ pc' = "ready"
  /\ CallIfPending
  /\ headersSent' \in {headersSent, TRUE}
  /\ chunks' = chunks + 1
  /\ NotClosed
  /\ UNCHANGED <<status, excInfo, timedout, iter, workerExit, calls, raised>>

\* Its iterator is exhausted.  Without a status the server's start_response
\* raises; either way the request is closed.
AppStops ==
  /\ pc = "next"
  /\ pc' = "ended"
  /\ CallIfPending
  /\ UNCHANGED <<status, excInfo, timedout, iter, headersSent, workerExit, calls, chunks, raised>>
  /\ Close

\* Its iterator raises, or yields before any start_response, at which the
\* server raises.  If the headers are out so does error(), and the request is
\* closed; if not the error page is the chunk.
AppNextRaises(e) ==
  /\ pc = "next"
  /\ SwitchToError(e)
  /\ raised' = [exc |-> e, early |-> ~headersSent]
  /\ UNCHANGED <<workerExit, calls, chunks>>
  /\ IF headersSent
     THEN pc' = "ended" /\ UNCHANGED <<iter, headersSent>> /\ Close
     ELSE pc' = "ready" /\ iter' = "drained" /\ headersSent' = TRUE /\ NotClosed

\* Its iterator exits: the request is closed and the worker goes down.
AppNextExits(e) ==
  /\ pc = "next"
  /\ pc' = "exiting"
  /\ excInfo' = IF e = "SystemExit_0" THEN excInfo ELSE e
  /\ UNCHANGED <<status, called, timedout, iter, server, workerExit, calls, chunks, raised>>
  /\ Close

\* Its iterator raises GeneratorExit, which closes the request only when
\* the server's start_response raises for want of a status.
AppNextGeneratorExit ==
  /\ pc = "next"
  /\ pc' = "ended"
  /\ CallIfPending
  /\ UNCHANGED <<status, excInfo, timedout, iter, headersSent, workerExit, calls, chunks, raised>>
  /\ IF status = NoStatus THEN Close ELSE NotClosed

-----------------------------------------------------------------------------
(* The server.                                                             *)

\* It asks for a chunk of the application's.
ServerNext ==
  /\ pc = "ready" /\ iter \in {"app", "items"}
  /\ pc' = "next"
  /\ CallIfPending
  /\ UNCHANGED <<status, excInfo, timedout, iter, closed, tracked, logs, headersSent, appCloses,
                 workerExit, calls, chunks, raised>>

\* It asks for the error page, and then for more.
ServerNextError ==
  /\ pc = "ready" /\ iter \in {"error", "drained"}
  /\ UNCHANGED <<status, called, excInfo, timedout, sent, workerExit, calls, chunks, raised>>
  /\ IF iter = "error"
     THEN pc' = "ready" /\ iter' = "drained" /\ headersSent' = TRUE /\ NotClosed
     ELSE pc' = "ended" /\ UNCHANGED <<iter, headersSent>> /\ Close

\* It sends the file by itself.
ServerSendsFile ==
  /\ pc = "ready" /\ iter = "file" /\ ~headersSent
  /\ headersSent' = TRUE
  /\ UNCHANGED <<pc, request, tracked, logs, sent, appCloses, workerExit, calls, chunks, raised>>

\* (mutant) The file wrapper keeps the close it came with.
ServerCloseUnpatched ==
  /\ pc \in {"ready", "ended"}
  /\ pc' = "over"
  /\ UNCHANGED <<status, called, excInfo, timedout, iter, server, workerExit, calls, chunks,
                 raised>>
  /\ IF iter = "file"
     THEN NotFinished /\ appCloses' = appCloses + 1 /\ UNCHANGED closed
     ELSE Close

\* It closes the response, at the end or because the client is gone, once.
\* On a file wrapper this is the patched close, which has no closed flag.
ServerClose ==
  /\ pc \in {"ready", "ended"}
  /\ pc' = "over"
  /\ UNCHANGED <<status, called, excInfo, timedout, iter, server, workerExit, calls, chunks,
                 raised>>
  /\ IF iter = "file"
     THEN Finish /\ appCloses' = appCloses + 1 /\ UNCHANGED closed
     ELSE Close

\* gunicorn_worker_exit finishes what REQUESTS holds, without a mark on the
\* request: where it runs beside other threads or greenlets they go on with it.
WorkerExit ==
  /\ workerExit = "no"
  /\ UNCHANGED <<pc, status, called, iter, closed, server, appCloses, calls, chunks, raised>>
  /\ IF tracked
     THEN excInfo' = "RequestTimeout" /\ timedout' = TRUE /\ Finish /\ workerExit' = "finished"
     ELSE NotFinished /\ UNCHANGED <<excInfo, timedout>> /\ workerExit' = "idle"

\* The process ends, at once in a synchronous worker.
ProcessEnds ==
  /\ workerExit # "no" /\ pc # "dead"
  /\ pc' = "dead"
  /\ UNCHANGED <<request, tracked, logs, server, appCloses, workerExit, calls, chunks, raised>>

-----------------------------------------------------------------------------
AppStep ==
  \/ \E st \in AppStatuses, e \in {NoExc} \cup Exceptions : AppStartResponse(st, e)
  \/ \E i \in {"app", "items"} : AppReturns(i)
  \/ AppReturnsUnusable
  \/ AppReturnsFile
  \/ \E e \in Exceptions : AppCallRaises(e) \/ AppNextRaises(e)
  \/ \E e \in Exits : AppCallExits(e) \/ AppNextExits(e)
  \/ AppYields
  \/ AppStops
  \/ AppNextGeneratorExit

ServerStep ==
  \/ ServerNext
  \/ ServerNextError
  \/ ServerSendsFile
  \/ ServerClose

Next == AppStep \/ ServerStep \/ WorkerExit \/ ProcessEnds

Spec == Init /\ [][Next]_vars

\* gunicorn aborts an application that takes too long, with RequestTimeout in
\* gunicorn_worker_abort, so the application always goes on; a server closes
\* every response; and a worker that exits gets to worker_exit, after which the
\* process may end at any step.
FairSpec ==
  /\ Spec
  /\ WF_vars(AppStep)
  /\ WF_vars(ServerStep)
  /\ WF_vars(pc = "exiting" /\ WorkerExit)

-----------------------------------------------------------------------------
(* Properties.                                                             *)

\* A request is in REQUESTS exactly until it is logged.  Its own end, in
\* __call__, close() or the patched close, logs it once, unless wrap_response
\* itself raised; a second record there is only of a request that worker_exit
\* finished while it ran and that ended all the same; and no process ends with
\* a request unlogged.
LoggedOnce ==
  /\ tracked <=> logs = <<>>
  /\ Len(logs) <= IF workerExit = "finished" THEN 2 ELSE 1
  /\ pc = "over" /\ iter # "none" => Len(logs) = IF workerExit = "finished" THEN 2 ELSE 1
  /\ pc = "dead" => logs # <<>>

\* An exception the application raises before any header is out reaches the
\* client as the error response, whatever the application answered before.
ErrorsReachClient == raised.early => sent = ErrorStatus

\* The access log tells the truth.  A record is marked as a timeout exactly when
\* a RequestTimeout got to the middleware or worker_exit finished the request:
\* one that the application catches and passes on as exc_info does not count.
\* An exception of the application is logged, with the error status, unless
\* worker_exit came first or put its own in the place of it; and with none the
\* status is the one the client got, if start_response was called no more than
\* once, where worker_exit may have been too early to know it.
TruthfulLog ==
  \A i \in DOMAIN logs :
    LET r == logs[i]
        cutShort == workerExit = "finished"
        ofExit == cutShort /\ i = 1
    IN /\ r.timedout <=> raised.exc = "RequestTimeout" \/ cutShort
       /\ ofExit => r.exc = "RequestTimeout"
       /\ raised.exc # NoExc /\ ~ofExit =>
            /\ r.exc = raised.exc \/ (cutShort /\ r.exc = "RequestTimeout")
            /\ r.status = ErrorStatus
       /\ raised.exc = NoExc /\ calls <= 1 /\ sent # NoStatus =>
            r.status = sent \/ (ofExit /\ r.status = NoStatus)

\* What the application returned has been closed, once, when the response is
\* over, if the wrapper still holds it; and its close never runs before.
ClosedOnce ==
  /\ pc = "over" /\ iter \in {"app", "file"} => appCloses = 1
  /\ appCloses = 1 => iter \in {"app", "file"} /\ ~tracked

\* The server's start_response is called a second time only to switch to the
\* error response, and never once the headers are out.
ServerToldOnce ==
  [][sent' # sent => ~headersSent /\ (sent = NoStatus \/ sent' = ErrorStatus)]_vars

\* Every request is logged in the end, unless wrap_response itself raised.
EventuallyLogged == <>(logs # <<>> \/ (pc = "over" /\ iter = "none"))
=============================================================================
