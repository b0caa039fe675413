------------------------ MODULE WsgiResponse_proofs ------------------------
(***************************************************************************)
(* Proofs about WsgiResponse: its type invariant, that every request is    *)
(* logged once by its own end, that errors reach the client and that the   *)
(* server is told once, for every set of statuses and every bound.         *)
(***************************************************************************)
EXTENDS WsgiResponse, SequenceTheorems, TLAPS

USE BoundsAssumption

\* The records of the request's own end: all but the one of worker_exit.
OwnRecords == Len(logs) - (IF workerExit = "finished" THEN 1 ELSE 0)

\* Where the request stands: it is tracked until it is logged, by itself or by
\* worker_exit; close() and finish_request run together but for a file wrapper
\* and a call that exits; and its own end comes once.
Standing ==
  /\ tracked <=> Len(logs) = 0
  /\ OwnRecords \in 0..1
  /\ workerExit # "no" => ~tracked
  /\ pc \in {"app", "ready", "next", "ended"} => (closed <=> OwnRecords = 1)
  /\ pc \in {"app", "ready", "next"} => OwnRecords = 0
  /\ closed => OwnRecords = 1
  /\ pc = "app" => iter = "none" /\ ~headersSent /\ ~called
  /\ pc \in {"ready", "next", "ended"} => iter # "none"
  /\ pc = "next" => iter \in {"app", "items"}
  /\ iter = "file" => ~closed /\ pc \in {"ready", "over", "dead"}
  /\ pc = "over" /\ iter # "none" => OwnRecords = 1
  /\ pc = "over" /\ iter = "none" => OwnRecords = 0
  /\ pc = "dead" => workerExit # "no"
  /\ appCloses = 1 => iter \in {"app", "file"} /\ OwnRecords = 1
  /\ pc = "over" /\ iter \in {"app", "file"} => appCloses = 1
  /\ closed /\ iter = "app" => appCloses = 1

\* An early exception: the error response is the one the server was told.
Switched ==
  raised.early =>
    /\ sent = ErrorStatus /\ status = ErrorStatus /\ called
    /\ iter \in {"error", "drained"}
    /\ pc \in {"ready", "ended", "over", "dead"}

\* The server has been told a status before a file, an error page or any
\* header, and none before call_start_response.
Told ==
  /\ ~called => sent = NoStatus
  /\ iter \in {"file", "error", "drained"} \/ headersSent => called

\* What is to be reported, and what was: the exception, the status and whether
\* it is a timeout, as the request's fields say.
Truth ==
  /\ timedout <=> (raised.exc = "RequestTimeout" \/ workerExit = "finished")
  /\ raised.exc # NoExc =>
       /\ excInfo = raised.exc \/ (workerExit = "finished" /\ excInfo = "RequestTimeout")
       /\ status = ErrorStatus
  /\ raised.exc = NoExc /\ calls <= 1 /\ sent # NoStatus => status = sent
  /\ raised.exc = NoExc /\ calls = 0 => status = NoStatus
  /\ pc \in {"app", "ready", "next"} /\ iter \notin {"error", "drained"} => raised.exc = NoExc

\* The record of the request's own end says what the request's fields say, then
\* and later.
Reported ==
  OwnRecords = 1 =>
    logs[Len(logs)] = [status |-> status, exc |-> excInfo, timedout |-> timedout]

\* The record of worker_exit says RequestTimeout, and the status as it was.
ReportedExit ==
  workerExit = "finished" =>
    /\ logs[1].exc = "RequestTimeout" /\ logs[1].timedout
    /\ raised.exc = NoExc /\ calls <= 1 => logs[1].status \in {NoStatus, status}

IInv == TypeOK /\ Standing /\ Switched /\ Told /\ Truth /\ Reported /\ ReportedExit

-----------------------------------------------------------------------------
(* What the helpers do to a typed state.                                   *)

\* The fields that finish_request reports are typed after the step.
FieldsTyped == status' \in Statuses /\ excInfo' \in ExcInfos /\ timedout' \in BOOLEAN

\* One more record is written, of the request's fields, and it is forgotten.
Logged ==
  /\ logs' \in Seq(Records) /\ Len(logs') = Len(logs) + 1 /\ tracked' = FALSE
  /\ logs'[Len(logs')] = [status |-> status', exc |-> excInfo', timedout |-> timedout']
  /\ Len(logs) > 0 => logs'[1] = logs[1]

\* The response is closed as well, and the application's iterator with it;
\* nothing happens when it was before.
Closes ==
  /\ closed' = TRUE
  /\ closed => UNCHANGED <<logs, tracked, appCloses>>
  /\ ~closed => Logged /\ appCloses' \in 0..1 /\ (appCloses' = 1 <=> iter' = "app")

\* finish_request adds a record of the fields as they are.
LEMMA FinishFacts ==
  ASSUME TypeOK, FieldsTyped, Finish PROVE Logged
<1> DEFINE r == [status |-> status', exc |-> excInfo', timedout |-> timedout']
<1>1. r \in Records
  BY DEF Records, FieldsTyped
<1>2. logs \in Seq(Records) /\ Len(logs) \in Nat
  BY DEF TypeOK
<1>3. logs' = Append(logs, r) /\ tracked' = FALSE
  BY DEF Finish
<1> HIDE DEF r
<1>4. Len(logs') = Len(logs) + 1 /\ logs' \in Seq(Records) /\ logs'[Len(logs')] = r
  BY <1>1, <1>2, <1>3, AppendProperties
<1>5. Len(logs) > 0 => logs'[1] = logs[1]
  BY <1>1, <1>2, <1>3, AppendProperties
<1> QED
  BY <1>3, <1>4, <1>5 DEF Logged, r

\* close() finishes the request unless it ran before.
LEMMA CloseFacts ==
  ASSUME TypeOK, Standing, pc \in {"ready", "next", "ended"}, FieldsTyped, Close
  PROVE  Closes
<1>1. CASE closed
  BY <1>1 DEF Close, NotFinished, Closes
<1>2. CASE ~closed
  <2>1. appCloses = 0
    BY <1>2 DEF Standing, TypeOK, OwnRecords
  <2> QED
    BY <1>2, <2>1, FinishFacts DEF Close, Closes
<1> QED
  BY <1>1, <1>2

\* The records are counted as before.
LEMMA SameRecords ==
  ASSUME UNCHANGED <<logs, workerExit>> PROVE OwnRecords' = OwnRecords /\ Len(logs') = Len(logs)
  BY DEF OwnRecords

\* A record that is not of worker_exit is one of the request's own.
LEMMA OneMoreRecord ==
  ASSUME TypeOK, Logged, UNCHANGED workerExit
  PROVE  OwnRecords' = OwnRecords + 1 /\ Len(logs') # 0 /\ tracked' = FALSE
<1>1. Len(logs) \in Nat /\ Len(logs') = Len(logs) + 1
  BY DEF TypeOK, Logged
<1> QED
  BY <1>1 DEF OwnRecords, Logged

\* A request of which close() has run: it is logged and what the application
\* returned is closed.
Ended ==
  /\ closed' = TRUE /\ OwnRecords' = 1 /\ Len(logs') # 0 /\ tracked' = FALSE
  /\ logs' \in Seq(Records)
  /\ appCloses' \in 0..1
  /\ appCloses' = 1 => iter \in {"app", "file"}
  /\ iter = "app" => appCloses' = 1

\* After close(), the first or another, the request has ended.
LEMMA ClosesEnds ==
  ASSUME TypeOK, Standing, pc \in {"ready", "next", "ended"}, Closes, UNCHANGED <<workerExit, iter>>
  PROVE  Ended
<1>1. Len(logs) \in Nat /\ closed \in BOOLEAN
  BY DEF TypeOK
<1>2. CASE closed
  <2>1. OwnRecords = 1
    BY <1>2 DEF Standing
  <2>2. Len(logs) # 0 /\ ~tracked
    BY <1>1, <2>1 DEF OwnRecords, Standing
  <2>3. logs' = logs /\ tracked' = tracked /\ appCloses' = appCloses /\ closed' = TRUE
    BY <1>2 DEF Closes
  <2>4. OwnRecords' = 1 /\ Len(logs') # 0
    BY <2>1, <2>2, <2>3, SameRecords
  <2>5. tracked' = FALSE /\ logs' \in Seq(Records) /\ appCloses' \in 0..1
    BY <2>2, <2>3 DEF TypeOK
  <2>6. (appCloses' = 1 => iter \in {"app", "file"}) /\ (iter = "app" => appCloses' = 1)
    BY <1>2, <2>3 DEF Standing
  <2> QED
    BY <2>3, <2>4, <2>5, <2>6 DEF Ended
<1>3. CASE ~closed
  <2>1. OwnRecords = 0
    BY <1>3 DEF Standing
  <2>2. Logged /\ closed' = TRUE /\ appCloses' \in 0..1 /\ (appCloses' = 1 <=> iter = "app")
    BY <1>3 DEF Closes
  <2>3. OwnRecords' = 1 /\ Len(logs') # 0 /\ tracked' = FALSE
    BY <2>1, <2>2, OneMoreRecord
  <2>4. logs' \in Seq(Records)
    BY <2>2 DEF Logged
  <2> QED
    BY <2>2, <2>3, <2>4 DEF Ended
<1> QED
  BY <1>1, <1>2, <1>3

\* The server is told the response's status, if it is told anything.
LEMMA CallFacts ==
  ASSUME TypeOK, CallIfPending
  PROVE  /\ called' \in BOOLEAN /\ sent' \in Statuses
         /\ called => called' /\ sent' = sent
         /\ ~called /\ status # NoStatus => called' /\ sent' = status
         /\ ~called /\ status = NoStatus => ~called' /\ sent' = sent
  BY DEF TypeOK, CallIfPending, CallStartResponse

\* error() sets the error response, and tells the server unless the headers
\* are out.
LEMMA SwitchFacts ==
  ASSUME TypeOK, NEW e \in Exceptions, SwitchToError(e)
  PROVE  /\ called' \in BOOLEAN /\ sent' \in Statuses /\ timedout' \in BOOLEAN
         /\ timedout' <=> (timedout \/ e = "RequestTimeout")
         /\ excInfo' = e /\ status' = ErrorStatus
         /\ headersSent => (called' <=> called) /\ sent' = sent
         /\ ~headersSent => called' /\ sent' = ErrorStatus
<1>1. timedout' \in BOOLEAN /\ (timedout' <=> (timedout \/ e = "RequestTimeout"))
  BY Zenon DEF SwitchToError, TypeOK
<1> QED
  BY <1>1 DEF TypeOK, SwitchToError, CallStartResponse, Statuses

-----------------------------------------------------------------------------
(* Every step keeps the invariant.                                         *)

\* Every step keeps the types and the standing of the request.
LEMMA StandingStep ==
  ASSUME TypeOK, Standing, [Next]_vars PROVE TypeOK' /\ Standing'
<1>1. ASSUME NEW st \in AppStatuses, NEW e \in {NoExc} \cup Exceptions, AppStartResponse(st, e) PROVE TypeOK' /\ Standing'
  <2>1. TypeOK'
    BY <1>1 DEF AppStartResponse, TypeOK, Statuses, ExcInfos, Exceptions, Exits, request, server
  <2>2. Standing'
    BY <1>1, SameRecords DEF AppStartResponse, Standing, TypeOK, request, server
  <2> QED
    BY <2>1, <2>2
<1>2. ASSUME NEW i \in {"app", "items"}, AppReturns(i) PROVE TypeOK' /\ Standing'
  <2>1. TypeOK'
    BY <1>2 DEF AppReturns, TypeOK, Statuses, ExcInfos, Exceptions, Exits, request, server
  <2>2. Standing'
    BY <1>2, SameRecords DEF AppReturns, Standing, TypeOK, request, server
  <2> QED
    BY <2>1, <2>2
<1>3. ASSUME AppReturnsUnusable PROVE TypeOK' /\ Standing'
  <2>1. TypeOK'
    BY <1>3 DEF AppReturnsUnusable, TypeOK, Statuses, ExcInfos, Exceptions, Exits, request, server
  <2>2. Standing'
    BY <1>3, SameRecords DEF AppReturnsUnusable, Standing, TypeOK, request, server
  <2> QED
    BY <2>1, <2>2
<1>4. ASSUME AppReturnsFile PROVE TypeOK' /\ Standing'
  <2>1. TypeOK'
    BY <1>4 DEF AppReturnsFile, CallStartResponse, TypeOK, Statuses, ExcInfos, Exceptions, Exits, request, server
  <2>2. Standing'
    BY <1>4, SameRecords DEF AppReturnsFile, CallStartResponse, Standing, TypeOK, request, server
  <2> QED
    BY <2>1, <2>2
<1>5. ASSUME NEW e \in Exceptions, AppCallRaises(e) PROVE TypeOK' /\ Standing'
  <2>1. FieldsTyped
    BY <1>5, SwitchFacts DEF FieldsTyped, AppCallRaises, TypeOK, Statuses, ExcInfos, Exceptions, Exits
  <2>2. called' \in BOOLEAN /\ sent' \in Statuses
    BY <1>5, SwitchFacts DEF AppCallRaises
  <2>3. TypeOK'
    BY <1>5, <2>1, <2>2 DEF Closes, Logged, FieldsTyped, AppCallRaises, TypeOK, Exceptions, server
  <2>4. Standing'
    BY <1>5, <2>1, <2>2, SameRecords DEF AppCallRaises, Standing, TypeOK, request, server
  <2> QED
    BY <2>3, <2>4
<1>6. ASSUME NEW e \in Exceptions, AppNextRaises(e) PROVE TypeOK' /\ Standing'
  <2>1. FieldsTyped
    BY <1>6, SwitchFacts DEF FieldsTyped, AppNextRaises, TypeOK, Statuses, ExcInfos, Exceptions, Exits
  <2>2. called' \in BOOLEAN /\ sent' \in Statuses
    BY <1>6, SwitchFacts DEF AppNextRaises
  <2>3. raised' \in [exc : Exceptions \cup {NoExc}, early : BOOLEAN]
    <3>1. (~headersSent) \in BOOLEAN
      BY Zenon DEF TypeOK
    <3> QED
      BY <1>6, <3>1 DEF AppNextRaises
  <2>4. CASE headersSent
    <3>1. Ended
      BY <1>6, <2>1, <2>4, CloseFacts, ClosesEnds DEF AppNextRaises
    <3>2. TypeOK'
      BY <1>6, <2>1, <2>2, <2>3, <2>4, <3>1 DEF Ended, FieldsTyped, AppNextRaises, TypeOK
    <3>3. Standing'
      BY <1>6, <2>4, <3>1 DEF Ended, AppNextRaises, Standing
    <3> QED
      BY <3>2, <3>3
  <2>5. CASE ~headersSent
    <3>1. TypeOK'
      BY <1>6, <2>1, <2>2, <2>3, <2>5
         DEF FieldsTyped, AppNextRaises, NotClosed, NotFinished, TypeOK
    <3>2. Standing'
      BY <1>6, <2>5, SameRecords DEF AppNextRaises, NotClosed, NotFinished, Standing, TypeOK
    <3> QED
      BY <3>1, <3>2
  <2> QED
    BY <2>4, <2>5
<1>7. ASSUME NEW e \in Exits, AppCallExits(e) PROVE TypeOK' /\ Standing'
  <2>1. FieldsTyped
    BY <1>7 DEF FieldsTyped, AppCallExits, TypeOK, Statuses, ExcInfos, Exceptions, Exits
  <2>2. CASE e = "SystemExit_0"
    <3>1. TypeOK'
      BY <1>7, <2>1, <2>2 DEF FieldsTyped, AppCallExits, NotFinished, TypeOK, server
    <3>2. Standing'
      BY <1>7, <2>2, SameRecords DEF AppCallExits, NotFinished, Standing, server
    <3> QED
      BY <3>1, <3>2
  <2>3. CASE e # "SystemExit_0"
    <3>1. Logged
      BY <1>7, <2>1, <2>3, FinishFacts DEF AppCallExits
    <3>2. OwnRecords = 0 /\ ~closed
      BY <1>7 DEF AppCallExits, Standing, TypeOK
    <3>3. OwnRecords' = 1 /\ Len(logs') # 0 /\ tracked' = FALSE
      BY <1>7, <3>1, <3>2, OneMoreRecord DEF AppCallExits
    <3>4. TypeOK'
      BY <1>7, <2>1, <3>1, <3>3 DEF Logged, FieldsTyped, AppCallExits, TypeOK, server
    <3>5. Standing'
      BY <1>7, <3>2, <3>3 DEF AppCallExits, Standing, server
    <3> QED
      BY <3>4, <3>5
  <2> QED
    BY <2>2, <2>3
<1>8. ASSUME NEW e \in Exits, AppNextExits(e) PROVE TypeOK' /\ Standing'
  <2>1. FieldsTyped
    BY <1>8 DEF FieldsTyped, AppNextExits, TypeOK, Statuses, ExcInfos, Exceptions, Exits
  <2>2. Ended
    BY <1>8, <2>1, CloseFacts, ClosesEnds DEF AppNextExits
  <2>3. TypeOK'
    BY <1>8, <2>1, <2>2 DEF Ended, FieldsTyped, AppNextExits, TypeOK, server
  <2>4. Standing'
    BY <1>8, <2>2 DEF Ended, AppNextExits, Standing, server
  <2> QED
    BY <2>3, <2>4
<1>9. ASSUME AppYields PROVE TypeOK' /\ Standing'
  <2>1. FieldsTyped
    BY <1>9 DEF FieldsTyped, AppYields, TypeOK, Statuses, ExcInfos, Exceptions, Exits
  <2>2. called' \in BOOLEAN /\ sent' \in Statuses
    BY <1>9, CallFacts DEF AppYields
  <2>3. headersSent' \in BOOLEAN
    BY <1>9, Zenon DEF AppYields, TypeOK
  <2>4. TypeOK'
    BY <1>9, <2>1, <2>2, <2>3 DEF Closes, Logged, FieldsTyped, AppYields, NotClosed, NotFinished, TypeOK, Exceptions, server
  <2>5. Standing'
    BY <1>9, <2>1, <2>2, <2>3, SameRecords DEF AppYields, NotClosed, NotFinished, Standing, TypeOK, request, server
  <2> QED
    BY <2>4, <2>5
<1>10. ASSUME AppStops PROVE TypeOK' /\ Standing'
  <2>1. FieldsTyped
    BY <1>10 DEF FieldsTyped, AppStops, TypeOK, Statuses, ExcInfos, Exceptions, Exits
  <2>2. called' \in BOOLEAN /\ sent' \in Statuses
    BY <1>10, CallFacts DEF AppStops
  <2>3. Ended
    BY <1>10, <2>1, CloseFacts, ClosesEnds DEF AppStops
  <2>4. TypeOK'
    BY <1>10, <2>1, <2>2, <2>3 DEF Ended, FieldsTyped, AppStops, TypeOK
  <2>5. Standing'
    BY <1>10, <2>3 DEF Ended, AppStops, Standing
  <2> QED
    BY <2>4, <2>5
<1>11. ASSUME AppNextGeneratorExit PROVE TypeOK' /\ Standing'
  <2>1. FieldsTyped
    BY <1>11 DEF FieldsTyped, AppNextGeneratorExit, TypeOK, Statuses, ExcInfos, Exceptions, Exits
  <2>2. called' \in BOOLEAN /\ sent' \in Statuses
    BY <1>11, CallFacts DEF AppNextGeneratorExit
  <2>3. CASE status = NoStatus
    <3>1. Ended
      BY <1>11, <2>1, <2>3, CloseFacts, ClosesEnds DEF AppNextGeneratorExit
    <3>2. TypeOK'
      BY <1>11, <2>1, <2>2, <3>1 DEF Ended, FieldsTyped, AppNextGeneratorExit, TypeOK
    <3>3. Standing'
      BY <1>11, <3>1 DEF Ended, AppNextGeneratorExit, Standing
    <3> QED
      BY <3>2, <3>3
  <2>4. CASE status # NoStatus
    <3>1. TypeOK'
      BY <1>11, <2>1, <2>2, <2>4
         DEF FieldsTyped, AppNextGeneratorExit, NotClosed, NotFinished, TypeOK
    <3>2. Standing'
      BY <1>11, <2>4, SameRecords
         DEF AppNextGeneratorExit, NotClosed, NotFinished, Standing
    <3> QED
      BY <3>1, <3>2
  <2> QED
    BY <2>3, <2>4
<1>12. ASSUME ServerNext PROVE TypeOK' /\ Standing'
  <2>1. FieldsTyped
    BY <1>12 DEF FieldsTyped, ServerNext, TypeOK, Statuses, ExcInfos, Exceptions, Exits
  <2>2. called' \in BOOLEAN /\ sent' \in Statuses
    BY <1>12, CallFacts DEF ServerNext
  <2>3. TypeOK'
    BY <1>12, <2>1, <2>2 DEF Closes, Logged, FieldsTyped, ServerNext, TypeOK, Exceptions, server
  <2>4. Standing'
    BY <1>12, <2>1, <2>2, SameRecords DEF ServerNext, Standing, TypeOK, request, server
  <2> QED
    BY <2>3, <2>4
<1>13. ASSUME ServerNextError PROVE TypeOK' /\ Standing'
  <2>1. FieldsTyped
    BY <1>13 DEF FieldsTyped, ServerNextError, TypeOK, Statuses, ExcInfos, Exceptions, Exits
  <2>2. CASE iter = "error"
    <3>1. TypeOK'
      BY <1>13, <2>1, <2>2 DEF FieldsTyped, ServerNextError, NotClosed, NotFinished, TypeOK
    <3>2. Standing'
      BY <1>13, <2>2, SameRecords DEF ServerNextError, NotClosed, NotFinished, Standing, TypeOK
    <3> QED
      BY <3>1, <3>2
  <2>3. CASE iter # "error"
    <3>1. Ended
      BY <1>13, <2>1, <2>3, CloseFacts, ClosesEnds DEF ServerNextError
    <3>2. TypeOK'
      BY <1>13, <2>1, <2>3, <3>1 DEF Ended, FieldsTyped, ServerNextError, TypeOK
    <3>3. Standing'
      BY <1>13, <2>3, <3>1 DEF Ended, ServerNextError, Standing
    <3> QED
      BY <3>2, <3>3
  <2> QED
    BY <2>2, <2>3
<1>14. ASSUME ServerSendsFile PROVE TypeOK' /\ Standing'
  <2>1. TypeOK'
    BY <1>14 DEF ServerSendsFile, TypeOK, Statuses, ExcInfos, Exceptions, Exits, request, server
  <2>2. Standing'
    BY <1>14, SameRecords DEF ServerSendsFile, Standing, TypeOK, request, server
  <2> QED
    BY <2>1, <2>2
<1>15. ASSUME ServerClose PROVE TypeOK' /\ Standing'
  <2>1. FieldsTyped
    BY <1>15 DEF FieldsTyped, ServerClose, TypeOK, Statuses, ExcInfos, Exceptions, Exits
  <2>2. CASE iter = "file"
    <3>1. Logged
      BY <1>15, <2>1, <2>2, FinishFacts DEF ServerClose
    <3>2. OwnRecords = 0 /\ ~closed /\ appCloses = 0
      BY <1>15, <2>2 DEF ServerClose, Standing, TypeOK
    <3>3. OwnRecords' = 1 /\ Len(logs') # 0 /\ tracked' = FALSE
      BY <1>15, <3>1, <3>2, OneMoreRecord DEF ServerClose
    <3>4. appCloses' = 1 /\ closed' = closed /\ iter' = "file" /\ pc' = "over"
      BY <1>15, <2>2, <3>2 DEF ServerClose
    <3>5. tracked' \in BOOLEAN /\ closed' \in BOOLEAN
      BY <1>15, <2>2, Zenon DEF ServerClose, Finish, TypeOK
    <3>6. logs' \in Seq(Records) /\ UNCHANGED <<called, sent, headersSent, workerExit, calls, chunks, raised>>
      BY <1>15, <3>1 DEF Logged, ServerClose, server
    <3>7. TypeOK'
      BY <2>1, <3>4, <3>5, <3>6 DEF FieldsTyped, TypeOK
    <3>8. Standing'
      BY <3>2, <3>3, <3>4, <3>6 DEF Standing
    <3> QED
      BY <3>7, <3>8
  <2>3. CASE iter # "file"
    <3>1. Ended
      BY <1>15, <2>1, <2>3, CloseFacts, ClosesEnds DEF ServerClose
    <3>2. TypeOK'
      BY <1>15, <2>1, <3>1 DEF Ended, FieldsTyped, ServerClose, TypeOK, server
    <3>3. Standing'
      BY <1>15, <2>3, <3>1 DEF Ended, ServerClose, Standing, server
    <3> QED
      BY <3>2, <3>3
  <2> QED
    BY <2>2, <2>3
<1>16. ASSUME WorkerExit PROVE TypeOK' /\ Standing'
  <2>1. FieldsTyped
    BY <1>16 DEF FieldsTyped, WorkerExit, TypeOK, Statuses, ExcInfos, Exceptions, Exits
  <2>2. Len(logs) \in Nat /\ tracked \in BOOLEAN
    BY DEF TypeOK
  <2>3. CASE tracked
    <3>1. Logged /\ workerExit' = "finished"
      BY <1>16, <2>1, <2>3, FinishFacts DEF WorkerExit
    <3>2. Len(logs') = Len(logs) + 1 /\ tracked' = FALSE /\ logs' \in Seq(Records)
      BY <3>1 DEF Logged
    <3>3. OwnRecords' = OwnRecords /\ Len(logs') # 0
      BY <1>16, <2>2, <3>1, <3>2 DEF OwnRecords, WorkerExit
    <3>4. TypeOK'
      BY <1>16, <2>1, <3>1, <3>2 DEF FieldsTyped, WorkerExit, TypeOK, server
    <3>5. Standing'
      BY <1>16, <3>1, <3>2, <3>3 DEF WorkerExit, Standing, server
    <3> QED
      BY <3>4, <3>5
  <2>4. CASE ~tracked
    <3>1. OwnRecords' = OwnRecords /\ logs' = logs /\ tracked' = tracked /\ workerExit' = "idle"
      BY <1>16, <2>4 DEF OwnRecords, WorkerExit, NotFinished
    <3>2. TypeOK'
      BY <1>16, <2>1, <3>1 DEF FieldsTyped, WorkerExit, TypeOK, server
    <3>3. Standing'
      BY <1>16, <2>4, <3>1 DEF WorkerExit, Standing, server
    <3> QED
      BY <3>2, <3>3
  <2> QED
    BY <2>2, <2>3, <2>4
<1>17. ASSUME ProcessEnds PROVE TypeOK' /\ Standing'
  <2>1. TypeOK'
    BY <1>17 DEF ProcessEnds, TypeOK, request, server
  <2>2. Standing'
    BY <1>17, SameRecords DEF ProcessEnds, Standing, TypeOK, request, server
  <2> QED
    BY <2>1, <2>2
<1>18. CASE UNCHANGED vars
  BY <1>18, SameRecords DEF vars, TypeOK, Standing, request, server
<1> QED
  BY <1>1, <1>2, <1>3, <1>4, <1>5, <1>6, <1>7, <1>8, <1>9, <1>10, <1>11, <1>12, <1>13, <1>14, <1>15, <1>16, <1>17, <1>18 DEF Next, AppStep, ServerStep

\* Every step keeps what is known of the error response and the server.
LEMMA SwitchedStep ==
  ASSUME TypeOK, TypeOK', Standing, Switched, Told, [Next]_vars PROVE (Switched /\ Told)'
<1>1. ASSUME NEW st \in AppStatuses, NEW e \in {NoExc} \cup Exceptions, AppStartResponse(st, e) PROVE (Switched /\ Told)'
  BY <1>1
     DEF AppStartResponse, Switched, Told, Standing, request, server
<1>2. ASSUME NEW i \in {"app", "items"}, AppReturns(i) PROVE (Switched /\ Told)'
  BY <1>2
     DEF AppReturns, Switched, Told, Standing, request, server
<1>3. ASSUME AppReturnsUnusable PROVE (Switched /\ Told)'
  BY <1>3
     DEF AppReturnsUnusable, Switched, Told, Standing, request, server
<1>4. ASSUME AppReturnsFile PROVE (Switched /\ Told)'
  BY <1>4
     DEF AppReturnsFile, CallStartResponse, Switched, Told, Standing, request, server
<1>5. ASSUME NEW e \in Exceptions, AppCallRaises(e) PROVE (Switched /\ Told)'
  BY <1>5, SwitchFacts
     DEF AppCallRaises, Switched, Told, Standing, request, server
<1>6. ASSUME NEW e \in Exceptions, AppNextRaises(e) PROVE (Switched /\ Told)'
  BY <1>6, SwitchFacts
     DEF AppNextRaises, NotClosed, NotFinished, Switched, Told, Standing, request, server
<1>7. ASSUME NEW e \in Exits, AppCallExits(e) PROVE (Switched /\ Told)'
  BY <1>7
     DEF AppCallExits, NotFinished, Switched, Told, Standing, request, server
<1>8. ASSUME NEW e \in Exits, AppNextExits(e) PROVE (Switched /\ Told)'
  BY <1>8
     DEF AppNextExits, Switched, Told, Standing, request, server
<1>9. ASSUME AppYields PROVE (Switched /\ Told)'
  BY <1>9, CallFacts
     DEF AppYields, NotClosed, NotFinished, Switched, Told, Standing, request, server
<1>10. ASSUME AppStops PROVE (Switched /\ Told)'
  BY <1>10, CallFacts
     DEF AppStops, Switched, Told, Standing, request, server
<1>11. ASSUME AppNextGeneratorExit PROVE (Switched /\ Told)'
  BY <1>11, CallFacts
     DEF AppNextGeneratorExit, NotClosed, NotFinished, Switched, Told, Standing, request, server
<1>12. ASSUME ServerNext PROVE (Switched /\ Told)'
  BY <1>12, CallFacts
     DEF ServerNext, Switched, Told, Standing, request, server
<1>13. ASSUME ServerNextError PROVE (Switched /\ Told)'
  BY <1>13
     DEF ServerNextError, NotClosed, NotFinished, Switched, Told, Standing, request, server
<1>14. ASSUME ServerSendsFile PROVE (Switched /\ Told)'
  BY <1>14
     DEF ServerSendsFile, Switched, Told, Standing, request, server
<1>15. ASSUME ServerClose PROVE (Switched /\ Told)'
  BY <1>15
     DEF ServerClose, Switched, Told, Standing, request, server
<1>16. ASSUME WorkerExit PROVE (Switched /\ Told)'
  BY <1>16
     DEF WorkerExit, NotFinished, Switched, Told, Standing, request, server
<1>17. ASSUME ProcessEnds PROVE (Switched /\ Told)'
  BY <1>17 DEF ProcessEnds, Switched, Told, Standing, request, server
<1>18. CASE UNCHANGED vars
  BY <1>18 DEF vars, Switched, Told, Standing, request, server
<1> QED
  BY <1>1, <1>2, <1>3, <1>4, <1>5, <1>6, <1>7, <1>8, <1>9, <1>10, <1>11, <1>12, <1>13, <1>14, <1>15, <1>16, <1>17, <1>18 DEF Next, AppStep, ServerStep

\* Every step keeps what is to be reported.
LEMMA TruthStep ==
  ASSUME TypeOK, TypeOK', Standing, Standing', Told, Switched, Truth, [Next]_vars PROVE Truth'
<1> USE DEF TypeOK
<1>1. ASSUME NEW st \in AppStatuses, NEW e \in {NoExc} \cup Exceptions, AppStartResponse(st, e) PROVE Truth'
  BY <1>1
     DEF AppStartResponse, Truth, Told, Switched, Standing, Exceptions, Exits, NoStatus, NoExc, ErrorStatus, request, server
<1>2. ASSUME NEW i \in {"app", "items"}, AppReturns(i) PROVE Truth'
  BY <1>2
     DEF AppReturns, Truth, Told, Switched, Standing, Exceptions, Exits, NoStatus, NoExc, ErrorStatus, request, server
<1>3. ASSUME AppReturnsUnusable PROVE Truth'
  BY <1>3
     DEF AppReturnsUnusable, Truth, Told, Switched, Standing, Exceptions, Exits, NoStatus, NoExc, ErrorStatus, request, server
<1>4. ASSUME AppReturnsFile PROVE Truth'
  BY <1>4
     DEF AppReturnsFile, CallStartResponse, Truth, Told, Switched, Standing, Exceptions, Exits, NoStatus, NoExc, ErrorStatus, request, server
<1>5. ASSUME NEW e \in Exceptions, AppCallRaises(e) PROVE Truth'
  BY <1>5, SwitchFacts
     DEF AppCallRaises, Truth, Told, Switched, Standing, Exceptions, Exits, NoStatus, NoExc, ErrorStatus, request, server
<1>6. ASSUME NEW e \in Exceptions, AppNextRaises(e) PROVE Truth'
  <2>1. raised.exc = NoExc /\ iter \in {"app", "items"}
    BY <1>6 DEF AppNextRaises, Standing, Truth
  <2>2. excInfo' = e /\ status' = ErrorStatus /\ (timedout' <=> (timedout \/ e = "RequestTimeout"))
    BY <1>6, SwitchFacts DEF AppNextRaises
  <2>3. raised'.exc = e /\ e # NoExc /\ workerExit' = workerExit
    BY <1>6 DEF AppNextRaises, Exceptions, NoExc
  <2>4. timedout' <=> (raised'.exc = "RequestTimeout" \/ workerExit' = "finished")
    BY <2>1, <2>2, <2>3 DEF Truth, NoExc
  <2>5. pc' = "ended" \/ iter' = "drained"
    BY <1>6 DEF AppNextRaises
  <2> QED
    BY <2>2, <2>3, <2>4, <2>5 DEF Truth
<1>7. ASSUME NEW e \in Exits, AppCallExits(e) PROVE Truth'
  BY <1>7
     DEF AppCallExits, NotFinished, Truth, Told, Switched, Standing, Exceptions, Exits, NoStatus, NoExc, ErrorStatus, request, server
<1>8. ASSUME NEW e \in Exits, AppNextExits(e) PROVE Truth'
  BY <1>8
     DEF AppNextExits, Truth, Told, Switched, Standing, Exceptions, Exits, NoStatus, NoExc, ErrorStatus, request, server
<1>9. ASSUME AppYields PROVE Truth'
  BY <1>9, CallFacts
     DEF AppYields, NotClosed, NotFinished, Truth, Told, Switched, Standing, Exceptions, Exits, NoStatus, NoExc, ErrorStatus, request, server
<1>10. ASSUME AppStops PROVE Truth'
  BY <1>10, CallFacts
     DEF AppStops, Truth, Told, Switched, Standing, Exceptions, Exits, NoStatus, NoExc, ErrorStatus, request, server
<1>11. ASSUME AppNextGeneratorExit PROVE Truth'
  BY <1>11, CallFacts
     DEF AppNextGeneratorExit, NotClosed, NotFinished, Truth, Told, Switched, Standing, Exceptions, Exits, NoStatus, NoExc, ErrorStatus, request, server
<1>12. ASSUME ServerNext PROVE Truth'
  BY <1>12, CallFacts
     DEF ServerNext, Truth, Told, Switched, Standing, Exceptions, Exits, NoStatus, NoExc, ErrorStatus, request, server
<1>13. ASSUME ServerNextError PROVE Truth'
  BY <1>13
     DEF ServerNextError, NotClosed, NotFinished, Truth, Told, Switched, Standing, Exceptions, Exits, NoStatus, NoExc, ErrorStatus, request, server
<1>14. ASSUME ServerSendsFile PROVE Truth'
  BY <1>14
     DEF ServerSendsFile, Truth, Told, Switched, Standing, Exceptions, Exits, NoStatus, NoExc, ErrorStatus, request, server
<1>15. ASSUME ServerClose PROVE Truth'
  BY <1>15
     DEF ServerClose, Truth, Told, Switched, Standing, Exceptions, Exits, NoStatus, NoExc, ErrorStatus, request, server
<1>16. ASSUME WorkerExit PROVE Truth'
  BY <1>16
     DEF WorkerExit, NotFinished, Truth, Told, Switched, Standing, Exceptions, Exits, NoStatus, NoExc, ErrorStatus, request, server
<1>17. ASSUME ProcessEnds PROVE Truth'
  BY <1>17 DEF ProcessEnds, Truth, Standing, OwnRecords, request, server
<1>18. CASE UNCHANGED vars
  BY <1>18 DEF vars, Truth, Told, Switched, Standing, Exceptions, Exits, NoStatus, NoExc, ErrorStatus, request, server
<1> QED
  BY <1>1, <1>2, <1>3, <1>4, <1>5, <1>6, <1>7, <1>8, <1>9, <1>10, <1>11, <1>12, <1>13, <1>14, <1>15, <1>16, <1>17, <1>18 DEF Next, AppStep, ServerStep

\* Records are only ever added, one at a time, of the fields as they are.
LEMMA RecordsAdded ==
  ASSUME TypeOK, Standing, [Next]_vars PROVE logs' = logs \/ Logged
<1>1. ASSUME NEW st \in AppStatuses, NEW e \in {NoExc} \cup Exceptions, AppStartResponse(st, e) PROVE logs' = logs \/ Logged
  BY <1>1 DEF AppStartResponse
<1>2. ASSUME NEW i \in {"app", "items"}, AppReturns(i) PROVE logs' = logs \/ Logged
  BY <1>2 DEF AppReturns
<1>3. ASSUME AppReturnsUnusable PROVE logs' = logs \/ Logged
  BY <1>3 DEF AppReturnsUnusable
<1>4. ASSUME AppReturnsFile PROVE logs' = logs \/ Logged
  BY <1>4 DEF AppReturnsFile
<1>5. ASSUME NEW e \in Exceptions, AppCallRaises(e) PROVE logs' = logs \/ Logged
  BY <1>5 DEF AppCallRaises
<1>6. ASSUME NEW e \in Exceptions, AppNextRaises(e) PROVE logs' = logs \/ Logged
  <2>1. FieldsTyped
    BY <1>6, SwitchFacts DEF FieldsTyped, AppNextRaises, TypeOK, Statuses, ExcInfos, Exceptions, Exits
  <2> QED
    BY <1>6, <2>1, CloseFacts DEF AppNextRaises, NotClosed, NotFinished, Closes
<1>7. ASSUME NEW e \in Exits, AppCallExits(e) PROVE logs' = logs \/ Logged
  <2>1. FieldsTyped
    BY <1>7 DEF FieldsTyped, AppCallExits, TypeOK, Statuses, ExcInfos, Exceptions, Exits
  <2> QED
    BY <1>7, <2>1, FinishFacts DEF AppCallExits, NotFinished
<1>8. ASSUME NEW e \in Exits, AppNextExits(e) PROVE logs' = logs \/ Logged
  <2>1. FieldsTyped
    BY <1>8 DEF FieldsTyped, AppNextExits, TypeOK, Statuses, ExcInfos, Exceptions, Exits
  <2> QED
    BY <1>8, <2>1, CloseFacts DEF AppNextExits, Closes
<1>9. ASSUME AppYields PROVE logs' = logs \/ Logged
  BY <1>9 DEF AppYields, NotClosed, NotFinished
<1>10. ASSUME AppStops PROVE logs' = logs \/ Logged
  <2>1. FieldsTyped
    BY <1>10 DEF FieldsTyped, AppStops, TypeOK, Statuses, ExcInfos, Exceptions, Exits
  <2> QED
    BY <1>10, <2>1, CloseFacts DEF AppStops, Closes
<1>11. ASSUME AppNextGeneratorExit PROVE logs' = logs \/ Logged
  <2>1. FieldsTyped
    BY <1>11 DEF FieldsTyped, AppNextGeneratorExit, TypeOK, Statuses, ExcInfos, Exceptions, Exits
  <2> QED
    BY <1>11, <2>1, CloseFacts DEF AppNextGeneratorExit, NotClosed, NotFinished, Closes
<1>12. ASSUME ServerNext PROVE logs' = logs \/ Logged
  BY <1>12 DEF ServerNext
<1>13. ASSUME ServerNextError PROVE logs' = logs \/ Logged
  <2>1. FieldsTyped
    BY <1>13 DEF FieldsTyped, ServerNextError, TypeOK, Statuses, ExcInfos, Exceptions, Exits
  <2> QED
    BY <1>13, <2>1, CloseFacts DEF ServerNextError, NotClosed, NotFinished, Closes
<1>14. ASSUME ServerSendsFile PROVE logs' = logs \/ Logged
  BY <1>14 DEF ServerSendsFile
<1>15. ASSUME ServerClose PROVE logs' = logs \/ Logged
  <2>1. FieldsTyped
    BY <1>15 DEF FieldsTyped, ServerClose, TypeOK, Statuses, ExcInfos, Exceptions, Exits
  <2> QED
    BY <1>15, <2>1, CloseFacts, FinishFacts DEF ServerClose, Closes
<1>16. ASSUME WorkerExit PROVE logs' = logs \/ Logged
  <2>1. FieldsTyped
    BY <1>16 DEF FieldsTyped, WorkerExit, TypeOK, Statuses, ExcInfos, Exceptions, Exits
  <2> QED
    BY <1>16, <2>1, FinishFacts DEF WorkerExit, NotFinished
<1>17. ASSUME ProcessEnds PROVE logs' = logs \/ Logged
  BY <1>17 DEF ProcessEnds
<1>18. CASE UNCHANGED vars
  BY <1>18 DEF vars
<1> QED
  BY <1>1, <1>2, <1>3, <1>4, <1>5, <1>6, <1>7, <1>8, <1>9, <1>10, <1>11, <1>12, <1>13, <1>14, <1>15, <1>16, <1>17, <1>18 DEF Next, AppStep, ServerStep

\* Once its own end is logged, a request's fields stay as they were logged.
LEMMA ReportedStep ==
  ASSUME TypeOK, Standing, Reported, [Next]_vars PROVE Reported'
<1> DEFINE Same == UNCHANGED <<status, excInfo, timedout>> /\ OwnRecords' = OwnRecords
           None == OwnRecords' = 0
<1>101. logs' = logs /\ (Same \/ None) => Reported'
  BY DEF Reported
<1>102. Logged => Reported'
  BY DEF Logged, Reported
<1> SUFFICES ASSUME logs' = logs, ~Logged PROVE Same \/ None
  BY <1>101, <1>102, RecordsAdded
<1>1. ASSUME NEW st \in AppStatuses, NEW e \in {NoExc} \cup Exceptions, AppStartResponse(st, e) PROVE Same \/ None
  BY <1>1, SameRecords DEF AppStartResponse, Standing
<1>2. ASSUME NEW i \in {"app", "items"}, AppReturns(i) PROVE Same \/ None
  BY <1>2, SameRecords DEF AppReturns, request
<1>3. ASSUME AppReturnsUnusable PROVE Same \/ None
  BY <1>3, SameRecords DEF AppReturnsUnusable, request
<1>4. ASSUME AppReturnsFile PROVE Same \/ None
  BY <1>4, SameRecords DEF AppReturnsFile, request
<1>5. ASSUME NEW e \in Exceptions, AppCallRaises(e) PROVE Same \/ None
  BY <1>5, SameRecords DEF AppCallRaises, Standing
<1>6. ASSUME NEW e \in Exceptions, AppNextRaises(e) PROVE Same \/ None
  BY <1>6, SameRecords DEF AppNextRaises, Standing
<1>7. ASSUME NEW e \in Exits, AppCallExits(e) PROVE Same \/ None
  BY <1>7, SameRecords DEF AppCallExits, Standing
<1>8. ASSUME NEW e \in Exits, AppNextExits(e) PROVE Same \/ None
  BY <1>8, SameRecords DEF AppNextExits, Standing
<1>9. ASSUME AppYields PROVE Same \/ None
  BY <1>9, SameRecords DEF AppYields, request
<1>10. ASSUME AppStops PROVE Same \/ None
  BY <1>10, SameRecords DEF AppStops, Standing
<1>11. ASSUME AppNextGeneratorExit PROVE Same \/ None
  BY <1>11, SameRecords DEF AppNextGeneratorExit, request
<1>12. ASSUME ServerNext PROVE Same \/ None
  BY <1>12, SameRecords DEF ServerNext, request
<1>13. ASSUME ServerNextError PROVE Same \/ None
  BY <1>13, SameRecords DEF ServerNextError, request
<1>14. ASSUME ServerSendsFile PROVE Same \/ None
  BY <1>14, SameRecords DEF ServerSendsFile, request
<1>15. ASSUME ServerClose PROVE Same \/ None
  BY <1>15, SameRecords DEF ServerClose, request
<1>16. ASSUME WorkerExit PROVE Same \/ None
  <2>1. FieldsTyped
    BY <1>16 DEF FieldsTyped, WorkerExit, TypeOK, Statuses, ExcInfos, Exceptions
  <2>2. ~tracked
    BY <1>16, <2>1, FinishFacts DEF WorkerExit
  <2> QED
    BY <1>16, <2>2 DEF WorkerExit, OwnRecords
<1>17. ASSUME ProcessEnds PROVE Same \/ None
  BY <1>17, SameRecords DEF ProcessEnds, request
<1>18. CASE UNCHANGED vars
  BY <1>18, SameRecords DEF vars, request
<1> QED
  BY <1>1, <1>2, <1>3, <1>4, <1>5, <1>6, <1>7, <1>8, <1>9, <1>10, <1>11, <1>12, <1>13, <1>14, <1>15, <1>16, <1>17, <1>18 DEF Next, AppStep, ServerStep

\* The record of worker_exit stays, and the status it tells is the only one.
LEMMA ReportedExitStep ==
  ASSUME TypeOK, Standing, Truth, ReportedExit, [Next]_vars PROVE ReportedExit'
<1> DEFINE Stays ==
             workerExit' = "finished" =>
               /\ workerExit = "finished"
               /\ raised'.exc = NoExc /\ calls' <= 1 =>
                    /\ raised.exc = NoExc /\ calls <= 1
                    /\ logs[1].status \in {NoStatus, status} => logs[1].status \in {NoStatus, status'}
<1>101. workerExit = "finished" => logs'[1] = logs[1]
  <2>1. Len(logs) \in Nat /\ (workerExit = "finished" => Len(logs) > 0)
    BY DEF TypeOK, Standing, OwnRecords
  <2> QED
    BY <2>1, RecordsAdded DEF Logged
<1>102. Stays => ReportedExit'
  BY <1>101 DEF ReportedExit
<1>1. ASSUME NEW st \in AppStatuses, NEW e \in {NoExc} \cup Exceptions, AppStartResponse(st, e) PROVE ReportedExit'
  BY <1>1, <1>102 DEF AppStartResponse, Truth, TypeOK, Standing
<1>2. ASSUME NEW i \in {"app", "items"}, AppReturns(i) PROVE ReportedExit'
  BY <1>2, <1>102 DEF AppReturns, request
<1>3. ASSUME AppReturnsUnusable PROVE ReportedExit'
  BY <1>3, <1>102 DEF AppReturnsUnusable, request
<1>4. ASSUME AppReturnsFile PROVE ReportedExit'
  BY <1>4, <1>102 DEF AppReturnsFile, request
<1>5. ASSUME NEW e \in Exceptions, AppCallRaises(e) PROVE ReportedExit'
  BY <1>5, <1>102 DEF AppCallRaises, Exceptions, NoExc
<1>6. ASSUME NEW e \in Exceptions, AppNextRaises(e) PROVE ReportedExit'
  BY <1>6, <1>102 DEF AppNextRaises, Exceptions, NoExc
<1>7. ASSUME NEW e \in Exits, AppCallExits(e) PROVE ReportedExit'
  BY <1>7, <1>102 DEF AppCallExits, request
<1>8. ASSUME NEW e \in Exits, AppNextExits(e) PROVE ReportedExit'
  BY <1>8, <1>102 DEF AppNextExits, request
<1>9. ASSUME AppYields PROVE ReportedExit'
  BY <1>9, <1>102 DEF AppYields, request
<1>10. ASSUME AppStops PROVE ReportedExit'
  BY <1>10, <1>102 DEF AppStops, request
<1>11. ASSUME AppNextGeneratorExit PROVE ReportedExit'
  BY <1>11, <1>102 DEF AppNextGeneratorExit, request
<1>12. ASSUME ServerNext PROVE ReportedExit'
  BY <1>12, <1>102 DEF ServerNext, request
<1>13. ASSUME ServerNextError PROVE ReportedExit'
  BY <1>13, <1>102 DEF ServerNextError, request
<1>14. ASSUME ServerSendsFile PROVE ReportedExit'
  BY <1>14, <1>102 DEF ServerSendsFile, request
<1>15. ASSUME ServerClose PROVE ReportedExit'
  BY <1>15, <1>102 DEF ServerClose, request
<1>16. ASSUME WorkerExit PROVE ReportedExit'
  <2>1. CASE tracked
    <3>1. FieldsTyped
      BY <1>16 DEF FieldsTyped, WorkerExit, TypeOK, Statuses, ExcInfos, Exceptions
    <3>2. Len(logs) = 0 /\ Logged
      BY <1>16, <2>1, <3>1, FinishFacts DEF WorkerExit, Standing
    <3>3. logs'[1] = [status |-> status', exc |-> excInfo', timedout |-> timedout']
      BY <3>2 DEF Logged
    <3> QED
      BY <1>16, <2>1, <3>3 DEF WorkerExit, ReportedExit
  <2>2. CASE ~tracked
    BY <1>16, <2>2 DEF WorkerExit, ReportedExit
  <2> QED
    BY <2>1, <2>2
<1>17. ASSUME ProcessEnds PROVE ReportedExit'
  BY <1>17, <1>102 DEF ProcessEnds, request
<1>18. CASE UNCHANGED vars
  BY <1>18, <1>102 DEF vars, request
<1> QED
  BY <1>1, <1>2, <1>3, <1>4, <1>5, <1>6, <1>7, <1>8, <1>9, <1>10, <1>11, <1>12, <1>13, <1>14, <1>15, <1>16, <1>17, <1>18 DEF Next, AppStep, ServerStep

\* All that is known of a request, at every moment.
LEMMA Invariance == Spec => []IInv
<1>1. Init => IInv
  <2> SUFFICES ASSUME Init PROVE IInv
    OBVIOUS
  <2>1. logs \in Seq(Records)
    BY DEF Init
  <2>2. raised \in [exc : Exceptions \cup {NoExc}, early : BOOLEAN]
    BY DEF Init
  <2>3. TypeOK
    <3>1. status \in Statuses /\ sent \in Statuses /\ excInfo \in ExcInfos
      BY DEF Init, Statuses, ExcInfos
    <3>2. called \in BOOLEAN /\ timedout \in BOOLEAN /\ closed \in BOOLEAN /\ tracked \in BOOLEAN
          /\ headersSent \in BOOLEAN
      BY DEF Init
    <3>3. appCloses \in 0..1 /\ calls \in 0..MaxCalls /\ chunks \in 0..MaxChunks
      BY DEF Init
    <3>4. pc = "app" /\ iter = "none" /\ workerExit = "no"
      BY DEF Init
    <3> QED
      BY <2>1, <2>2, <3>1, <3>2, <3>3, <3>4 DEF TypeOK
  <2>4. Standing /\ Switched /\ Told /\ Truth /\ Reported /\ ReportedExit
    BY DEF Init, Standing, OwnRecords, Switched, Told, Truth, Reported, ReportedExit, NoExc
  <2> QED
    BY <2>3, <2>4 DEF IInv
<1>2. IInv /\ [Next]_vars => IInv'
  BY StandingStep, SwitchedStep, TruthStep, ReportedStep, ReportedExitStep DEF IInv
<1> QED
  BY <1>1, <1>2, PTL DEF Spec

\* What ServerToldOnce says of a step.
ServerToldStep == sent' # sent => ~headersSent /\ (sent = NoStatus \/ sent' = ErrorStatus)

\* No step tells the server a second status but that of the error response.
LEMMA ToldStep ==
  ASSUME TypeOK, Standing, Told, [Next]_vars PROVE ServerToldStep
<1>1. ASSUME NEW st \in AppStatuses, NEW e \in {NoExc} \cup Exceptions, AppStartResponse(st, e) PROVE ServerToldStep
  BY <1>1
     DEF AppStartResponse, ServerToldStep, Told, Standing, request, server
<1>2. ASSUME NEW i \in {"app", "items"}, AppReturns(i) PROVE ServerToldStep
  BY <1>2
     DEF AppReturns, ServerToldStep, Told, Standing, request, server
<1>3. ASSUME AppReturnsUnusable PROVE ServerToldStep
  BY <1>3
     DEF AppReturnsUnusable, ServerToldStep, Told, Standing, request, server
<1>4. ASSUME AppReturnsFile PROVE ServerToldStep
  BY <1>4
     DEF AppReturnsFile, CallStartResponse, ServerToldStep, Told, Standing, request, server
<1>5. ASSUME NEW e \in Exceptions, AppCallRaises(e) PROVE ServerToldStep
  BY <1>5, SwitchFacts
     DEF AppCallRaises, ServerToldStep, Told, Standing, request, server
<1>6. ASSUME NEW e \in Exceptions, AppNextRaises(e) PROVE ServerToldStep
  BY <1>6, SwitchFacts
     DEF AppNextRaises, NotClosed, NotFinished, ServerToldStep, Told, Standing, request, server
<1>7. ASSUME NEW e \in Exits, AppCallExits(e) PROVE ServerToldStep
  BY <1>7
     DEF AppCallExits, NotFinished, ServerToldStep, Told, Standing, request, server
<1>8. ASSUME NEW e \in Exits, AppNextExits(e) PROVE ServerToldStep
  BY <1>8
     DEF AppNextExits, ServerToldStep, Told, Standing, request, server
<1>9. ASSUME AppYields PROVE ServerToldStep
  BY <1>9, CallFacts
     DEF AppYields, NotClosed, NotFinished, ServerToldStep, Told, Standing, request, server
<1>10. ASSUME AppStops PROVE ServerToldStep
  BY <1>10, CallFacts
     DEF AppStops, ServerToldStep, Told, Standing, request, server
<1>11. ASSUME AppNextGeneratorExit PROVE ServerToldStep
  BY <1>11, CallFacts
     DEF AppNextGeneratorExit, NotClosed, NotFinished, ServerToldStep, Told, Standing, request, server
<1>12. ASSUME ServerNext PROVE ServerToldStep
  BY <1>12, CallFacts
     DEF ServerNext, ServerToldStep, Told, Standing, request, server
<1>13. ASSUME ServerNextError PROVE ServerToldStep
  BY <1>13
     DEF ServerNextError, NotClosed, NotFinished, ServerToldStep, Told, Standing, request, server
<1>14. ASSUME ServerSendsFile PROVE ServerToldStep
  BY <1>14
     DEF ServerSendsFile, ServerToldStep, Told, Standing, request, server
<1>15. ASSUME ServerClose PROVE ServerToldStep
  BY <1>15
     DEF ServerClose, ServerToldStep, Told, Standing, request, server
<1>16. ASSUME WorkerExit PROVE ServerToldStep
  BY <1>16
     DEF WorkerExit, NotFinished, ServerToldStep, Told, Standing, request, server
<1>17. ASSUME ProcessEnds PROVE ServerToldStep
  BY <1>17 DEF ProcessEnds, ServerToldStep, Told, Standing, request, server
<1>18. CASE UNCHANGED vars
  BY <1>18 DEF vars, ServerToldStep, Told, Standing, request, server
<1> QED
  BY <1>1, <1>2, <1>3, <1>4, <1>5, <1>6, <1>7, <1>8, <1>9, <1>10, <1>11, <1>12, <1>13, <1>14, <1>15, <1>16, <1>17, <1>18 DEF Next, AppStep, ServerStep

-----------------------------------------------------------------------------
(* The theorems.                                                           *)

\* Type correctness of the request and of what surrounds it.
THEOREM TypeCorrect == Spec => []TypeOK
<1>1. IInv => TypeOK
  BY DEF IInv
<1> QED
  BY <1>1, Invariance, PTL

\* Every request is tracked until it is logged, and is logged once by its own
\* end, be it close(), the file wrapper's close or __call__; a second record
\* there is only when worker_exit has finished the request while it ran.
THEOREM LoggedByItsEnd == Spec => []LoggedOnce
<1>1. TypeOK /\ Standing => LoggedOnce
  <2> SUFFICES ASSUME TypeOK, Standing PROVE LoggedOnce
    OBVIOUS
  <2>1. Len(logs) \in Nat /\ (logs = <<>> <=> Len(logs) = 0)
    BY EmptySeq DEF TypeOK
  <2>2. Len(logs) = OwnRecords + (IF workerExit = "finished" THEN 1 ELSE 0) /\ OwnRecords \in 0..1
    BY <2>1 DEF OwnRecords, Standing
  <2> QED
    BY <2>1, <2>2 DEF Standing, LoggedOnce
<1> QED
  BY <1>1, Invariance, PTL DEF IInv

\* An exception raised before the headers are out always becomes the error
\* response, however often the application had called start_response.
THEOREM ErrorsAreAnswered == Spec => []ErrorsReachClient
<1>1. IInv => ErrorsReachClient
  BY DEF IInv, Switched, ErrorsReachClient
<1> QED
  BY <1>1, Invariance, PTL

\* The access log tells the exception and the status, and a timeout exactly when
\* there was one for the middleware or for worker_exit.
THEOREM LogIsTruthful == Spec => []TruthfulLog
<1>1. IInv => TruthfulLog
  <2> SUFFICES ASSUME IInv, NEW i \in DOMAIN logs
               PROVE  LET r == logs[i]
                          cutShort == workerExit = "finished"
                          ofExit == cutShort /\ i = 1
                      IN /\ r.timedout <=> raised.exc = "RequestTimeout" \/ cutShort
                         /\ ofExit => r.exc = "RequestTimeout"
                         /\ raised.exc # NoExc /\ ~ofExit =>
                              /\ r.exc = raised.exc \/ (cutShort /\ r.exc = "RequestTimeout")
                              /\ r.status = ErrorStatus
                         /\ raised.exc = NoExc /\ calls <= 1 /\ sent # NoStatus =>
                              r.status = sent \/ (ofExit /\ r.status = NoStatus)
    BY DEF TruthfulLog
  <2>1. Len(logs) \in Nat /\ i \in 1..Len(logs) /\ OwnRecords \in 0..1
    BY DEF IInv, TypeOK, Standing
  <2>2. CASE workerExit = "finished" /\ i = 1
    BY <2>2 DEF IInv, ReportedExit, Truth
  <2>3. CASE ~(workerExit = "finished" /\ i = 1)
    <3>1. OwnRecords = 1 /\ i = Len(logs)
      <4>1. CASE workerExit = "finished"
        <5>1. OwnRecords = Len(logs) - 1
          BY <4>1 DEF OwnRecords
        <5> QED
          BY <2>1, <2>3, <4>1, <5>1
      <4>2. CASE workerExit # "finished"
        <5>1. OwnRecords = Len(logs)
          BY <2>1, <4>2 DEF OwnRecords
        <5> QED
          BY <2>1, <5>1
      <4> QED
        BY <4>1, <4>2
    <3>2. logs[i] = [status |-> status, exc |-> excInfo, timedout |-> timedout]
      BY <3>1 DEF IInv, Reported
    <3> QED
      BY <2>3, <3>2 DEF IInv, Truth
  <2> QED
    BY <2>2, <2>3
<1> QED
  BY <1>1, Invariance, PTL

\* The response the wrapper holds is closed once, at the end.
THEOREM ResponseClosedOnce == Spec => []ClosedOnce
<1>1. TypeOK /\ Standing => ClosedOnce
  <2> SUFFICES ASSUME TypeOK, Standing PROVE ClosedOnce
    OBVIOUS
  <2>1. OwnRecords = 1 => ~tracked
    BY DEF TypeOK, Standing, OwnRecords
  <2> QED
    BY <2>1 DEF Standing, ClosedOnce
<1> QED
  BY <1>1, Invariance, PTL DEF IInv

\* The server's start_response is not called again once a header is out, and
\* before that only for the error response.
THEOREM ServerIsToldOnce == Spec => ServerToldOnce
<1>1. IInv /\ [Next]_vars => [ServerToldStep]_vars
  BY ToldStep DEF IInv
<1>2. [ServerToldStep]_vars => [sent' # sent => ~headersSent /\ (sent = NoStatus \/ sent' = ErrorStatus)]_vars
  BY DEF ServerToldStep
<1> QED
  BY <1>1, <1>2, Invariance, PTL DEF Spec, ServerToldOnce
=============================================================================
