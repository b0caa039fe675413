------------------------ MODULE StatusEndpoints_proofs ------------------------
(***************************************************************************)
(* Proofs about StatusEndpoints: that /check tells the truth about the    *)
(* application, that a report to sentry is one that the client was told    *)
(* of, and that a page shows the same to programs as to people, for any    *)
(* requests, any headers and any number of calls of start_response.        *)
(***************************************************************************)
EXTENDS StatusEndpoints, WellFoundedInduction, TLAPS

\* What the variables may be.  A page is none, that of an endpoint, or that of an
\* error with the headers of some start_response.
TypeOK ==
  /\ enabled \in BOOLEAN /\ request \in Requests
  /\ stage \in {"received", "routed", "app", "joined", "body", "done", "exited", "broken"}
  /\ debug \in BOOLEAN /\ id \in BOOLEAN /\ exc \in BOOLEAN /\ flowing \in BOOLEAN
  /\ failed \in BOOLEAN /\ late \in BOOLEAN /\ own \in BOOLEAN /\ restarted \in BOOLEAN /\ lost \in BOOLEAN
  /\ status \in Statuses \cup {"403", None} /\ said \in Statuses \cup {None}
  /\ headers \in Headers \cup {<<>>}
  /\ sent \in [status : Statuses \cup {"403"}, id : BOOLEAN] \cup {None}
  /\ start \in [status : Statuses, headers : Headers, exc : BOOLEAN] \cup {None}

\* Before the application or an endpoint is called nothing has happened; until it
\* has answered the server knows nothing; and once there is a status to pass on
\* there is one of the request.
BeforeInv ==
  /\ stage \in {"received", "routed"} =>
       /\ status = None /\ ~id /\ ~exc /\ start = None /\ said = None
       /\ ~failed /\ ~late /\ ~own
  /\ stage \in {"received", "routed", "app", "joined"} => sent = None /\ ~flowing
  /\ sent # None => status # None
  /\ sent = None /\ stage = "body" => ~Checks
  /\ stage \notin {"done", "exited"} => report = "none"

\* What nagios_start has kept is what the application said, and whether any call
\* of it had an exception; what check makes of that is true when it is made.
CheckInv ==
  Checks =>
    /\ stage \in {"app", "joined"} =>
         /\ start = None => said = None /\ ~failed
         /\ start # None => start.status = said /\ start.exc = failed
    /\ stage \in {"body", "done"} /\ ~late => (sent.status = "200" <=> Healthy)

\* The id in the headers that the server has got, or would get now.
Told == IF sent = None THEN id ELSE sent.id

\* The id is announced for what would be reported now; otherwise the application
\* has taken its exception back or lost the context.  The start_response of check
\* keeps an exception from the request.
ReportInv ==
  stage \notin {"done", "exited"} =>
    /\ Checks => ~own /\ (stage \in {"app", "joined"} => ~exc)
    /\ exc => Told \/ flowing \/ own
    /\ debug /\ status # None => Told
    /\ Told /\ ~exc /\ ~debug => restarted \/ lost

IInv == TypeOK /\ BeforeInv /\ CheckInv /\ ReportInv /\ ReportsAnnounced

-----------------------------------------------------------------------------
(* The steps.                                                              *)

\* An endpoint other than check answers, or its exception is answered.
Endpoint ==
  /\ stage = "routed" /\ ~Checks
  /\ Error \/ \E s \in {"200", "403"}, content \in {<<>>} \cup {PageOf(path) : path \in Endpoints} : Answer(s, content)
  /\ UNCHANGED <<enabled, request, start, report, history>>

\* What the endpoints without checks do.
LEMMA EndpointSteps ==
  Refuse \/ Public \/ Inform \/ Inspect \/ RaiseTest => Endpoint
<1>1. \A path \in Endpoints \ {"/check"} : Route(path) => stage = "routed" /\ ~Checks
  BY DEF Route, Checks
<1>2. \A path : Route(path) => UNCHANGED <<enabled, request, start, report, history>>
  BY DEF Route
<1>3. ASSUME Refuse PROVE Endpoint
  <2>1. PICK path \in PrivatePaths : Private(path)
    BY <1>3 DEF Refuse
  <2>2. path \in Endpoints \ {"/check"}
    BY DEF PrivatePaths, Endpoints
  <2>3. Route(path) /\ (Error \/ Answer("403", <<>>))
    BY <2>1 DEF Private
  <2> QED
    BY <1>1, <1>2, <2>2, <2>3 DEF Endpoint
<1>4. ASSUME Public PROVE Endpoint
  <2>1. PICK path \in {"/ping", "/index"} : Route(path) /\ Answer("200", PageOf(path))
    BY <1>4 DEF Public
  <2>2. path \in Endpoints \ {"/check"}
    BY DEF Endpoints
  <2> QED
    BY <1>1, <1>2, <2>1, <2>2 DEF Endpoint
<1>5. ASSUME Inform PROVE Endpoint
  <2>1. PICK path \in {"/info/config", "/info/packages", "/test/statsd", "/test/prometheus"} :
          Route(path) /\ Answer("200", PageOf(path))
    BY <1>5 DEF Inform
  <2>2. path \in Endpoints \ {"/check"}
    BY DEF Endpoints
  <2> QED
    BY <1>1, <1>2, <2>1, <2>2 DEF Endpoint
<1>6. ASSUME Inspect PROVE Endpoint
  <2>1. PICK path \in {"/info/workers", "/info/objgraph"} : Route(path) /\ (Error \/ Answer("200", PageOf(path)))
    BY <1>6 DEF Inspect
  <2>2. path \in Endpoints \ {"/check"}
    BY DEF Endpoints
  <2> QED
    BY <1>1, <1>2, <2>1, <2>2 DEF Endpoint
<1>7. ASSUME RaiseTest PROVE Endpoint
  <2>1. "/test/sentry" \in Endpoints \ {"/check"}
    BY DEF Endpoints
  <2> QED
    BY <1>1, <1>2, <1>7, <2>1 DEF Endpoint, RaiseTest
<1> QED
  BY <1>3, <1>4, <1>5, <1>6, <1>7

\* The steps that change what the invariants are about.
Step ==
  \/ Receive \/ ReceiveRaises \/ Endpoint \/ CallApp
  \/ \E s \in Statuses, h \in Headers, e \in BOOLEAN : AppStarts(s, h, e)
  \/ AppRunsJob \/ AppReturns \/ CheckJoins \/ CheckAnswers
  \/ AppRaises \/ AppBreaks \/ AppExits \/ Yield \/ Finish

\* Every action is one of the steps that the proofs tell apart.
LEMMA Steps == Next => Step
BY EndpointSteps DEF Next, Step

\* Nothing is neither a status nor what the server is told.
LEMMA NoneFacts ==
  /\ None \notin Statuses \cup {"403"}
  /\ \A s \in Statuses \cup {"403"}, b \in BOOLEAN : [status |-> s, id |-> b] # None
  /\ \A s \in Statuses, h \in Headers, b \in BOOLEAN : [status |-> s, headers |-> h, exc |-> b] # None
<1>1. \A s \in Statuses \cup {"403"}, b \in BOOLEAN :
        [status |-> s, id |-> b] \in [status : Statuses \cup {"403"}, id : BOOLEAN]
  OBVIOUS
<1>2. \A s \in Statuses, h \in Headers, b \in BOOLEAN :
        [status |-> s, headers |-> h, exc |-> b] \in [status : Statuses, headers : Headers, exc : BOOLEAN]
  OBVIOUS
<1> QED
  BY <1>1, <1>2, StatusAssumption

\* What check answers with is a status.
LEMMA VerdictFacts ==
  ASSUME TypeOK
  PROVE  Verdict \in Statuses
BY StatusAssumption DEF TypeOK, Verdict, Statuses

\* The types after each step.
LEMMA TypeStep ==
  ASSUME TypeOK, Step
  PROVE  TypeOK'
<1> USE DEF TypeOK
<1>1. CASE Receive
  BY <1>1 DEF Receive, response, history
<1>2. CASE ReceiveRaises
  BY <1>2 DEF ReceiveRaises, talisker, response, history
<1>3. CASE Endpoint
  <2>1. CASE Error
    BY <1>3, <2>1 DEF Endpoint, Error, Statuses, history
  <2>2. ASSUME NEW s \in {"200", "403"}, NEW content, Answer(s, content)
        PROVE  TypeOK'
    <3>1. exc' \in BOOLEAN
      BY <2>2, Zenon DEF Answer, StartResponse
    <3> QED
      BY <1>3, <2>2, <3>1 DEF Endpoint, Answer, StartResponse, Announces, Statuses, history
  <2> QED
    BY <1>3, <2>1, <2>2 DEF Endpoint
<1>4. CASE CallApp
  BY <1>4 DEF CallApp, talisker, response, history
<1>5. ASSUME NEW s \in Statuses, NEW h \in Headers, NEW e \in BOOLEAN, AppStarts(s, h, e)
      PROVE  TypeOK'
  <2>1. start' \in [status : Statuses, headers : Headers, exc : BOOLEAN] \cup {None}
    BY <1>5 DEF AppStarts, Kept
  <2> QED
    BY <1>5, <2>1 DEF AppStarts, StartResponse, Announces, talisker, response
<1>6. CASE AppRunsJob
  <2>1. lost' \in BOOLEAN
    BY <1>6 DEF AppRunsJob
  <2>2. debug' \in BOOLEAN
    BY <1>6, Zenon DEF AppRunsJob
  <2> QED
    BY <1>6, <2>1, <2>2 DEF AppRunsJob, response
<1>7. CASE AppReturns
  BY <1>7 DEF AppReturns, talisker, history
<1>8. CASE CheckJoins
  BY <1>8 DEF CheckJoins, talisker, response, history
<1>9. CASE CheckAnswers
  <2>1. headers' \in Headers \cup {<<>>}
    <3>1. headers' = IF HandsOn THEN start.headers ELSE <<>>
      BY <1>9 DEF CheckAnswers, StartResponse
    <3>2. HandsOn => start.headers \in Headers
      BY DEF HandsOn
    <3> QED
      BY <3>1, <3>2
  <2>2. /\ status' = Verdict /\ exc' = FALSE /\ stage' = "body"
        /\ sent' = [status |-> Verdict, id |-> id']
        /\ UNCHANGED <<enabled, request, debug, flowing, start, history>>
    BY <1>9 DEF CheckAnswers, StartResponse
  <2>3. id' \in BOOLEAN
    BY <1>9 DEF CheckAnswers, StartResponse, Announces
  <2>4. sent' \in [status : Statuses \cup {"403"}, id : BOOLEAN]
    BY <2>2, <2>3, VerdictFacts
  <2>5. status' \in Statuses /\ exc' \in BOOLEAN
    BY <2>2, VerdictFacts, Zenon
  <2> QED
    BY <2>1, <2>2, <2>3, <2>4, <2>5 DEF history
<1>10. CASE AppRaises
  BY <1>10 DEF AppRaises, Error, Statuses
<1>11. CASE AppBreaks
  BY <1>11 DEF AppBreaks, Statuses, history
<1>12. CASE Yield
  BY <1>12 DEF Yield, talisker, history
<1>13. CASE Finish
  <2>1. sent' \in [status : Statuses \cup {"403"}, id : BOOLEAN] \cup {None}
    BY <1>13 DEF Finish
  <2>2. debug' \in BOOLEAN
    BY <1>13, Zenon DEF Finish, FinishRequest
  <2>3. stage' = "done" /\ UNCHANGED <<enabled, request, status, headers, id, exc, flowing, start, history>>
    BY <1>13 DEF Finish
  <2> QED
    BY <2>1, <2>2, <2>3 DEF history
<1>14. CASE AppExits
  <2>1. PICK zero \in BOOLEAN :
          /\ exc' = (exc \/ ~zero)
          /\ IF zero /\ stage # "body" THEN UNCHANGED <<debug, soft, report>> ELSE FinishRequest(exc')
    BY <1>14 DEF AppExits
  <2>2. exc' \in BOOLEAN
    BY <2>1
  <2>3. debug' \in BOOLEAN
    BY <2>1, Zenon DEF FinishRequest
  <2>4. stage' = "exited" /\ UNCHANGED <<enabled, request, status, headers, id, response, start, history>>
    BY <1>14 DEF AppExits
  <2> QED
    BY <2>2, <2>3, <2>4 DEF response, history
<1> QED
  BY <1>1, <1>2, <1>3, <1>4, <1>5, <1>6, <1>7, <1>8, <1>9, <1>10, <1>11, <1>12, <1>13, <1>14 DEF Step

\* Before an application was called there is nothing of it.
LEMMA BeforeStep ==
  ASSUME TypeOK, BeforeInv, Step
  PROVE  BeforeInv'
<1> USE DEF BeforeInv, Checks, IsStatus
<1>1. CASE Receive
  BY <1>1 DEF Receive, response, history
<1>2. CASE ReceiveRaises
  BY <1>2 DEF ReceiveRaises, talisker, response, history
<1>3. CASE Endpoint
  <2>1. stage' = "body" /\ sent' # None /\ status' # None /\ UNCHANGED <<request, flowing, report>>
    <3>1. CASE Error
      BY <1>3, <3>1, NoneFacts DEF Endpoint, Error, Statuses
    <3>2. ASSUME NEW s \in {"200", "403"}, NEW content, Answer(s, content)
          PROVE  stage' = "body" /\ sent' # None /\ status' # None /\ UNCHANGED <<request, flowing, report>>
      <4>1. id' \in BOOLEAN
        BY <3>2 DEF Answer, StartResponse, Announces, TypeOK
      <4>2. s \in Statuses \cup {"403"}
        BY DEF Statuses
      <4>3. sent' # None /\ status' # None
        BY <3>2, <4>1, <4>2, NoneFacts DEF Answer, StartResponse
      <4> QED
        BY <1>3, <3>2, <4>3 DEF Endpoint, Answer
    <3> QED
      BY <1>3, <3>1, <3>2 DEF Endpoint
  <2>2. stage = "routed"
    BY <1>3 DEF Endpoint
  <2> QED
    BY <2>1, <2>2
<1>4. CASE CallApp
  BY <1>4 DEF CallApp, talisker, response, history
<1>5. ASSUME NEW s \in Statuses, NEW h \in Headers, NEW e \in BOOLEAN, AppStarts(s, h, e)
      PROVE  BeforeInv'
  BY <1>5, StatusAssumption DEF AppStarts, StartResponse, talisker, response, Running
<1>6. CASE AppRunsJob
  BY <1>6 DEF AppRunsJob, response, Running
<1>7. CASE AppReturns
  BY <1>7 DEF AppReturns, talisker, history
<1>8. CASE CheckJoins
  BY <1>8 DEF CheckJoins, talisker, response, history
<1>9. CASE CheckAnswers
  <2>1. id' \in BOOLEAN
    BY <1>9 DEF CheckAnswers, StartResponse, Announces, TypeOK
  <2>2. Verdict # None /\ [status |-> Verdict, id |-> id'] # None
    BY <2>1, VerdictFacts, NoneFacts
  <2> QED
    BY <1>9, <2>2 DEF CheckAnswers, StartResponse, history
<1>10. CASE AppRaises
  BY <1>10, NoneFacts DEF AppRaises, Error, Statuses, Running
<1>11. CASE AppBreaks
  BY <1>11, StatusAssumption DEF AppBreaks, Statuses, history, Running
<1>12. CASE Yield
  BY <1>12 DEF Yield, talisker, history
<1>13. CASE Finish
  BY <1>13 DEF Finish, history
<1>14. CASE AppExits
  BY <1>14 DEF AppExits, response, history, Running
<1> QED
  BY <1>1, <1>2, <1>3, <1>4, <1>5, <1>6, <1>7, <1>8, <1>9, <1>10, <1>11, <1>12, <1>13, <1>14 DEF Step

\* What the verdict of check is worth.
LEMMA VerdictIsTrue ==
  ASSUME TypeOK, CheckInv, Checks, stage \in {"app", "joined"}
  PROVE  Verdict = "200" <=> Healthy
<1>1. CASE start = None
  BY <1>1, NoneFacts DEF CheckInv, Verdict, Healthy, Statuses
<1>2. CASE start # None
  <2>1. start.status = said /\ start.exc = failed /\ start.status \in Statuses /\ start.exc \in BOOLEAN
    BY <1>2 DEF CheckInv, TypeOK
  <2>2. CASE start.exc
    BY <1>2, <2>1, <2>2 DEF Verdict, Healthy
  <2>3. CASE ~start.exc
    <3>1. Verdict = IF start.status = "404" THEN "200" ELSE start.status
      BY <1>2, <2>3 DEF Verdict
    <3>2. ~failed
      BY <2>1, <2>3
    <3> QED
      BY <2>1, <3>1, <3>2 DEF Healthy, Statuses
  <2> QED
    BY <2>1, <2>2, <2>3
<1> QED
  BY <1>1, <1>2

\* What the check knows of the application after each step.
LEMMA CheckStep ==
  ASSUME TypeOK, BeforeInv, CheckInv, Step
  PROVE  CheckInv'
<1> USE DEF CheckInv, Checks, IsStatus, Healthy
<1>1. CASE Receive
  BY <1>1 DEF Receive, response, history
<1>2. CASE ReceiveRaises
  BY <1>2 DEF ReceiveRaises, talisker, response, history
<1>3. CASE Endpoint
  BY <1>3 DEF Endpoint
<1>4. CASE CallApp
  BY <1>4 DEF CallApp, talisker, response, history, BeforeInv
<1>5. ASSUME NEW s \in Statuses, NEW h \in Headers, NEW e \in BOOLEAN, AppStarts(s, h, e)
      PROVE  CheckInv'
  <2>1. CASE ~Checks
    BY <1>5, <2>1 DEF AppStarts
  <2>2. CASE Checks
    <3>1. start' = [status |-> s, headers |-> h, exc |-> e \/ (start # None /\ start.exc)] /\ start' # None
      <4>1. start' = Kept(s, h, e)
        BY <1>5, <2>2 DEF AppStarts
      <4> QED
        BY <4>1, NoneFacts DEF Kept
    <3>2. stage \in {"app", "joined"} => start'.exc = failed'
      BY <1>5, <2>2, <3>1 DEF AppStarts, TypeOK
    <3>3. start'.status = said' /\ stage' = stage /\ (stage = "body" => late')
      BY <1>5, <3>1 DEF AppStarts
    <3>4. stage # "done"
      BY <1>5 DEF AppStarts, Running
    <3> QED
      BY <3>1, <3>2, <3>3, <3>4
  <2> QED
    BY <2>1, <2>2
<1>6. CASE AppRunsJob
  BY <1>6 DEF AppRunsJob, response
<1>7. CASE AppReturns
  BY <1>7 DEF AppReturns, talisker, history
<1>8. CASE CheckJoins
  BY <1>8 DEF CheckJoins, talisker, response, history
<1>9. CASE CheckAnswers
  <2>1. Verdict = "200" <=> Healthy
    BY <1>9, VerdictIsTrue DEF CheckAnswers
  <2>2. sent'.status = Verdict /\ stage' = "body" /\ UNCHANGED history
    BY <1>9 DEF CheckAnswers
  <2> QED
    BY <2>1, <2>2 DEF history
<1>10. CASE AppRaises
  <2>1. sent'.status = "500" /\ failed' /\ stage' = "body"
    BY <1>10 DEF AppRaises, Error
  <2> QED
    BY <2>1
<1>11. CASE AppBreaks
  BY <1>11 DEF AppBreaks, history, Running
<1>12. CASE Yield
  BY <1>12 DEF Yield, talisker, history, BeforeInv
<1>13. CASE Finish
  BY <1>13 DEF Finish, history, BeforeInv
<1>14. CASE AppExits
  BY <1>14 DEF AppExits, history
<1> QED
  BY <1>1, <1>2, <1>3, <1>4, <1>5, <1>6, <1>7, <1>8, <1>9, <1>10, <1>11, <1>12, <1>13, <1>14 DEF Step

\* What was told and reported after each step.
LEMMA ReportStep ==
  ASSUME TypeOK, BeforeInv, ReportInv, Step
  PROVE  ReportInv'
<1> USE DEF ReportInv, Told, Checks, IsStatus
<1>1. CASE Receive
  BY <1>1 DEF Receive, response, history, BeforeInv
<1>2. CASE ReceiveRaises
  BY <1>2 DEF ReceiveRaises, talisker, response, history
<1>3. CASE Endpoint
  <2>1. CASE Error
    BY <1>3, <2>1, NoneFacts DEF Endpoint, Error, BeforeInv, history, Statuses
  <2>2. ASSUME NEW s \in {"200", "403"}, NEW content, Answer(s, content)
        PROVE  ReportInv'
    <3>1. sent' = [status |-> s, id |-> debug] /\ ~exc' /\ debug' = debug
      BY <1>3, <2>2 DEF Endpoint, Answer, StartResponse, Announces, BeforeInv, TypeOK
    <3>2. sent' # None
      BY <3>1, NoneFacts DEF TypeOK, Statuses
    <3> QED
      BY <1>3, <3>1, <3>2 DEF Endpoint
  <2> QED
    BY <1>3, <2>1, <2>2 DEF Endpoint
<1>4. CASE CallApp
  BY <1>4 DEF CallApp, talisker, response, history, BeforeInv
<1>5. ASSUME NEW s \in Statuses, NEW h \in Headers, NEW e \in BOOLEAN, AppStarts(s, h, e)
      PROVE  ReportInv'
  <2>1. CASE Checks
    BY <1>5, <2>1 DEF AppStarts, talisker, response, Running
  <2>2. CASE ~Checks
    <3>1. /\ id' = (exc \/ debug) /\ exc' = e /\ own' = e /\ debug' = debug
          /\ restarted' = (restarted \/ (exc /\ ~e))
          /\ UNCHANGED <<request, stage, sent, flowing, lost>>
      BY <1>5, <2>2 DEF AppStarts, StartResponse, Announces, response, TypeOK
    <3>2. sent # None => status # None
      BY DEF BeforeInv
    <3>3. stage # "done"
      BY <1>5 DEF AppStarts, Running
    <3> QED
      BY <2>2, <3>1, <3>2, <3>3
  <2> QED
    BY <2>1, <2>2
<1>6. CASE AppRunsJob
  BY <1>6 DEF AppRunsJob, response, Running
<1>7. CASE AppReturns
  <2>1. sent = None
    BY <1>7 DEF AppReturns, BeforeInv
  <2>2. stage = "app" /\ Told' = Told /\ ~Checks
    <3>1. [status |-> status, id |-> id].id = id
      OBVIOUS
    <3>2. CASE status = None
      BY <1>7, <2>1, <3>2 DEF AppReturns, talisker
    <3>3. CASE status # None
      BY <1>7, <2>1, <3>3, NoneFacts DEF AppReturns, talisker, TypeOK
    <3> QED
      BY <1>7, <3>2, <3>3 DEF AppReturns
  <2>3. UNCHANGED <<request, debug, status, exc, flowing, own, restarted, lost>>
    BY <1>7 DEF AppReturns, talisker, history
  <2> QED
    BY <2>2, <2>3
<1>8. CASE CheckJoins
  BY <1>8 DEF CheckJoins, talisker, response, history
<1>9. CASE CheckAnswers
  <2>1. ~exc /\ sent = None
    BY <1>9 DEF CheckAnswers, BeforeInv
  <2>2. sent' = [status |-> Verdict, id |-> debug] /\ ~exc' /\ debug' = debug
    BY <1>9, <2>1 DEF CheckAnswers, StartResponse, Announces, TypeOK
  <2>3. sent' # None
    BY <2>2, NoneFacts, VerdictFacts DEF TypeOK
  <2> QED
    BY <1>9, <2>2, <2>3 DEF CheckAnswers, history
<1>10. CASE AppRaises
  <2>1. sent' = [status |-> "500", id |-> TRUE] /\ exc' /\ stage' = "body"
    BY <1>10 DEF AppRaises, Error
  <2>2. sent' # None
    BY <2>1, NoneFacts DEF Statuses
  <2>3. request' = request /\ own' = own
    BY <1>10 DEF AppRaises
  <2>4. stage \notin {"done", "exited"}
    BY <1>10 DEF AppRaises, Running
  <2> QED
    BY <2>1, <2>2, <2>3, <2>4
<1>11. CASE AppBreaks
  BY <1>11 DEF AppBreaks, history, Running, BeforeInv
<1>12. CASE Yield
  BY <1>12, NoneFacts DEF Yield, talisker, history, TypeOK
<1>13. CASE Finish
  BY <1>13 DEF Finish
<1>14. CASE AppExits
  BY <1>14 DEF AppExits
<1> QED
  BY <1>1, <1>2, <1>3, <1>4, <1>5, <1>6, <1>7, <1>8, <1>9, <1>10, <1>11, <1>12, <1>13, <1>14 DEF Step

\* What finish_request reports.
LEMMA Reported ==
  ASSUME NEW e \in BOOLEAN, FinishRequest(e), debug \in BOOLEAN
  PROVE  /\ report' = "exception" => e
         /\ report' = "debug" => ~e /\ debug
         /\ report' \notin {"exception", "debug"} => ~enabled \/ report' = "failed" \/ (~e /\ ~debug)
BY DEF FinishRequest

\* What is reported is what the invariant speaks of.
LEMMA AnnouncedStep ==
  ASSUME TypeOK, BeforeInv, ReportInv, ReportsAnnounced, Step
  PROVE  ReportsAnnounced'
<1>1. CASE Finish
  <2>1. stage = "body" /\ status # None /\ Announced' = Told
    <3>1. stage = "body" /\ status # None /\ sent' = IF sent = None THEN [status |-> status, id |-> id] ELSE sent
      BY <1>1 DEF Finish
    <3>2. CASE sent = None
      BY <3>1, <3>2, NoneFacts DEF Announced, Told, TypeOK
    <3>3. CASE sent # None
      <4>1. sent' = sent /\ sent.id \in BOOLEAN
        BY <3>1, <3>3 DEF TypeOK
      <4> QED
        BY <3>1, <3>3, <4>1 DEF Announced, Told
    <3> QED
      BY <3>1, <3>2, <3>3
  <2>2. FinishRequest(exc) /\ exc \in BOOLEAN /\ debug \in BOOLEAN
    BY <1>1 DEF Finish, TypeOK
  <2>3. UNCHANGED <<enabled, flowing, own, restarted, lost>>
    BY <1>1 DEF Finish, history
  <2>4. /\ exc => Told \/ flowing \/ own
        /\ debug => Told
        /\ Told /\ ~exc /\ ~debug => restarted \/ lost
    BY <2>1 DEF ReportInv
  <2> QED
    BY <2>1, <2>2, <2>3, <2>4, Reported DEF ReportsAnnounced
<1>2. CASE AppExits
  <2>1. PICK zero \in BOOLEAN :
          /\ exc' = (exc \/ ~zero)
          /\ IF zero /\ stage # "body" THEN UNCHANGED <<debug, soft, report>> ELSE FinishRequest(exc')
    BY <1>2 DEF AppExits
  <2>2. stage' = "exited" /\ UNCHANGED <<enabled, flowing, sent, own, restarted, lost>> /\ Announced' = Announced
    BY <1>2 DEF AppExits, response, history, Announced
  <2>3. /\ Announced => sent # None /\ Told /\ stage = "body"
        /\ sent # None => status # None /\ (Told => Announced)
        /\ stage \notin {"done", "exited"} /\ report = "none"
    BY <1>2 DEF AppExits, Running, Announced, Told, BeforeInv
  <2>4. /\ debug /\ sent # None => Announced
        /\ Announced /\ ~exc /\ ~debug => restarted \/ lost
    BY <2>3 DEF ReportInv
  <2>5. CASE zero /\ stage # "body"
    BY <2>1, <2>2, <2>3, <2>5 DEF ReportsAnnounced
  <2>6. CASE ~(zero /\ stage # "body")
    <3>1. FinishRequest(exc') /\ exc' \in BOOLEAN /\ debug \in BOOLEAN /\ (exc => exc')
      BY <2>1, <2>6 DEF TypeOK
    <3>2. /\ report' = "debug" => debug
          /\ report' \notin {"exception", "debug"} => ~enabled \/ report' = "failed" \/ (~exc /\ ~debug)
      BY <3>1, Reported
    <3> QED
      BY <2>2, <2>4, <3>2 DEF ReportsAnnounced
  <2> QED
    BY <2>5, <2>6
<1>3. ASSUME ~Finish, ~AppExits PROVE stage' \notin {"done", "exited"}
  BY <1>3 DEF Step, Receive, ReceiveRaises, Endpoint, Error, Answer, CallApp, AppStarts, Running, AppRunsJob, AppReturns,
       CheckJoins, CheckAnswers, AppRaises, AppBreaks, Yield
<1> QED
  BY <1>1, <1>2, <1>3 DEF ReportsAnnounced

-----------------------------------------------------------------------------
(* The pages.                                                              *)

\* The same as PagesAgree, of one block and of any page.
BlockAgrees(b) ==
  b.id # NoId =>
    /\ b.text
    /\ JsonRows(b) \subseteq ToSet(b.rows)
    /\ \A row \in ToSet(b.rows) : row \in JsonRows(b) \/ (b.table /\ ~Distinct(b.rows, row))

Agrees(blocks) ==
  /\ Shown("text", blocks) \subseteq Shown("html", blocks)
  /\ Shown("json", blocks) \subseteq Shown("text", blocks)
  /\ \A b \in ToSet(blocks) : b.id # NoId =>
       \A row \in ToSet(b.rows) : row \in Shown("json", blocks) \/ (b.table /\ ~Distinct(b.rows, row))

\* A page agrees when each of its blocks does.
LEMMA PageAgrees ==
  ASSUME NEW blocks, \A b \in ToSet(blocks) : BlockAgrees(b)
  PROVE  Agrees(blocks)
<1> DEFINE Html == {ToSet(b.rows) : b \in ToSet(blocks)}
           Text == {IF b.text THEN ToSet(b.rows) ELSE {} : b \in ToSet(blocks)}
           Json == {IF b.id = NoId THEN {} ELSE JsonRows(b) : b \in ToSet(blocks)}
<1>1. /\ Shown("html", blocks) = UNION Html
      /\ Shown("text", blocks) = UNION Text
      /\ Shown("json", blocks) = UNION Json
  BY DEF Shown
<1>2. UNION Text \subseteq UNION Html
  OBVIOUS
<1>3. ASSUME NEW b \in ToSet(blocks), NEW row \in IF b.id = NoId THEN {} ELSE JsonRows(b)
      PROVE  b.text /\ row \in ToSet(b.rows)
  BY <1>3 DEF BlockAgrees
<1>4. UNION Json \subseteq UNION Text
  BY <1>3
<1>5. ASSUME NEW b \in ToSet(blocks), b.id # NoId, NEW row \in JsonRows(b)
      PROVE  row \in UNION Json
  BY <1>5
<1> QED
  BY <1>1, <1>2, <1>4, <1>5 DEF Agrees, BlockAgrees

\* What is no table agrees.
LEMMA ContentAgrees ==
  ASSUME NEW i, NEW shown
  PROVE  BlockAgrees(Content(i, shown)) /\ (i = NoId => BlockAgrees(HtmlOnly(shown)))
BY DEF BlockAgrees, Content, HtmlOnly, JsonRows

\* A set of numbers with a number in it has a least one: induction, without a
\* formula for a parameter.
LEMMA LeastNumber ==
  ASSUME NEW T \in SUBSET Nat, T # {}
  PROVE  \E x \in T : \A y \in T : x <= y
<1>1. PICK x \in T : \A y \in T : ~(<<y, x>> \in OpToRel(<, Nat))
  BY NatLessThanWellFounded, WFMin, Zenon
<1>2. \A y \in T : ~(y < x)
  BY <1>1 DEF OpToRel
<1> QED
  BY <1>2

\* Of the rows with the same first cell there is a last one.
LEMMA LastRow ==
  ASSUME NEW rows, NEW n \in Nat, DOMAIN rows = 1..n, NEW i \in 1..n
  PROVE  \E j \in 1..n : /\ rows[j][1] = rows[i][1]
                         /\ \A k \in 1..n : rows[k][1] = rows[j][1] => k <= j
<1> DEFINE T == {x \in 0..n : \E j \in 1..n : x = n - j /\ rows[j][1] = rows[i][1]}
<1>1. n - i \in T
  OBVIOUS
<1>2. PICK x \in T : \A y \in T : x <= y
  <2>1. T \in SUBSET Nat /\ T # {}
    BY <1>1
  <2> HIDE DEF T
  <2> QED
    BY <2>1, LeastNumber
<1>3. PICK j \in 1..n : x = n - j /\ rows[j][1] = rows[i][1]
  OBVIOUS
<1>4. ASSUME NEW k \in 1..n, rows[k][1] = rows[j][1] PROVE k <= j
  <2>1. n - k \in T
    BY <1>3, <1>4
  <2>2. x <= n - k
    <3> HIDE DEF T
    <3> QED
      BY <1>2, <2>1
  <2> QED
    BY <1>3, <2>2
<1> QED
  BY <1>3, <1>4

\* A table agrees when it is empty, when its rows are items of a dictionary, or
\* when it has a header for each cell.
LEMMA TableAgrees ==
  ASSUME NEW i, NEW headings, NEW S, NEW rows \in Seq(Seq(S)),
         \/ rows = <<>>
         \/ Len(rows[1]) = 2
         \/ \A row \in ToSet(rows) : row # <<>> /\ Len(row) <= Len(headings)
  PROVE  BlockAgrees(Table(i, headings, rows))
<1> DEFINE b == Table(i, headings, rows)
<1>0. b.table /\ b.text /\ b.rows = rows /\ b.headers = headings
  BY DEF Table
<1> HIDE DEF b
<1>1. CASE rows = <<>>
  <2>1. JsonRows(b) = ToSet(rows) /\ ToSet(rows) = {}
    BY <1>0, <1>1 DEF JsonRows, ToSet
  <2> QED
    BY <1>0, <2>1 DEF BlockAgrees, b
<1>2. CASE rows # <<>> /\ Len(rows[1]) = 2
  <2> DEFINE IsLast(k) == \A j \in DOMAIN rows : rows[j][1] = rows[k][1] => j <= k
  <2>1. JsonRows(b) = {rows[k] : k \in {j \in DOMAIN rows : IsLast(j)}}
    BY <1>0, <1>2 DEF JsonRows
  <2>2. DOMAIN rows = 1..Len(rows) /\ Len(rows) \in Nat
    OBVIOUS
  <2>3. ASSUME NEW row \in ToSet(rows), Distinct(rows, row)
        PROVE  row \in JsonRows(b)
    <3>1. PICK k \in DOMAIN rows : row = rows[k]
      BY DEF ToSet
    <3>2. PICK j \in DOMAIN rows : rows[j][1] = rows[k][1] /\ IsLast(j)
      BY <2>2, LastRow
    <3>3. rows[j] = row
      BY <2>3, <3>1, <3>2 DEF Distinct, ToSet
    <3> QED
      BY <2>1, <3>2, <3>3
  <2>4. JsonRows(b) \subseteq ToSet(rows)
    BY <2>1 DEF ToSet
  <2> QED
    BY <1>0, <2>3, <2>4 DEF BlockAgrees, b
<1>3. CASE rows # <<>> /\ Len(rows[1]) # 2
  <2>1. JsonRows(b) = {Zipped(b, row) : row \in ToSet(rows)} \ {<<>>}
    BY <1>0, <1>3 DEF JsonRows
  <2>2. ASSUME NEW row \in ToSet(rows)
        PROVE  Zipped(b, row) = row /\ row # <<>>
    <3>1. row \in Seq(S) /\ row # <<>> /\ Len(row) <= Len(headings)
      BY <1>3 DEF ToSet
    <3>2. Zipped(b, row) = SubSeq(row, 1, Len(row))
      BY <1>0, <3>1 DEF Zipped
    <3> QED
      BY <3>1, <3>2
  <2> QED
    BY <1>0, <2>1, <2>2 DEF BlockAgrees, b
<1> QED
  BY <1>1, <1>2, <1>3 DEF b

\* A row of cells, and a table that has this row.
LEMMA CellsFacts ==
  ASSUME NEW n \in Nat \ {0}
  PROVE  Cells(n) \in Seq({"name", "value"}) /\ Len(Cells(n)) = n /\ Cells(n) # <<>>
<1>1. Cells(n) \in [1..n -> {"name", "value"}]
  BY DEF Cells
<1> QED
  BY <1>1

\* The cells of a table with two columns.
LEMMA TwoCells == Cells(2) \in Seq({"name", "value"}) /\ Len(Cells(2)) = 2
<1>1. 2 \in Nat \ {0}
  OBVIOUS
<1> QED
  BY <1>1, CellsFacts, Zenon

\* A pair is a sequence of two.
LEMMA PairFacts ==
  ASSUME NEW S, NEW p \in S \X S
  PROVE  p \in Seq(S) /\ Len(p) = 2
<1>1. p = <<p[1], p[2]>> /\ p[1] \in S /\ p[2] \in S
  OBVIOUS
<1>2. ASSUME NEW x \in S, NEW y \in S
      PROVE  <<x, y>> \in Seq(S) /\ Len(<<x, y>>) = 2
  OBVIOUS
<1>3. <<p[1], p[2]>> \in Seq(S) /\ Len(<<p[1], p[2]>>) = 2
  BY <1>1, <1>2, Zenon
<1> QED
  BY <1>1, <1>3, Zenon

\* A table of one row.
LEMMA OneRow ==
  ASSUME NEW S, NEW row \in Seq(S)
  PROVE  <<row>> \in Seq(Seq(S)) /\ <<row>>[1] = row /\ ToSet(<<row>>) = {row}
BY DEF ToSet

\* A table of one row agrees when it has as many headings as cells, or two cells.
LEMMA RowAgrees ==
  ASSUME NEW i, NEW n \in Nat \ {0}
  PROVE  BlockAgrees(Table(i, Cells(n), <<Cells(n)>>))
<1>1. <<Cells(n)>> \in Seq(Seq({"name", "value"})) /\ ToSet(<<Cells(n)>>) = {Cells(n)}
  BY CellsFacts, OneRow
<1>2. Cells(n) # <<>> /\ Len(Cells(n)) <= Len(Cells(n))
  BY CellsFacts
<1>3. \A row \in ToSet(<<Cells(n)>>) : row # <<>> /\ Len(row) <= Len(Cells(n))
  BY <1>1, <1>2
<1> QED
  BY <1>1, <1>3, TableAgrees

\* A table of one row with two cells agrees,
LEMMA PairAgrees ==
  ASSUME NEW i, NEW headings, NEW S, NEW pair \in Seq(S), Len(pair) = 2
  PROVE  BlockAgrees(Table(i, headings, <<pair>>))
<1>1. <<pair>> \in Seq(Seq(S)) /\ Len(<<pair>>[1]) = 2
  BY OneRow
<1> QED
  BY <1>1, TableAgrees

\* and so does one without rows.
LEMMA EmptyAgrees ==
  ASSUME NEW i, NEW headings
  PROVE  BlockAgrees(Table(i, headings, <<>>))
<1>1. <<>> \in Seq(Seq({}))
  OBVIOUS
<1> QED
  BY <1>1, TableAgrees

\* Pages of a few blocks.
LEMMA FewBlocks ==
  ASSUME NEW a, NEW b, NEW c, NEW d, NEW e, NEW f
  PROVE  /\ Agrees(<<>>)
         /\ BlockAgrees(a) => Agrees(<<a>>)
         /\ BlockAgrees(a) /\ BlockAgrees(b) => Agrees(<<a, b>>)
         /\ BlockAgrees(a) /\ BlockAgrees(b) /\ BlockAgrees(c) /\ BlockAgrees(d) => Agrees(<<a, b, c, d>>)
         /\ BlockAgrees(a) /\ BlockAgrees(b) /\ BlockAgrees(c) /\ BlockAgrees(d) /\ BlockAgrees(e) =>
              Agrees(<<a, b, c, d, e>>)
         /\ BlockAgrees(a) /\ BlockAgrees(b) /\ BlockAgrees(c) /\ BlockAgrees(d) /\ BlockAgrees(e) /\ BlockAgrees(f) =>
              Agrees(<<a, b, c, d, e, f>>)
<1>1. /\ ToSet(<<>>) = {} /\ ToSet(<<a>>) = {a} /\ ToSet(<<a, b>>) = {a, b}
      /\ ToSet(<<a, b, c, d>>) = {a, b, c, d} /\ ToSet(<<a, b, c, d, e>>) = {a, b, c, d, e}
      /\ ToSet(<<a, b, c, d, e, f>>) = {a, b, c, d, e, f}
  BY DEF ToSet
<1>2. Agrees(<<>>)
  BY <1>1, PageAgrees
<1>3. ASSUME BlockAgrees(a) PROVE Agrees(<<a>>)
  BY <1>1, <1>3, PageAgrees
<1>4. ASSUME BlockAgrees(a), BlockAgrees(b) PROVE Agrees(<<a, b>>)
  BY <1>1, <1>4, PageAgrees
<1>5. ASSUME BlockAgrees(a), BlockAgrees(b), BlockAgrees(c), BlockAgrees(d) PROVE Agrees(<<a, b, c, d>>)
  BY <1>1, <1>5, PageAgrees
<1>6. ASSUME BlockAgrees(a), BlockAgrees(b), BlockAgrees(c), BlockAgrees(d), BlockAgrees(e)
      PROVE  Agrees(<<a, b, c, d, e>>)
  BY <1>1, <1>6, PageAgrees
<1>7. ASSUME BlockAgrees(a), BlockAgrees(b), BlockAgrees(c), BlockAgrees(d), BlockAgrees(e), BlockAgrees(f)
      PROVE  Agrees(<<a, b, c, d, e, f>>)
  BY <1>1, <1>7, PageAgrees
<1> QED
  BY <1>2, <1>3, <1>4, <1>5, <1>6, <1>7

\* The pages of the endpoints.
LEMMA PageOfAgrees ==
  ASSUME NEW path
  PROVE  Agrees(PageOf(path))
<1>1. Cells(2) \in Seq({"name", "value"}) /\ Len(Cells(2)) = 2
  BY TwoCells
<1>2. CASE path = "/index"
  <2>1. PageOf(path) = <<Table(NoId, <<>>, <<Cells(2)>>)>>
    BY <1>2 DEF PageOf
  <2>2. BlockAgrees(Table(NoId, <<>>, <<Cells(2)>>))
    BY <1>1, PairAgrees
  <2> QED
    BY <2>1, <2>2, FewBlocks, Zenon
<1>3. CASE path = "/info/config"
  <2>1. PageOf(path) = <<Content(NoId, "Config"), Table("config", Cells(4), <<Cells(4)>>)>>
    BY <1>3 DEF PageOf
  <2>2. BlockAgrees(Table("config", Cells(4), <<Cells(4)>>)) /\ BlockAgrees(Content(NoId, "Config"))
    BY RowAgrees, ContentAgrees
  <2> QED
    BY <2>1, <2>2, FewBlocks, Zenon
<1>4. CASE path = "/info/packages"
  <2>1. PageOf(path) = <<Table("packages", Cells(4), <<Cells(4)>>)>>
    BY <1>4 DEF PageOf
  <2>2. BlockAgrees(Table("packages", Cells(4), <<Cells(4)>>))
    BY RowAgrees
  <2> QED
    BY <2>1, <2>2, FewBlocks, Zenon
<1>5. CASE path = "/info/workers"
  <2>1. PageOf(path) =
          <<Content(NoId, "Workers"), Table("workers", Cells(15), <<Cells(15)>>),
            Content(NoId, "Process"), Table("process_info", <<>>, <<Cells(2)>>), Table("process_env", <<>>, <<>>)>>
    BY <1>5 DEF PageOf
  <2>2. /\ BlockAgrees(Content(NoId, "Workers")) /\ BlockAgrees(Table("workers", Cells(15), <<Cells(15)>>))
        /\ BlockAgrees(Content(NoId, "Process"))
    BY RowAgrees, ContentAgrees
  <2>3. BlockAgrees(Table("process_info", <<>>, <<Cells(2)>>)) /\ BlockAgrees(Table("process_env", <<>>, <<>>))
    BY <1>1, PairAgrees, EmptyAgrees
  <2> QED
    BY <2>1, <2>2, <2>3, FewBlocks, Zenon
<1>6. CASE path = "/info/objgraph"
  <2>1. PageOf(path) =
          <<Content(NoId, "Objects"), HtmlOnly("limits"), Table("types", <<>>, <<Cells(2)>>), Table("leaking", <<>>, <<>>)>>
    BY <1>6 DEF PageOf
  <2>2. BlockAgrees(Content(NoId, "Objects")) /\ BlockAgrees(HtmlOnly("limits"))
    BY ContentAgrees
  <2>3. BlockAgrees(Table("types", <<>>, <<Cells(2)>>)) /\ BlockAgrees(Table("leaking", <<>>, <<>>))
    BY <1>1, PairAgrees, EmptyAgrees
  <2> QED
    BY <2>1, <2>2, <2>3, FewBlocks, Zenon
<1>7. CASE path \notin {"/index", "/info/config", "/info/packages", "/info/workers", "/info/objgraph"}
  BY <1>7, FewBlocks DEF PageOf
<1> QED
  BY <1>2, <1>3, <1>4, <1>5, <1>6, <1>7

\* The page of an error, with any headers.
LEMMA ErrorContentAgrees ==
  ASSUME TypeOK
  PROVE  Agrees(ErrorContent)
<1> DEFINE IdTable == Table("id", <<>>, <<<<"Request-Id", "id">>>>)
           RequestTable == Table("request_headers", <<"Request Headers", "">>, <<>>)
           EnvironTable == Table("wsgi_env", <<"WSGI Environ", "">>, <<Cells(2)>>)
           ResponseTable == Table("response_headers", <<"Response Headers", "">>, headers)
<1>1. BlockAgrees(IdTable)
  <2>1. <<"Request-Id", "id">> \in Seq({"Request-Id", "id"}) /\ Len(<<"Request-Id", "id">>) = 2
    OBVIOUS
  <2> QED
    BY <2>1, PairAgrees
<1>2. BlockAgrees(EnvironTable)
  <2>1. Cells(2) \in Seq({"name", "value"}) /\ Len(Cells(2)) = 2
    BY TwoCells
  <2> QED
    BY <2>1, PairAgrees
<1>3. BlockAgrees(ResponseTable)
  <2>1. headers \in Seq(STRING \X STRING)
    <3>1. CASE headers = <<>>
      BY <3>1
    <3>2. CASE headers \in Headers
      BY <3>2, StatusAssumption
    <3> QED
      BY <3>1, <3>2 DEF TypeOK
  <2>2. ASSUME NEW p \in STRING \X STRING
        PROVE  p \in Seq(STRING) /\ Len(p) = 2
    BY PairFacts
  <2>3. /\ DOMAIN headers = 1..Len(headers) /\ Len(headers) \in Nat
        /\ \A k \in 1..Len(headers) : headers[k] \in STRING \X STRING
    BY <2>1
  <2>4. headers \in Seq(Seq(STRING)) /\ (headers # <<>> => Len(headers[1]) = 2)
    <3>1. \A k \in 1..Len(headers) : headers[k] \in Seq(STRING) /\ Len(headers[k]) = 2
      BY <2>2, <2>3
    <3>2. headers # <<>> => 1 \in 1..Len(headers)
      BY <2>1
    <3>3. headers = [k \in 1..Len(headers) |-> headers[k]]
      BY <2>1
    <3> QED
      BY <2>3, <3>1, <3>2, <3>3
  <2> QED
    BY <2>4, TableAgrees
<1>4. BlockAgrees(Content("title", "error")) /\ BlockAgrees(Content("traceback", "traceback")) /\ BlockAgrees(RequestTable)
  BY ContentAgrees, EmptyAgrees
<1>5. ErrorContent = <<Content("title", "error"), IdTable, Content("traceback", "traceback"), RequestTable, EnvironTable, ResponseTable>>
  BY DEF ErrorContent
<1> HIDE DEF IdTable, RequestTable, EnvironTable, ResponseTable
<1> QED
  BY <1>1, <1>2, <1>3, <1>4, <1>5, FewBlocks, Zenon

\* The page after each step.
LEMMA PageStep ==
  ASSUME TypeOK, Agrees(page), Step
  PROVE  Agrees(page')
<1>1. page' \in {page, ErrorContent, <<>>} \cup {PageOf(path) : path \in Endpoints}
  BY DEF Step, Receive, ReceiveRaises, Endpoint, Error, Answer, CallApp, AppStarts, AppRunsJob, AppReturns,
       CheckJoins, CheckAnswers, AppRaises, AppBreaks, AppExits, Yield, Finish, response
<1> QED
  BY <1>1, FewBlocks, PageOfAgrees, ErrorContentAgrees

-----------------------------------------------------------------------------
(* The theorems.                                                           *)

\* At the start.
LEMMA InitInv == Init => IInv /\ Agrees(page)
<1> SUFFICES ASSUME Init PROVE IInv /\ Agrees(page)
  OBVIOUS
<1>1. TypeOK
  BY DEF Init, TypeOK
<1>2. BeforeInv /\ CheckInv /\ ReportInv /\ ReportsAnnounced
  BY DEF Init, BeforeInv, CheckInv, ReportInv, ReportsAnnounced, Told
<1>3. Agrees(page)
  BY FewBlocks DEF Init
<1> QED
  BY <1>1, <1>2, <1>3 DEF IInv

\* All parts after each step.
LEMMA StepInv == IInv /\ Agrees(page) /\ [Next]_vars => IInv' /\ Agrees(page')
<1> SUFFICES ASSUME IInv, Agrees(page), [Next]_vars
             PROVE  IInv' /\ Agrees(page')
  OBVIOUS
<1>1. CASE Step
  BY <1>1, TypeStep, BeforeStep, CheckStep, ReportStep, AnnouncedStep, PageStep DEF IInv
<1>2. CASE UNCHANGED vars
  BY <1>2 DEF IInv, TypeOK, BeforeInv, CheckInv, ReportInv, ReportsAnnounced, Announced, Told, Checks, IsStatus, Healthy,
       vars, talisker, response, history
<1> QED
  BY <1>1, <1>2, Steps

\* The invariant, and that every page agrees with itself, hold throughout.
THEOREM Invariance == Spec => [](IInv /\ Agrees(page))
<1>1. Init => IInv /\ Agrees(page)
  BY InitInv
<1>2. (IInv /\ Agrees(page)) /\ [Next]_vars => (IInv /\ Agrees(page))'
  BY StepInv
<1> QED
  BY <1>1, <1>2, PTL DEF Spec

\* The model of the status endpoints is type correct: what is told to the server
\* and kept by check are statuses, whatever the application calls (wsgi.py).
THEOREM TypeCorrect == Spec => []TypeOK
<1>1. IInv => TypeOK
  BY DEF IInv
<1> QED
  BY <1>1, Invariance, PTL

\* For any requests and any calls of start_response, the status of /check is 200
\* exactly for a healthy application (check in endpoints.py).
THEOREM ChecksAreTruthful == Spec => []CheckTruthful
<1>1. IInv => CheckTruthful
  BY DEF IInv, CheckInv, CheckTruthful
<1> QED
  BY <1>1, Invariance, PTL

\* For any requests and any calls of start_response, a report has been announced to
\* the client and what was announced is reported (finish_request in wsgi.py).
THEOREM ReportsAreAnnounced == Spec => []ReportsAnnounced
<1>1. IInv => ReportsAnnounced
  BY DEF IInv
<1> QED
  BY <1>1, Invariance, PTL

\* For any headers, the json of a page has what its text and html have, but for the
\* exceptions named (render.py).
THEOREM PagesDoAgree == Spec => []PagesAgree
<1>1. Agrees(page) => PagesAgree
  BY DEF Agrees, PagesAgree
<1> QED
  BY <1>1, Invariance, PTL

=============================================================================
