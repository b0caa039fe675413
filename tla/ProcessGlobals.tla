--------------------------- MODULE ProcessGlobals ---------------------------
(***************************************************************************)
(* The globals of a talisker process: the configuration and its caches     *)
(* (talisker/config.py), the buffer of early logs (util.py), the handlers  *)
(* of the root logger (logs.py), the statsd and the sentry client, how     *)
(* initialise() sets all of them up and may raise half-way, and how tests  *)
(* replace and clear them (testing.py).                                    *)
(***************************************************************************)
EXTENDS Integers, Sequences, FiniteSets, SequencesExt

CONSTANTS Loaded,       \* what os.environ and the file TALISKER_CONFIG may hold
          NotMade,      \* the statsd client has not been made
          Changes,      \* the settings that tests set by hand, with their values
          MaxEarly, MaxTests, MaxDepth, MaxClears, MaxFailures, MaxClients, MaxChanges  \* bounds

Parsed == {"DEVEL", "TALISKER_COLOUR", "TALISKER_REQUEST_TIMEOUT"}
Settings == Parsed \cup {"SENTRY_DSN", "STATSD_DSN", "DEBUGLOG"}
RawValues == {"unset", "good", "bad"}

\* The other name that a setting has in the environment.
Alias(s) == IF s = "TALISKER_COLOUR" THEN "TALISKER_COLOR" ELSE s
EnvNames == Settings \cup {"TALISKER_COLOR"}

ASSUME GlobalsAssumption ==
  /\ Loaded \subseteq [env : [EnvNames -> RawValues], file : [Settings -> RawValues]]
  /\ Changes \subseteq Settings \X {"good", "bad"}
  /\ {MaxEarly, MaxTests, MaxDepth, MaxClears, MaxFailures, MaxChanges} \subseteq Nat
  /\ MaxClients \in Nat \ {0} /\ NotMade \notin Nat

VARIABLES
  loaded,       \* what get_config() reads
  raw,          \* Config.raw
  cache,        \* CONFIG_CACHE, of the settings that are parsed
  errors,       \* the names in CONFIG_ERRORS
  early,        \* EARLY_LOGS
  processed,    \* EARLY_LOGS_PROCESSED
  out,          \* the early logs that have been logged
  handlers,     \* how many handlers of a kind there are, of warnings or of the root logger
  cached,       \* the kinds of handlers in _global_cache
  configured,   \* logging_globals['configured']
  reported,     \* the settings in the last "configuration errors"
  statsd,       \* statsd.get_client in _global_cache: 0, or the test whose client it is
  client,       \* sentry._client, or 0
  remote,       \* where each sentry client sends to: 0, or the test whose transport it is
  tests,        \* the started tests, with what they have to restore
  logged, started, clears, failures, changes,  \* counters
  tampered      \* what has been done to the globals that a test cannot see

configuration == <<loaded, raw, cache, errors>>
earlyLogs == <<early, processed, out>>
logging == <<handlers, cached, configured, reported>>
clients == <<statsd, client, remote, tests>>
counters == <<logged, started, clears, failures, changes>>
vars == <<configuration, earlyLogs, logging, clients, counters, tampered>>

-----------------------------------------------------------------------------
(* The configuration.                                                      *)

\* load_env_config: a setting has its value from the environment, under its own
\* name or the other, or else from the file.
Merged(l) ==
  LET env(s) == IF l.env[s] # "unset" THEN l.env[s] ELSE l.env[Alias(s)]
  IN  [s \in Settings |-> IF env(s) # "unset" THEN env(s) ELSE l.file[s]]

\* What the function of a setting makes of a raw value: is_active, the colour
\* schemes, force_int.
Parse(s, v) ==
  CASE v = "unset" -> "default"
    [] v = "good" -> "value"
    [] v = "bad" -> IF s = "DEVEL" THEN "off" ELSE "error"

Devel == IF cache["DEVEL"] = "unread" THEN raw["DEVEL"] = "good" ELSE cache["DEVEL"] = "value"

Result(s) == IF s = "TALISKER_COLOUR" /\ ~Devel THEN "off" ELSE Parse(s, raw[s])

Invalid == {s \in Parsed : Result(s) = "error"}

\* The settings that are computed when those in S are read: colour reads devel.
Computed(S) ==
  {s \in Parsed : cache[s] = "unread" /\
     \/ s \in S
     \/ s = "DEVEL" /\ "TALISKER_COLOUR" \in S /\ cache["TALISKER_COLOUR"] = "unread"}

\* config_property: an error is kept, and the default taken.
Read(S) ==
  /\ cache' = [s \in Parsed |-> IF s \notin Computed(S) THEN cache[s]
                                ELSE IF s \in Invalid THEN "default" ELSE Result(s)]
  /\ errors' = errors \cup (Computed(S) \cap Invalid)
  /\ UNCHANGED <<loaded, raw>>

ReadSetting(s) ==
  /\ Read({s})
  /\ UNCHANGED <<earlyLogs, logging, clients, counters, tampered>>

\* Config.__setitem__: what is cached of the setting is forgotten, but not what
\* has been computed from it, nor an error.
SetSetting(s, v) ==
  /\ changes < MaxChanges
  /\ changes' = changes + 1
  /\ raw' = [raw EXCEPT ![s] = v]
  /\ cache' = IF s \in Parsed THEN [cache EXCEPT ![s] = "unread"] ELSE cache
  /\ tampered' = tampered \cup {"settings"}
  /\ UNCHANGED <<loaded, errors, earlyLogs, logging, clients, logged, started, clears, failures>>

-----------------------------------------------------------------------------
(* Start-up.                                                               *)

Init ==
  /\ loaded \in Loaded /\ raw = Merged(loaded)
  /\ cache = [s \in Parsed |-> "unread"] /\ errors = {}
  /\ early = <<>> /\ processed = FALSE /\ out = <<>>
  /\ handlers = [k \in {"stderr", "warnings", "debug", "sentry", "test"} |-> 0]
  /\ cached = {} /\ configured = FALSE /\ reported = {}
  /\ statsd = NotMade /\ client = 0 /\ remote = [c \in 1..MaxClients |-> 0] /\ tests = <<>>
  /\ logged = 0 /\ started = 0 /\ clears = 0 /\ failures = 0 /\ changes = 0 /\ tampered = {}

\* early_log
EarlyLog ==
  /\ logged < MaxEarly
  /\ logged' = logged + 1
  /\ IF processed THEN out' = Append(out, logged + 1) /\ UNCHANGED early
                  ELSE early' = Append(early, logged + 1) /\ UNCHANGED out
  /\ UNCHANGED <<configuration, processed, logging, clients, started, clears, failures, changes, tampered>>

\* flush_early_logs
Flush == processed' = TRUE /\ out' = out \o early /\ early' = <<>>

\* get_client() makes the sentry client, unless there is one; raven raises for
\* a DSN it does not understand.
ClientFails == client = 0 /\ raw["SENTRY_DSN"] = "bad"
MakeClient == client' = IF client = 0 THEN 1 ELSE client

StatsdFails == statsd = NotMade /\ raw["STATSD_DSN"] = "bad"
MakeStatsd == statsd' = IF statsd = NotMade THEN 0 ELSE statsd

One(condition) == IF condition THEN 1 ELSE 0

\* (mutant) A stderr handler is made whenever it is asked for.
AddedAnew(sentry) ==
  [handlers EXCEPT !["stderr"] = @ + 1, !["warnings"] = @ + One(Devel),
                   !["debug"] = @ + One(raw["DEBUGLOG"] = "good"),
                   !["sentry"] = @ + One(sentry /\ "sentry" \notin cached)]

\* The handlers that configure() adds; those for stderr and sentry are kept in
\* _global_cache, and the root logger takes the same handler once.
Added(sentry) ==
  [handlers EXCEPT !["stderr"] = @ + One("stderr" \notin cached),
                   !["warnings"] = @ + One(Devel),
                   !["debug"] = @ + One(raw["DEBUGLOG"] = "good"),
                   !["sentry"] = @ + One(sentry /\ "sentry" \notin cached)]

\* (mutant) The errors that are known are reported before the settings are read.
ReportEarly == reported' = errors

\* metadata() reads all the settings, then what is wrong with them is logged.
Report == reported' = errors'

\* configure(), once; it may raise in get_log_handler().
Configure(raises) ==
  /\ ~configured
  /\ Read(Parsed) /\ Report
  /\ handlers' = Added(~raises)
  /\ cached' = cached \cup {"stderr"} \cup (IF raises THEN {} ELSE {"sentry"})
  /\ configured' = ~raises

Configured ==
  \/ Configure(FALSE)
  \/ configured /\ UNCHANGED <<configuration, logging>>

\* initialise()
Initialise ==
  /\ ~ClientFails /\ ~StatsdFails
  /\ Configured /\ Flush /\ MakeClient /\ MakeStatsd
  /\ UNCHANGED <<remote, tests, counters, tampered>>

\* initialise() does not get beyond configure(), which does not get to its end.
InitialiseRaisesInConfigure ==
  /\ failures < MaxFailures
  /\ failures' = failures + 1
  /\ ClientFails
  /\ Configure(TRUE)
  /\ UNCHANGED <<earlyLogs, clients, logged, started, clears, changes, tampered>>

\* The statsd client cannot be made, when logging and the sentry client are there.
InitialiseRaisesLate ==
  /\ failures < MaxFailures
  /\ failures' = failures + 1
  /\ ~ClientFails /\ StatsdFails
  /\ Configured /\ Flush /\ MakeClient
  /\ UNCHANGED <<statsd, remote, tests, logged, started, clears, changes, tampered>>

-----------------------------------------------------------------------------
(* The clients, and the tests that replace them.                           *)

\* A counter is incremented, the first time with a new statsd client.
Incr ==
  /\ ~StatsdFails
  /\ MakeStatsd
  /\ UNCHANGED <<configuration, earlyLogs, logging, client, remote, tests, counters, tampered>>

\* set_client, by the integrations with flask and django.
SetClient ==
  /\ client < MaxClients
  /\ raw["SENTRY_DSN"] # "bad"
  /\ client' = client + 1
  /\ tampered' = IF tests = <<>> THEN tampered ELSE tampered \cup {"client"}
  /\ UNCHANGED <<configuration, earlyLogs, logging, statsd, remote, tests, counters>>

\* (mutant) The test takes the statsd client there is.
ReplaceStatsdIfNone(id) == statsd' = IF statsd = NotMade THEN id ELSE statsd

ReplaceStatsd(id) == statsd' = id

\* TestContext.start
StartTest ==
  LET id == started + 1
      c == IF client = 0 THEN 1 ELSE client
  IN  /\ started < MaxTests /\ Len(tests) < MaxDepth
      /\ started' = id
      /\ ReplaceStatsd(id)
      /\ handlers' = [handlers EXCEPT !["test"] = @ + 1]
      /\ ~ClientFails /\ MakeClient
      /\ remote' = [remote EXCEPT ![c] = id]
      /\ tests' = Append(tests, [id |-> id, statsd |-> statsd, client |-> c, remote |-> remote[c]])
      /\ UNCHANGED <<configuration, earlyLogs, cached, configured, reported,
                     logged, clears, failures, changes, tampered>>

\* The sentry client cannot be made, what came before it stays.
StartTestRaises ==
  /\ started < MaxTests
  /\ started' = started + 1
  /\ ReplaceStatsd(started + 1)
  /\ handlers' = [handlers EXCEPT !["test"] = @ + 1]
  /\ ClientFails
  /\ tampered' = tampered \cup {"start"}
  /\ UNCHANGED <<configuration, earlyLogs, cached, configured, reported,
                 client, remote, tests, logged, clears, failures, changes>>

\* clear_globals: the cached objects, and the module dicts.
ClearGlobals ==
  /\ raw' = Merged(loaded) /\ cache' = [s \in Parsed |-> "unread"] /\ errors' = {}
  /\ cached' = {} /\ configured' = FALSE /\ statsd' = NotMade
  /\ tampered' = (tampered \ {"settings"}) \cup (IF tests' = <<>> THEN {} ELSE {"cleared"})
  /\ UNCHANGED <<loaded, earlyLogs, reported>>

\* clear_all, which makes the sentry client to clear it
ClearAll ==
  /\ clears < MaxClears
  /\ clears' = clears + 1
  /\ ~ClientFails /\ MakeClient
  /\ UNCHANGED tests /\ ClearGlobals
  /\ UNCHANGED <<handlers, remote, logged, started, failures, changes>>

\* (mutant) The remote of the client is left as it is.
RestoreNothing(test) == UNCHANGED remote

Restore(test) == remote' = [remote EXCEPT ![test.client] = test.remote]

\* TestContext.stop, of the last one started: it puts the remote of its sentry
\* client and the statsd client back, and clears everything.
StopTest ==
  /\ tests # <<>>
  /\ clears' = clears + 1
  /\ handlers' = [handlers EXCEPT !["test"] = @ - 1]
  /\ Restore(Last(tests))
  /\ tests' = Front(tests) /\ ClearGlobals
  /\ UNCHANGED <<client, logged, started, failures, changes>>

Next ==
  \/ \E s \in Parsed : ReadSetting(s)
  \/ \E c \in Changes : SetSetting(c[1], c[2])
  \/ EarlyLog
  \/ Initialise \/ InitialiseRaisesInConfigure \/ InitialiseRaisesLate
  \/ Incr \/ SetClient
  \/ StartTest \/ StartTestRaises \/ StopTest \/ ClearAll

Spec == Init /\ [][Next]_vars

-----------------------------------------------------------------------------
(* Properties.                                                             *)

EarlyLogsInOrder == out \o early = [i \in 1..logged |-> i]

HandlersBounded ==
  /\ \A k \in {"stderr", "sentry"} : handlers[k] <= 1 + clears
  /\ \A k \in {"debug", "warnings"} : handlers[k] <= 1 + clears + failures

\* However often initialise() is called, and raises: each early log comes out
\* once and in order, or waits to; a record is written to stderr and sent to
\* sentry no more than once for each time the globals were cleared, and to the
\* debug log and the handler of warnings once more for each time that
\* initialise() raised.
RecordsOnce == EarlyLogsInOrder /\ HandlersBounded

\* Whatever was read before, and in which order, the log tells of the invalid
\* settings and no others when logging has been configured. After a setting was
\* set by hand it may tell of one that is valid by then, and not of a colour that
\* was read before.
ErrorsReported ==
  [][~configured /\ configured' =>
       IF "settings" \in tampered THEN Invalid' \ {"TALISKER_COLOUR"} \subseteq reported'
                                  ELSE reported' = Invalid']_vars

StatsTo == IF statsd = NotMade THEN 0 ELSE statsd
ReportsTo == IF client = 0 THEN 0 ELSE remote[client]

\* The statistics and reports of a test go to the innermost started one; unless the
\* globals were cleared in it, as the end of a test inside does, or the
\* application has set a sentry client of its own.
TestsIsolated ==
  tests # <<>> =>
    /\ "cleared" \notin tampered => StatsTo = Last(tests).id
    /\ "client" \notin tampered => ReportsTo = Last(tests).id

\* After the last test nothing of it is left in the process, and what the
\* process reports goes where it went before; unless a test failed to start.
TestsLeaveNoTrace ==
  tests = <<>> /\ "start" \notin tampered =>
    /\ StatsTo = 0 /\ handlers["test"] = 0
    /\ \A c \in DOMAIN remote : remote[c] = 0

=============================================================================
