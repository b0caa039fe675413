------------------------ MODULE ProcessGlobals_proofs ------------------------
(***************************************************************************)
(* Proofs about ProcessGlobals: what happens to early logs and handlers,   *)
(* which settings are reported as invalid, and what tests leave behind,    *)
(* for any environment and any number of tests, failures and clears.       *)
(***************************************************************************)
EXTENDS ProcessGlobals, SequenceTheorems, TLAPS

Kinds == {"stderr", "warnings", "debug", "sentry", "test"}
Clients == 1..MaxClients
Tests == [id : Nat, statsd : Nat \cup {NotMade}, client : Clients, remote : Nat]
Cached == {"unread", "default", "value", "off"}

ConfigurationOK ==
  /\ loaded \in Loaded /\ raw \in [Settings -> RawValues]
  /\ cache \in [Parsed -> Cached] /\ errors \subseteq Parsed

ClientsOK ==
  /\ statsd \in Nat \cup {NotMade} /\ client \in 0..MaxClients
  /\ remote \in [Clients -> Nat] /\ tests \in Seq(Tests) /\ (Len(tests) > 0 => client # 0)
  /\ started \in Nat /\ changes \in Nat
  /\ tampered \subseteq {"settings", "client", "start", "cleared"}

\* The steps one by one.
LEMMA Steps ==
  ASSUME [Next]_vars
  PROVE  \/ UNCHANGED vars
         \/ \E s \in Parsed : ReadSetting(s)
         \/ \E s \in Settings, v \in RawValues : SetSetting(s, v)
         \/ EarlyLog \/ Initialise \/ InitialiseRaisesInConfigure \/ InitialiseRaisesLate
         \/ Incr \/ SetClient \/ StartTest \/ StartTestRaises \/ StopTest \/ ClearAll
<1>1. ASSUME NEW c \in Changes, SetSetting(c[1], c[2])
      PROVE  \E s \in Settings, v \in RawValues : SetSetting(s, v)
  <2>1. c[1] \in Settings /\ c[2] \in RawValues
    BY GlobalsAssumption DEF RawValues
  <2> QED
    BY <1>1, <2>1
<1> QED
  BY <1>1 DEF Next

-----------------------------------------------------------------------------
(* The configuration.                                                      *)

\* The environment and the file give a raw value for each setting.
LEMMA MergedType == ASSUME NEW l \in Loaded PROVE Merged(l) \in [Settings -> RawValues]
<1>1. l.env \in [EnvNames -> RawValues] /\ l.file \in [Settings -> RawValues]
  BY GlobalsAssumption
<1>2. \A s \in Settings : s \in EnvNames /\ Alias(s) \in EnvNames
  BY DEF EnvNames, Alias
<1> QED
  BY <1>1, <1>2 DEF Merged

\* The result of a setting is one of four.
LEMMA ResultType ==
  ASSUME ConfigurationOK, NEW s \in Parsed
  PROVE  Result(s) \in {"default", "value", "off", "error"}
<1>1. raw[s] \in {"unset", "good", "bad"}
  BY DEF ConfigurationOK, Settings, RawValues
<1> QED
  BY <1>1 DEF Result, Parse

\* What a read leaves in the cache and among the errors.
LEMMA ReadFacts ==
  ASSUME ConfigurationOK, NEW S, Read(S)
  PROVE  /\ cache' \in [Parsed -> Cached] /\ errors' \subseteq Parsed
         /\ loaded' = loaded /\ raw' = raw
         /\ \A s \in Parsed : cache'[s] # "unread" <=> cache[s] # "unread" \/ s \in Computed(S)
         /\ \A s \in Parsed : cache[s] # "unread" => cache'[s] = cache[s]
         /\ \A s \in Computed(S) : s \notin Invalid => cache'[s] = Result(s)
         /\ errors' = errors \cup (Computed(S) \cap Invalid)
<1>1. \A s \in Parsed : s \notin Invalid => Result(s) \in {"default", "value", "off"}
  BY ResultType DEF Invalid
<1>2. Computed(S) \subseteq Parsed /\ \A s \in Computed(S) : cache[s] = "unread"
  BY DEF Computed
<1>3. cache' = [s \in Parsed |-> IF s \notin Computed(S) THEN cache[s]
                                 ELSE IF s \in Invalid THEN "default" ELSE Result(s)]
  BY DEF Read
<1>4. cache' \in [Parsed -> Cached]
  BY <1>1, <1>3 DEF ConfigurationOK, Cached
<1>5. /\ errors' = errors \cup (Computed(S) \cap Invalid)
      /\ errors' \subseteq Parsed /\ loaded' = loaded /\ raw' = raw
  BY DEF Read, ConfigurationOK, Invalid
<1>6. \A s \in Parsed : cache'[s] # "unread" <=> cache[s] # "unread" \/ s \in Computed(S)
  BY <1>1, <1>2, <1>3
<1> QED
  BY <1>2, <1>3, <1>4, <1>5, <1>6

\* A setting that is read was computed from what is set now, unless settings were
\* set by hand; then the errors are the invalid ones that were read. The request timeout
\* is computed from nothing else, and so is never older than what is set.
ErrorsInv ==
  /\ cache["TALISKER_REQUEST_TIMEOUT"] # "unread" /\ raw["TALISKER_REQUEST_TIMEOUT"] = "bad"
       => "TALISKER_REQUEST_TIMEOUT" \in errors
  /\ cache["DEVEL"] # "unread" => (cache["DEVEL"] = "value" <=> raw["DEVEL"] = "good")
  /\ "settings" \notin tampered => errors = {s \in Invalid : cache[s] # "unread"}

ConfigInv == ConfigurationOK /\ ErrorsInv

\* Reading DEVEL does not change whether it is on.
LEMMA ReadKeepsInvalid ==
  ASSUME ConfigInv, NEW S, Read(S)
  PROVE  /\ Invalid' = Invalid
         /\ cache'["DEVEL"] # "unread" => (cache'["DEVEL"] = "value" <=> raw["DEVEL"] = "good")
<1> USE DEF ConfigInv
<1>1. "DEVEL" \in Parsed /\ raw["DEVEL"] \in {"unset", "good", "bad"}
  BY DEF ConfigurationOK, Parsed, Settings, RawValues
<1>2. Result("DEVEL") = (IF raw["DEVEL"] = "unset" THEN "default" ELSE IF raw["DEVEL"] = "good" THEN "value" ELSE "off")
  BY <1>1 DEF Result, Parse
<1>3. "DEVEL" \notin Invalid
  BY <1>2 DEF Invalid
<1>4. cache'["DEVEL"] # "unread" => (cache'["DEVEL"] = "value" <=> raw["DEVEL"] = "good")
  BY <1>1, <1>2, <1>3, ReadFacts DEF ErrorsInv
<1>5. raw' = raw /\ (cache["DEVEL"] # "unread" => cache'["DEVEL"] = cache["DEVEL"])
  BY <1>1, ReadFacts
<1>6. Devel' <=> Devel
  BY <1>4, <1>5 DEF Devel, ErrorsInv
<1>7. \A s \in Parsed : Result(s)' = Result(s)
  BY <1>5, <1>6 DEF Result
<1> QED
  BY <1>4, <1>7 DEF Invalid

\* A bad timeout is among the invalid settings.
LEMMA TimeoutInvalid ==
  ASSUME ConfigurationOK, raw["TALISKER_REQUEST_TIMEOUT"] = "bad"
  PROVE  "TALISKER_REQUEST_TIMEOUT" \in Invalid
  BY DEF Invalid, Result, Parse, Parsed

\* Reading a setting keeps the cache right.
LEMMA ReadConfig ==
  ASSUME ConfigInv, NEW S, Read(S), tampered' = tampered
  PROVE  ConfigInv'
<1>1. ConfigurationOK'
  BY ReadFacts DEF ConfigInv, ConfigurationOK
<1>2. "TALISKER_REQUEST_TIMEOUT" \in Parsed
  BY DEF Parsed
<1>3. raw' = raw /\ errors' = errors \cup (Computed(S) \cap Invalid)
  BY ReadFacts DEF ConfigInv
<1>4. cache'["TALISKER_REQUEST_TIMEOUT"] # "unread" /\ raw["TALISKER_REQUEST_TIMEOUT"] = "bad"
        => "TALISKER_REQUEST_TIMEOUT" \in errors'
  BY <1>2, <1>3, ReadFacts, TimeoutInvalid DEF ConfigInv, ErrorsInv
<1>5. ASSUME "settings" \notin tampered PROVE errors' = {s \in Invalid : cache'[s] # "unread"}
  <2>1. errors = {s \in Invalid : cache[s] # "unread"} /\ Invalid \subseteq Parsed
    BY <1>5 DEF ConfigInv, ErrorsInv, Invalid
  <2>2. \A s \in Parsed : cache'[s] # "unread" <=> cache[s] # "unread" \/ s \in Computed(S)
    BY ReadFacts DEF ConfigInv
  <2> QED
    BY <1>3, <2>1, <2>2
<1>6. ErrorsInv'
  BY <1>3, <1>4, <1>5, ReadKeepsInvalid DEF ErrorsInv
<1> QED
  BY <1>1, <1>6 DEF ConfigInv

\* Configuring reads what is parsed and reports the errors.
LEMMA ConfigureFacts ==
  ASSUME NEW b \in BOOLEAN, Configure(b)
  PROVE  Read(Parsed) /\ reported' = errors' /\ ~configured /\ configured' = ~b
  BY DEF Configure, Report

\* The globals are cleared: nothing is read.
LEMMA ClearConfig ==
  ASSUME ConfigInv, ClearGlobals
  PROVE  ConfigInv'
<1>1. raw' \in [Settings -> RawValues] /\ errors' = {} /\ loaded' \in Loaded /\ cache' = [s \in Parsed |-> "unread"]
  BY MergedType DEF ClearGlobals, ConfigInv, ConfigurationOK
<1>2. ConfigurationOK'
  BY <1>1 DEF ConfigurationOK, Cached
<1>3. (Invalid \subseteq Parsed)'
  BY DEF Invalid
<1>4. \A s \in Parsed : cache'[s] = "unread"
  BY <1>1
<1>5. ErrorsInv'
  BY <1>1, <1>3, <1>4 DEF ErrorsInv, Parsed
<1> QED
  BY <1>2, <1>5 DEF ConfigInv

\* A setting is given another value.
LEMMA SetConfig ==
  ASSUME ConfigInv, NEW s \in Settings, NEW v \in RawValues, SetSetting(s, v)
  PROVE  ConfigInv'
<1>1. /\ raw' = [raw EXCEPT ![s] = v] /\ loaded' = loaded /\ errors' = errors
      /\ cache' = IF s \in Parsed THEN [cache EXCEPT ![s] = "unread"] ELSE cache
      /\ "settings" \in tampered'
  BY DEF SetSetting
<1>2. ConfigurationOK'
  BY <1>1 DEF ConfigInv, ConfigurationOK, Cached
<1>3. \A u \in Parsed : cache'[u] # "unread" => cache'[u] = cache[u] /\ raw'[u] = raw[u]
  BY <1>1 DEF ConfigInv, ConfigurationOK, Settings
<1>4. ErrorsInv'
  BY <1>1, <1>3 DEF ConfigInv, ErrorsInv, Parsed
<1> QED
  BY <1>2, <1>4 DEF ConfigInv

\* Nothing that the configuration depends on has changed.
LEMMA SameConfig ==
  ASSUME ConfigInv, UNCHANGED configuration, "settings" \in tampered' <=> "settings" \in tampered
  PROVE  ConfigInv'
  BY DEF ConfigInv, configuration, ConfigurationOK, ErrorsInv, Invalid, Result, Devel

\* The configuration after each step.
LEMMA StepConfig == ConfigInv /\ [Next]_vars => ConfigInv'
<1> SUFFICES ASSUME ConfigInv, [Next]_vars PROVE ConfigInv'
  OBVIOUS
<1>1. CASE UNCHANGED vars \/ EarlyLog \/ Incr \/ SetClient \/ StartTest \/ StartTestRaises
  <2>1. UNCHANGED configuration
    BY <1>1 DEF vars, EarlyLog, Incr, SetClient, StartTest, StartTestRaises
  <2>2. "settings" \in tampered' <=> "settings" \in tampered
    BY <1>1 DEF vars, EarlyLog, Incr, SetClient, StartTest, StartTestRaises
  <2> QED
    BY <2>1, <2>2, SameConfig
<1>2. CASE \E s \in Parsed : ReadSetting(s)
  BY <1>2, ReadConfig DEF ReadSetting
<1>3. CASE \E s \in Settings, v \in RawValues : SetSetting(s, v)
  BY <1>3, SetConfig
<1>4. CASE Initialise \/ InitialiseRaisesInConfigure \/ InitialiseRaisesLate
  <2>1. tampered' = tampered
    BY <1>4 DEF Initialise, InitialiseRaisesInConfigure, InitialiseRaisesLate
  <2>2. Configure(TRUE) \/ Configure(FALSE) \/ UNCHANGED configuration
    BY <1>4 DEF Initialise, InitialiseRaisesInConfigure, InitialiseRaisesLate, Configured
  <2> QED
    BY <2>1, <2>2, ConfigureFacts, ReadConfig, SameConfig
<1>5. CASE StopTest \/ ClearAll
  BY <1>5, ClearConfig DEF StopTest, ClearAll
<1> QED
  BY <1>1, <1>2, <1>3, <1>4, <1>5, Steps

\* The configuration at the start.
LEMMA InitConfig == Init => ConfigInv
<1> SUFFICES ASSUME Init PROVE ConfigInv
  OBVIOUS
<1>1. raw \in [Settings -> RawValues]
  BY MergedType DEF Init
<1>2. Invalid \subseteq Parsed /\ \A s \in Parsed : cache[s] = "unread"
  BY DEF Init, Invalid
<1> QED
  BY <1>1, <1>2 DEF Init, ConfigInv, ConfigurationOK, ErrorsInv, Cached, Parsed

\* Logging is configured with all settings read: the errors are those there are.
LEMMA ConfigureReports ==
  ASSUME ConfigInv, Configure(FALSE), tampered' = tampered
  PROVE  IF "settings" \in tampered THEN Invalid' \ {"TALISKER_COLOUR"} \subseteq reported'
                                    ELSE reported' = Invalid'
<1>1. Read(Parsed) /\ reported' = errors'
  BY ConfigureFacts
<1>2. ConfigInv' /\ ConfigurationOK /\ Invalid' = Invalid /\ Invalid \subseteq Parsed
  BY <1>1, ReadConfig, ReadKeepsInvalid DEF ConfigInv, Invalid
<1>3. \A s \in Parsed : cache'[s] # "unread"
  BY <1>1, <1>2, ReadFacts DEF Computed
<1>4. ASSUME NEW s \in Invalid \ {"TALISKER_COLOUR"} PROVE s = "TALISKER_REQUEST_TIMEOUT" /\ raw[s] = "bad"
  <2>1. s \in {"DEVEL", "TALISKER_REQUEST_TIMEOUT"} /\ Result(s) = "error"
    BY <1>2 DEF Invalid, Parsed
  <2>2. raw[s] \in {"unset", "good", "bad"}
    BY <1>2, <2>1 DEF ConfigurationOK, Settings, Parsed, RawValues
  <2> QED
    BY <2>1, <2>2 DEF Result, Parse
<1>5. raw' = raw
  BY <1>1, <1>2, ReadFacts
<1>6. CASE "settings" \in tampered
  BY <1>1, <1>2, <1>3, <1>4, <1>5, <1>6 DEF ConfigInv, ErrorsInv, Parsed
<1>7. CASE "settings" \notin tampered
  BY <1>1, <1>2, <1>3, <1>7 DEF ConfigInv, ErrorsInv
<1> QED
  BY <1>6, <1>7

\* What is logged of invalid settings when logging is configured is what is
\* wrong, however much was read and whatever order it was read in.
THEOREM SettingsAreReported == Spec => ErrorsReported
<1>1. ConfigInv /\ [Next]_vars =>
        [~configured /\ configured' =>
          IF "settings" \in tampered THEN Invalid' \ {"TALISKER_COLOUR"} \subseteq reported'
                                     ELSE reported' = Invalid']_vars
  <2> SUFFICES ASSUME ConfigInv, [Next]_vars, ~configured, configured'
               PROVE  IF "settings" \in tampered THEN Invalid' \ {"TALISKER_COLOUR"} \subseteq reported'
                                                 ELSE reported' = Invalid'
    OBVIOUS
  <2>1. Configure(FALSE) /\ tampered' = tampered
    BY Steps, ConfigureFacts
    DEF vars, logging, ReadSetting, SetSetting, EarlyLog, Initialise, InitialiseRaisesInConfigure, InitialiseRaisesLate, Configured,
        Incr, SetClient, StartTest, StartTestRaises, StopTest, ClearAll, ClearGlobals
  <2> QED
    BY <2>1, ConfigureReports
<1> QED
  BY <1>1, InitConfig, StepConfig, PTL DEF Spec, ErrorsReported

-----------------------------------------------------------------------------
(* Early logs.                                                             *)

\* A log is where it was put, or in what has come out.
EarlyInv ==
  /\ early \in Seq(Nat) /\ out \in Seq(Nat) /\ logged \in Nat
  /\ processed => early = <<>>
  /\ EarlyLogsInOrder

\* An early record is kept, or written once the early ones are.
LEMMA EarlyLogEarly ==
  ASSUME EarlyInv, EarlyLog
  PROVE  EarlyInv'
<1>1. /\ logged' = logged + 1 /\ processed' = processed
      /\ IF processed THEN out' = Append(out, logged + 1) /\ early' = early
                      ELSE early' = Append(early, logged + 1) /\ out' = out
  BY DEF EarlyLog
<1>2. logged \in Nat /\ early \in Seq(Nat) /\ out \in Seq(Nat)
  BY DEF EarlyInv
<1>3. out' \o early' = Append(out \o early, logged + 1)
  <2>1. CASE processed
    <3>1. out' = Append(out, logged + 1) /\ early' = <<>> /\ early = <<>>
      BY <1>1, <2>1 DEF EarlyInv
    <3>2. \A s \in Seq(Nat) : s \o <<>> = s
      OBVIOUS
    <3>3. Append(out, logged + 1) \in Seq(Nat)
      BY <1>2
    <3> QED
      BY <1>2, <3>1, <3>2, <3>3, Zenon
  <2>2. CASE ~processed
    <3>1. \A n \in Nat : out \o Append(early, n) = Append(out \o early, n)
      BY <1>2
    <3>2. logged + 1 \in Nat /\ early' = Append(early, logged + 1) /\ out' = out
      BY <1>1, <1>2, <2>2
    <3> QED
      BY <3>1, <3>2, Zenon
  <2> QED
    BY <2>1, <2>2
<1>4. Append([i \in 1..logged |-> i], logged + 1) = [i \in 1..logged + 1 |-> i]
  BY <1>2
<1>5. EarlyLogsInOrder'
  BY <1>1, <1>3, <1>4 DEF EarlyInv, EarlyLogsInOrder
<1>6. logged' \in Nat /\ (processed' => early' = <<>>)
  BY <1>1, <1>2 DEF EarlyInv
<1>7. early' \in Seq(Nat) /\ out' \in Seq(Nat)
  <2>1. Append(out, logged + 1) \in Seq(Nat) /\ Append(early, logged + 1) \in Seq(Nat)
    BY <1>2
  <2> QED
    BY <1>1, <1>2, <2>1
<1> QED
  BY <1>5, <1>6, <1>7 DEF EarlyInv

\* Flushing writes the early records.
LEMMA FlushEarly ==
  ASSUME EarlyInv, Flush, logged' = logged
  PROVE  EarlyInv'
<1>1. early \in Seq(Nat) /\ out \in Seq(Nat) /\ logged \in Nat /\ out \o early = [i \in 1..logged |-> i]
  BY DEF EarlyInv, EarlyLogsInOrder
<1>2. out' = out \o early /\ early' = <<>>
  BY DEF Flush
<1>3. out' \in Seq(Nat) /\ early' \in Seq(Nat)
  BY <1>1, <1>2
<1>4. \A s \in Seq(Nat) : s \o <<>> = s
  OBVIOUS
<1>5. out' \o early' = out'
  BY <1>2, <1>3, <1>4, Zenon
<1>6. EarlyLogsInOrder'
  BY <1>1, <1>2, <1>5 DEF EarlyLogsInOrder
<1> QED
  BY <1>1, <1>2, <1>3, <1>6 DEF EarlyInv

\* The early records after each step.
LEMMA StepEarly == EarlyInv /\ [Next]_vars => EarlyInv'
<1> SUFFICES ASSUME EarlyInv, [Next]_vars PROVE EarlyInv'
  OBVIOUS
<1>1. CASE EarlyLog
  BY <1>1, EarlyLogEarly
<1>2. CASE Initialise \/ InitialiseRaisesLate
  BY <1>2, FlushEarly DEF Initialise, InitialiseRaisesLate, counters
<1>3. CASE UNCHANGED <<earlyLogs, logged>>
  BY <1>3 DEF EarlyInv, EarlyLogsInOrder, earlyLogs
<1> QED
  BY <1>1, <1>2, <1>3, Steps
  DEF vars, counters, ReadSetting, SetSetting, InitialiseRaisesInConfigure,
      Incr, SetClient, StartTest, StartTestRaises, StopTest, ClearAll, ClearGlobals

-----------------------------------------------------------------------------
(* Handlers.                                                               *)

\* What is cached has one handler more than the globals were cleared; what is added
\* whenever logging is configured has one more for each time that this raised.
HandlersInv ==
  /\ handlers \in [Kinds -> Int] /\ clears \in Nat /\ failures \in Nat
  /\ handlers["stderr"] <= clears + 1 /\ ("stderr" \notin cached => handlers["stderr"] <= clears)
  /\ handlers["sentry"] <= clears + 1 /\ ("sentry" \notin cached => handlers["sentry"] <= clears)
  /\ handlers["debug"] <= clears + failures + 1 /\ (~configured => handlers["debug"] <= clears + failures)
  /\ handlers["warnings"] <= clears + failures + 1 /\ (~configured => handlers["warnings"] <= clears + failures)

\* Configuring logging installs each handler once.
LEMMA ConfigureHandlers ==
  ASSUME HandlersInv, NEW b \in BOOLEAN, Configure(b), clears' = clears,
         failures' \in {failures, failures + 1}, b => failures' = failures + 1
  PROVE  HandlersInv'
<1>1. ~configured /\ (b => ~configured') /\ (~b => configured')
  BY ConfigureFacts
<1>2. cached' = cached \cup {"stderr"} \cup (IF b THEN {} ELSE {"sentry"})
  BY DEF Configure
<1>3. handlers \in [Kinds -> Int] /\ clears \in Nat /\ failures \in Nat
  BY DEF HandlersInv
<1>4. /\ handlers' \in [Kinds -> Int]
      /\ handlers'["stderr"] = handlers["stderr"] + One("stderr" \notin cached)
      /\ handlers'["warnings"] = handlers["warnings"] + One(Devel)
      /\ handlers'["debug"] = handlers["debug"] + One(raw["DEBUGLOG"] = "good")
      /\ handlers'["sentry"] = handlers["sentry"] + One(~b /\ "sentry" \notin cached)
  <2>1. One(Devel) \in Int /\ One(raw["DEBUGLOG"] = "good") \in Int
    BY DEF One
  <2>2. One("stderr" \notin cached) \in Int /\ One(~b /\ "sentry" \notin cached) \in Int
    BY DEF One
  <2>3. handlers' = [handlers EXCEPT !["stderr"] = @ + One("stderr" \notin cached),
                                     !["warnings"] = @ + One(Devel),
                                     !["debug"] = @ + One(raw["DEBUGLOG"] = "good"),
                                     !["sentry"] = @ + One(~b /\ "sentry" \notin cached)]
    BY DEF Configure, Added
  <2> QED
    BY <1>3, <2>1, <2>2, <2>3 DEF Kinds
<1>5. \A k \in Kinds : handlers[k] \in Int
  BY <1>3
<1>6. handlers'["stderr"] <= clears' + 1 /\ "stderr" \in cached'
  BY <1>2, <1>3, <1>4, <1>5 DEF HandlersInv, One, Kinds
<1>7. handlers'["sentry"] <= clears' + 1 /\ ("sentry" \notin cached' => handlers'["sentry"] <= clears')
  <2>1. CASE b
    BY <1>2, <1>3, <1>4, <1>5, <2>1 DEF HandlersInv, One, Kinds
  <2>2. CASE ~b
    BY <1>2, <1>3, <1>4, <1>5, <2>2 DEF HandlersInv, One, Kinds
  <2> QED
    BY <2>1, <2>2
<1>8. failures' \in Nat /\ failures' >= failures /\ (b => failures' = failures + 1)
  BY <1>3
<1>9. /\ handlers'["debug"] <= clears' + failures' + 1
      /\ ~configured' => handlers'["debug"] <= clears' + failures'
  <2>1. One(raw["DEBUGLOG"] = "good") \in {0, 1} /\ handlers["debug"] \in Int
    BY <1>3 DEF One, Kinds
  <2>2. handlers["debug"] <= clears + failures
    BY <1>1 DEF HandlersInv
  <2> QED
    BY <1>1, <1>3, <1>4, <1>8, <2>1, <2>2
<1>10. /\ handlers'["warnings"] <= clears' + failures' + 1
       /\ ~configured' => handlers'["warnings"] <= clears' + failures'
  <2>1. One(Devel) \in {0, 1} /\ handlers["warnings"] \in Int
    BY <1>3 DEF One, Kinds
  <2>2. handlers["warnings"] <= clears + failures
    BY <1>1 DEF HandlersInv
  <2> QED
    BY <1>1, <1>3, <1>4, <1>8, <2>1, <2>2
<1> QED
  BY <1>3, <1>4, <1>6, <1>7, <1>8, <1>9, <1>10 DEF HandlersInv

\* A step that touches no handler but those of tests.
LEMMA SameHandlers ==
  ASSUME HandlersInv, UNCHANGED <<cached, configured, clears>>, failures' \in {failures, failures + 1},
         handlers' \in [Kinds -> Int], \A k \in Kinds \ {"test"} : handlers'[k] = handlers[k]
  PROVE  HandlersInv'
<1>1. /\ handlers'["stderr"] = handlers["stderr"] /\ handlers'["sentry"] = handlers["sentry"]
      /\ handlers'["debug"] = handlers["debug"] /\ handlers'["warnings"] = handlers["warnings"]
  BY DEF Kinds
<1>2. /\ handlers["stderr"] \in Int /\ handlers["sentry"] \in Int
      /\ handlers["debug"] \in Int /\ handlers["warnings"] \in Int
  BY DEF Kinds, HandlersInv
<1> QED
  BY <1>1, <1>2 DEF HandlersInv

\* The globals are cleared, once more.
LEMMA ClearHandlers ==
  ASSUME HandlersInv, clears' = clears + 1, failures' = failures,
         handlers' \in [Kinds -> Int], \A k \in Kinds \ {"test"} : handlers'[k] = handlers[k]
  PROVE  HandlersInv'
<1>1. /\ handlers'["stderr"] = handlers["stderr"] /\ handlers'["sentry"] = handlers["sentry"]
      /\ handlers'["debug"] = handlers["debug"] /\ handlers'["warnings"] = handlers["warnings"]
  BY DEF Kinds
<1>2. /\ handlers["stderr"] \in Int /\ handlers["sentry"] \in Int
      /\ handlers["debug"] \in Int /\ handlers["warnings"] \in Int
  BY DEF Kinds, HandlersInv
<1> QED
  BY <1>1, <1>2 DEF HandlersInv

\* A handler is added for a test, or removed.
LEMMA TestHandlers ==
  ASSUME HandlersInv, NEW n \in Int, handlers' = [handlers EXCEPT !["test"] = n]
  PROVE  handlers' \in [Kinds -> Int] /\ \A k \in Kinds \ {"test"} : handlers'[k] = handlers[k]
  BY DEF HandlersInv, Kinds

\* The handlers after each step.
LEMMA StepHandlers == HandlersInv /\ [Next]_vars => HandlersInv'
<1> SUFFICES ASSUME HandlersInv, [Next]_vars PROVE HandlersInv'
  OBVIOUS
<1>1. handlers \in [Kinds -> Int] /\ failures \in Nat /\ handlers["test"] \in Int
  BY DEF HandlersInv, Kinds
<1>3. CASE UNCHANGED <<logging, clears>> /\ failures' \in {failures, failures + 1}
  BY <1>1, <1>3, SameHandlers DEF logging
<1>4. CASE Initialise \/ InitialiseRaisesLate
  <2>1. clears' = clears /\ failures' \in {failures, failures + 1}
    BY <1>4 DEF Initialise, InitialiseRaisesLate, counters
  <2>2. CASE UNCHANGED logging
    BY <1>3, <2>1, <2>2
  <2>3. CASE Configure(FALSE)
    BY <2>1, <2>3, ConfigureHandlers
  <2> QED
    BY <1>4, <2>1, <2>2, <2>3 DEF Initialise, InitialiseRaisesLate, Configured
<1>5. CASE InitialiseRaisesInConfigure
  <2>1. Configure(TRUE) /\ clears' = clears /\ failures' = failures + 1
    BY <1>5 DEF InitialiseRaisesInConfigure
  <2> QED
    BY <2>1, ConfigureHandlers
<1>6. CASE StartTest \/ StartTestRaises
  <2>1. /\ handlers' = [handlers EXCEPT !["test"] = handlers["test"] + 1]
        /\ UNCHANGED <<cached, configured, clears, failures>>
    BY <1>6 DEF StartTest, StartTestRaises
  <2>2. handlers["test"] + 1 \in Int
    BY <1>1
  <2> QED
    BY <2>1, <2>2, TestHandlers, SameHandlers
<1>7. CASE StopTest
  <2>1. handlers' = [handlers EXCEPT !["test"] = handlers["test"] - 1] /\ clears' = clears + 1 /\ failures' = failures
    BY <1>7 DEF StopTest
  <2>2. handlers["test"] - 1 \in Int
    BY <1>1
  <2> QED
    BY <2>1, <2>2, TestHandlers, ClearHandlers
<1>8. CASE ClearAll
  BY <1>1, <1>8, ClearHandlers DEF ClearAll
<1> QED
  BY <1>3, <1>4, <1>5, <1>6, <1>7, <1>8, Steps
  DEF vars, counters, ReadSetting, SetSetting, EarlyLog, Incr, SetClient

\* The handlers at the start.
LEMMA HandlersAtStart == Init => HandlersInv
  BY DEF Init, HandlersInv, Kinds

\* Early logs come out once and in order, and the handlers do not become more with
\* each start-up, whatever raises in it.
THEOREM RecordsAreOnce == Spec => []RecordsOnce
<1>1. Init => EarlyInv
  BY DEF Init, EarlyInv, EarlyLogsInOrder
<1>2. EarlyInv /\ HandlersInv => RecordsOnce
  <2> SUFFICES ASSUME HandlersInv PROVE HandlersBounded
    BY DEF EarlyInv, RecordsOnce
  <2>1. clears \in Nat /\ failures \in Nat
    BY DEF HandlersInv
  <2> QED
    BY <2>1 DEF HandlersInv, HandlersBounded
<1> QED
  BY <1>1, <1>2, HandlersAtStart, StepEarly, StepHandlers, PTL DEF Spec

-----------------------------------------------------------------------------
(* Tests.                                                                  *)

StatsInv ==
  "cleared" \notin tampered /\ Len(tests) > 0 => statsd = tests[Len(tests)].id

\* The tests share a sentry client, and each has the transport of the one before it to
\* put back.
ChainInv ==
  "client" \notin tampered =>
    /\ \A i \in 1..Len(tests) : tests[i].client = client
    /\ \A i, j \in 1..Len(tests) : j = i + 1 => tests[j].remote = tests[i].id
    /\ Len(tests) > 0 => remote[client] = tests[Len(tests)].id

\* A sentry client sends to a test only as long as a test has to put it back.
RemoteInv ==
  /\ \A c \in Clients : remote[c] = 0 \/ \E i \in 1..Len(tests) : tests[i].client = c
  /\ \A i \in 1..Len(tests) : tests[i].remote = 0 \/ \E j \in 1..(i - 1) : tests[j].client = tests[i].client

TraceInv ==
  "start" \notin tampered =>
    /\ handlers["test"] = Len(tests)
    /\ Len(tests) = 0 => statsd \in {NotMade, 0}

TestsInv == ClientsOK /\ StatsInv /\ ChainInv /\ RemoteInv /\ TraceInv

\* The parts of a test, by name.
LEMMA TestParts ==
  ASSUME ClientsOK, NEW i \in 1..Len(tests)
  PROVE  /\ tests[i].id \in Nat /\ tests[i].statsd \in Nat \cup {NotMade}
         /\ tests[i].client \in Clients /\ tests[i].remote \in Nat
<1>1. tests[i] \in Tests
  BY DEF ClientsOK
<1> QED
  BY <1>1 DEF Tests

\* A step that makes clients where there are none, and no more.
LEMMA QuietTests ==
  ASSUME TestsInv, UNCHANGED <<remote, tests, started>>,
         client' = client \/ MakeClient, statsd' = statsd \/ MakeStatsd,
         handlers'["test"] = handlers["test"], changes' \in Nat,
         tampered' \in {tampered, tampered \cup {"settings"}}
  PROVE  TestsInv'
<1>1. ClientsOK'
  BY GlobalsAssumption DEF TestsInv, ClientsOK, MakeClient, MakeStatsd
<1>2. \A x \in {"cleared", "client", "start"} : x \in tampered' <=> x \in tampered
  OBVIOUS
<1>3. Len(tests) > 0 => client' = client
  BY DEF TestsInv, ClientsOK, MakeClient
<1>4. statsd \in Nat => statsd' = statsd
  BY GlobalsAssumption DEF MakeStatsd
<1>5. statsd \in {NotMade, 0} => statsd' \in {NotMade, 0}
  BY DEF MakeStatsd
<1>6. Len(tests) \in Nat
  BY DEF TestsInv, ClientsOK
<1>7. StatsInv'
  <2>1. Len(tests) > 0 => tests[Len(tests)].id \in Nat
    BY <1>6, TestParts DEF TestsInv
  <2> QED
    BY <1>2, <1>4, <2>1 DEF TestsInv, StatsInv
<1>8. ChainInv'
  <2>1. CASE Len(tests) > 0
    BY <1>2, <1>3, <2>1 DEF TestsInv, ChainInv
  <2>2. CASE Len(tests) = 0
    BY <2>2 DEF ChainInv
  <2> QED
    BY <1>6, <2>1, <2>2
<1>9. RemoteInv'
  BY DEF TestsInv, RemoteInv
<1>10. TraceInv'
  BY <1>2, <1>5 DEF TestsInv, TraceInv
<1> QED
  BY <1>1, <1>7, <1>8, <1>9, <1>10 DEF TestsInv

\* A client is set, in a test context or out of one.
LEMMA SetClientTests ==
  ASSUME TestsInv, SetClient
  PROVE  TestsInv'
<1>1. /\ UNCHANGED <<remote, tests, started, statsd, changes>> /\ client' = client + 1 /\ client < MaxClients
      /\ tampered' = IF tests = <<>> THEN tampered ELSE tampered \cup {"client"}
  BY DEF SetClient, counters
<1>2. handlers' = handlers
  BY DEF SetClient, logging
<1>3. tests \in Seq(Tests) /\ Len(tests) \in Nat /\ (tests = <<>> <=> Len(tests) = 0)
  BY DEF TestsInv, ClientsOK
<1>4. ClientsOK'
  BY <1>1, GlobalsAssumption DEF TestsInv, ClientsOK
<1>5. \A x \in {"cleared", "start"} : x \in tampered' <=> x \in tampered
  BY <1>1
<1>6. StatsInv' /\ TraceInv'
  BY <1>1, <1>2, <1>5 DEF TestsInv, StatsInv, TraceInv
<1>7. ChainInv'
  BY <1>1, <1>3 DEF ChainInv
<1>8. RemoteInv'
  BY <1>1 DEF TestsInv, RemoteInv
<1> QED
  BY <1>4, <1>6, <1>7, <1>8 DEF TestsInv

\* A test context begins.
LEMMA StartTests ==
  ASSUME TestsInv, HandlersInv, StartTest
  PROVE  TestsInv'
<1> DEFINE n == Len(tests)
           c == IF client = 0 THEN 1 ELSE client
           new == [id |-> started + 1, statsd |-> statsd, client |-> c, remote |-> remote[c]]
<1>1. /\ started' = started + 1 /\ statsd' = started + 1 /\ client' = c
      /\ remote' = [remote EXCEPT ![c] = started + 1] /\ tests' = Append(tests, new)
      /\ handlers' = [handlers EXCEPT !["test"] = @ + 1]
      /\ tampered' = tampered /\ changes' = changes
  BY DEF StartTest, ReplaceStatsd, MakeClient
<1>2. c \in Clients /\ started + 1 \in Nat /\ remote \in [Clients -> Nat] /\ tests \in Seq(Tests) /\ n \in Nat
  BY GlobalsAssumption DEF TestsInv, ClientsOK, Clients
<1>3. new \in Tests
  BY <1>2 DEF TestsInv, ClientsOK, Tests
<1> HIDE DEF c, new
<1>4. /\ tests' \in Seq(Tests) /\ Len(tests') = n + 1
      /\ \A i \in 1..n : tests'[i] = tests[i]
      /\ tests'[n + 1] = new
  BY <1>1, <1>2, <1>3
<1>5. new.id = started + 1 /\ new.client = c /\ new.remote = remote[c]
  BY DEF new
<1>6. /\ remote' \in [Clients -> Nat] /\ remote'[c] = started + 1
      /\ \A d \in Clients \ {c} : remote'[d] = remote[d]
  BY <1>1, <1>2
<1>7. ClientsOK'
  <2>1. client' \in 0..MaxClients /\ client' # 0
    BY <1>1, <1>2, GlobalsAssumption DEF Clients
  <2>2. statsd' \in Nat /\ started' \in Nat
    BY <1>1, <1>2
  <2> QED
    BY <1>1, <1>4, <1>6, <2>1, <2>2 DEF TestsInv, ClientsOK
<1>8. StatsInv'
  BY <1>1, <1>4, <1>5 DEF StatsInv
<1>9. ChainInv'
  <2> SUFFICES ASSUME "client" \notin tampered
               PROVE  /\ \A i \in 1..Len(tests') : tests'[i].client = client'
                      /\ \A i, j \in 1..Len(tests') : j = i + 1 => tests'[j].remote = tests'[i].id
                      /\ remote'[client'] = tests'[Len(tests')].id
    BY <1>1 DEF ChainInv
  <2>1. n > 0 => c = client
    BY <1>2 DEF c, TestsInv, ClientsOK
  <2>2. \A i \in 1..n : tests[i].client = c
    BY <1>2, <2>1 DEF TestsInv, ChainInv
  <2>3. \A i \in 1..Len(tests') : i \in 1..n \/ i = n + 1
    BY <1>2, <1>4
  <2>4. \A i \in 1..Len(tests') : tests'[i].client = client'
    BY <1>1, <1>4, <1>5, <2>2, <2>3
  <2>5. n > 0 => remote[c] = tests[n].id
    BY <2>1 DEF TestsInv, ChainInv
  <2>6. ASSUME NEW i \in 1..Len(tests'), NEW j \in 1..Len(tests'), j = i + 1
        PROVE  tests'[j].remote = tests'[i].id
    <3>1. i \in 1..n /\ (j \in 1..n \/ (j = n + 1 /\ i = n))
      BY <1>2, <1>4, <2>6
    <3>2. CASE j \in 1..n
      BY <1>4, <2>6, <3>1, <3>2 DEF TestsInv, ChainInv
    <3>3. CASE j = n + 1 /\ i = n
      BY <1>4, <1>5, <2>5, <3>1, <3>3
    <3> QED
      BY <3>1, <3>2, <3>3
  <2>7. remote'[client'] = tests'[Len(tests')].id
    BY <1>1, <1>4, <1>5, <1>6
  <2> QED
    BY <2>4, <2>6, <2>7
<1>10. RemoteInv'
  <2>1. ASSUME NEW d \in Clients PROVE remote'[d] = 0 \/ \E i \in 1..Len(tests') : tests'[i].client = d
    <3>1. CASE d = c
      <4>1. n + 1 \in 1..Len(tests')
        BY <1>2, <1>4
      <4> QED
        BY <1>4, <1>5, <3>1, <4>1
    <3>2. CASE d # c
      <4>1. 1..n \subseteq 1..Len(tests')
        BY <1>2, <1>4
      <4> QED
        BY <1>4, <1>6, <3>2, <4>1 DEF TestsInv, RemoteInv
    <3> QED
      BY <3>1, <3>2
  <2>2. ASSUME NEW i \in 1..Len(tests')
        PROVE  tests'[i].remote = 0 \/ \E j \in 1..(i - 1) : tests'[j].client = tests'[i].client
    <3>1. i \in 1..n \/ i = n + 1
      BY <1>2, <1>4
    <3>2. CASE i \in 1..n
      <4>1. tests[i].remote = 0 \/ \E j \in 1..(i - 1) : tests[j].client = tests[i].client
        BY <3>2 DEF TestsInv, RemoteInv
      <4>2. 1..(i - 1) \subseteq 1..n
        BY <1>2, <3>2
      <4> QED
        BY <1>4, <3>2, <4>1, <4>2
    <3>3. CASE i = n + 1
      <4>1. remote[c] = 0 \/ \E j \in 1..n : tests[j].client = c
        BY <1>2 DEF TestsInv, RemoteInv
      <4>2. i - 1 = n
        BY <1>2, <3>3
      <4> QED
        BY <1>4, <1>5, <3>3, <4>1, <4>2
    <3> QED
      BY <3>1, <3>2, <3>3
  <2> QED
    BY <2>1, <2>2 DEF RemoteInv
<1>11. TraceInv'
  <2>1. handlers'["test"] = handlers["test"] + 1
    BY <1>1 DEF HandlersInv, Kinds
  <2>2. Len(tests') # 0
    BY <1>2, <1>4
  <2> QED
    BY <1>1, <1>4, <2>1, <2>2 DEF TestsInv, TraceInv
<1> QED
  BY <1>7, <1>8, <1>9, <1>10, <1>11 DEF TestsInv

\* There is no sentry client, and so there are no tests.
LEMMA StartRaisesTests ==
  ASSUME TestsInv, StartTestRaises
  PROVE  TestsInv'
<1>1. /\ started' = started + 1 /\ statsd' = started + 1
      /\ UNCHANGED <<client, remote, tests, changes>> /\ tampered' = tampered \cup {"start"}
      /\ client = 0
  BY DEF StartTestRaises, ReplaceStatsd, ClientFails
<1>2. Len(tests) \in Nat /\ ~(Len(tests) > 0) /\ started + 1 \in Nat
  BY <1>1 DEF TestsInv, ClientsOK
<1>3. ClientsOK'
  BY <1>1, <1>2 DEF TestsInv, ClientsOK
<1>4. StatsInv' /\ TraceInv'
  BY <1>1, <1>2 DEF StatsInv, TraceInv
<1>5. ChainInv'
  BY <1>1 DEF TestsInv, ChainInv
<1>6. RemoteInv'
  BY <1>1 DEF TestsInv, RemoteInv
<1> QED
  BY <1>3, <1>4, <1>5, <1>6 DEF TestsInv

\* The globals are cleared.
LEMMA ClearTests ==
  ASSUME TestsInv, ClearAll
  PROVE  TestsInv'
<1>1. UNCHANGED <<remote, tests, started, changes, handlers>> /\ MakeClient /\ statsd' = NotMade
  BY DEF ClearAll, ClearGlobals
<1>2. tampered' = (tampered \ {"settings"}) \cup (IF tests' = <<>> THEN {} ELSE {"cleared"})
  BY DEF ClearAll, ClearGlobals
<1>3. Len(tests) \in Nat /\ (tests = <<>> <=> Len(tests) = 0)
  BY DEF TestsInv, ClientsOK
<1>4. \A x \in {"client", "start"} : x \in tampered' <=> x \in tampered
  BY <1>2
<1>5. Len(tests) > 0 => client' = client /\ "cleared" \in tampered'
  BY <1>1, <1>2, <1>3 DEF TestsInv, ClientsOK, MakeClient
<1>6. ClientsOK'
  BY <1>1, <1>2, GlobalsAssumption DEF TestsInv, ClientsOK, MakeClient
<1>7. StatsInv' /\ TraceInv'
  BY <1>1, <1>4, <1>5 DEF TestsInv, StatsInv, TraceInv
<1>8. ChainInv'
  <2>1. CASE Len(tests) > 0
    BY <1>1, <1>4, <1>5, <2>1 DEF TestsInv, ChainInv
  <2>2. CASE Len(tests) = 0
    BY <1>1, <2>2 DEF ChainInv
  <2> QED
    BY <1>3, <2>1, <2>2
<1>9. RemoteInv'
  BY <1>1 DEF TestsInv, RemoteInv
<1> QED
  BY <1>6, <1>7, <1>8, <1>9 DEF TestsInv

\* Which test is stopped, and what is left of the others.
LEMMA StopFacts ==
  ASSUME TestsInv, StopTest
  PROVE  /\ Len(tests) \in Nat /\ Len(tests) > 0 /\ Last(tests) = tests[Len(tests)]
         /\ tests' \in Seq(Tests) /\ Len(tests') = Len(tests) - 1
         /\ \A i \in 1..(Len(tests) - 1) : tests'[i] = tests[i]
<1>1. tests \in Seq(Tests) /\ tests # <<>> /\ tests' = Front(tests)
  BY DEF StopTest, TestsInv, ClientsOK
<1>2. Len(tests) \in Nat /\ Len(tests) > 0
  BY <1>1
<1>3. Last(tests) = tests[Len(tests)] /\ tests' = SubSeq(tests, 1, Len(tests) - 1)
  BY <1>1 DEF Last, Front
<1>4. Len(tests) - 1 \in Int /\ \A i \in 1..(Len(tests) - 1) : tests[i] \in Tests
  BY <1>1, <1>2
<1>5. /\ tests' \in Seq(Tests)
      /\ Len(tests') = IF 1 <= Len(tests) - 1 THEN Len(tests) - 1 - 1 + 1 ELSE 0
      /\ \A i \in 1..(Len(tests) - 1 - 1 + 1) : tests'[i] = tests[1 + i - 1]
  BY <1>3, <1>4, SubSeqProperties
<1>6. Len(tests') = Len(tests) - 1
  <2>1. \A l : \A k \in Nat : k > 0 /\ l = (IF 1 <= k - 1 THEN k - 1 - 1 + 1 ELSE 0) => l = k - 1
    OBVIOUS
  <2>2. Len(tests') = IF 1 <= Len(tests) - 1 THEN Len(tests) - 1 - 1 + 1 ELSE 0
    BY <1>5, Zenon
  <2> QED
    BY <1>2, <2>1, <2>2
<1>7. ASSUME NEW i \in 1..(Len(tests) - 1) PROVE tests'[i] = tests[i]
  <2>1. i \in 1..(Len(tests) - 1 - 1 + 1) /\ 1 + i - 1 = i
    BY <1>2
  <2> QED
    BY <1>5, <2>1
<1> QED
  BY <1>2, <1>3, <1>5, <1>6, <1>7

\* A test context ends.
LEMMA StopTests ==
  ASSUME TestsInv, HandlersInv, StopTest
  PROVE  TestsInv'
<1> DEFINE n == Len(tests)
           c == tests[n].client
<1>1. /\ n \in Nat /\ n > 0 /\ Last(tests) = tests[n]
      /\ tests' \in Seq(Tests) /\ Len(tests') = n - 1
      /\ \A i \in 1..(n - 1) : tests'[i] = tests[i]
  BY StopFacts
<1>2. /\ remote' = [remote EXCEPT ![c] = tests[n].remote]
      /\ UNCHANGED <<client, started, changes>> /\ statsd' = NotMade
      /\ handlers' = [handlers EXCEPT !["test"] = @ - 1]
  BY <1>1 DEF StopTest, Restore, ClearGlobals
<1>3. tampered' = (tampered \ {"settings"}) \cup (IF tests' = <<>> THEN {} ELSE {"cleared"})
  BY DEF StopTest, ClearGlobals
<1>4. n \in 1..n /\ c \in Clients /\ tests[n].remote \in Nat /\ remote \in [Clients -> Nat]
  BY <1>1, TestParts DEF TestsInv, ClientsOK
<1>5. /\ remote' \in [Clients -> Nat] /\ remote'[c] = tests[n].remote
      /\ \A d \in Clients \ {c} : remote'[d] = remote[d]
  BY <1>2, <1>4
<1>6. tests' = <<>> <=> Len(tests') = 0
  BY <1>1
<1>7. /\ \A x \in {"client", "start"} : x \in tampered' <=> x \in tampered
      /\ Len(tests') > 0 => "cleared" \in tampered'
  BY <1>1, <1>3, <1>6
<1>8. ClientsOK'
  <2>1. tampered' \subseteq {"settings", "client", "start", "cleared"}
    BY <1>3 DEF TestsInv, ClientsOK
  <2> QED
    BY <1>1, <1>2, <1>5, <2>1 DEF TestsInv, ClientsOK
<1>9. StatsInv'
  BY <1>7 DEF StatsInv
<1>10. ChainInv'
  <2> SUFFICES ASSUME "client" \notin tampered
               PROVE  /\ \A i \in 1..(n - 1) : tests'[i].client = client
                      /\ \A i, j \in 1..(n - 1) : j = i + 1 => tests'[j].remote = tests'[i].id
                      /\ n - 1 > 0 => remote'[client] = tests'[n - 1].id
    BY <1>1, <1>2, <1>7 DEF ChainInv
  <2>1. /\ \A i \in 1..n : tests[i].client = client
        /\ \A i, j \in 1..n : j = i + 1 => tests[j].remote = tests[i].id
    BY DEF TestsInv, ChainInv
  <2>2. 1..(n - 1) \subseteq 1..n
    BY <1>1
  <2>3. /\ \A i \in 1..(n - 1) : tests'[i].client = client
        /\ \A i, j \in 1..(n - 1) : j = i + 1 => tests'[j].remote = tests'[i].id
    BY <1>1, <2>1, <2>2
  <2>4. ASSUME n - 1 > 0 PROVE remote'[client] = tests'[n - 1].id
    <3>1. n - 1 \in 1..(n - 1) /\ n - 1 \in 1..n /\ n = (n - 1) + 1
      BY <1>1, <2>4
    <3>2. tests[n].remote = tests[n - 1].id
      BY <1>4, <2>1, <3>1
    <3> QED
      BY <1>1, <1>4, <1>5, <2>1, <3>1, <3>2
  <2> QED
    BY <2>3, <2>4
<1>11. RemoteInv'
  <2>1. tests[n].remote = 0 \/ \E j \in 1..(n - 1) : tests[j].client = c
    BY <1>4 DEF TestsInv, RemoteInv
  <2>2. ASSUME NEW d \in Clients PROVE remote'[d] = 0 \/ \E i \in 1..(n - 1) : tests'[i].client = d
    <3>1. CASE d = c
      BY <1>1, <1>5, <2>1, <3>1
    <3>2. CASE d # c
      <4>1. remote[d] = 0 \/ \E i \in 1..n : tests[i].client = d
        BY DEF TestsInv, RemoteInv
      <4>2. \A i \in 1..n : tests[i].client = d => i \in 1..(n - 1)
        BY <1>1, <3>2
      <4> QED
        BY <1>1, <1>5, <3>2, <4>1, <4>2
    <3> QED
      BY <3>1, <3>2
  <2>3. ASSUME NEW i \in 1..(n - 1)
        PROVE  tests'[i].remote = 0 \/ \E j \in 1..(i - 1) : tests'[j].client = tests'[i].client
    <3>1. i \in 1..n /\ 1..(i - 1) \subseteq 1..(n - 1)
      BY <1>1
    <3>2. tests[i].remote = 0 \/ \E j \in 1..(i - 1) : tests[j].client = tests[i].client
      BY <3>1 DEF TestsInv, RemoteInv
    <3> QED
      BY <1>1, <3>1, <3>2
  <2> QED
    BY <1>1, <2>2, <2>3 DEF RemoteInv
<1>12. TraceInv'
  <2>1. handlers'["test"] = handlers["test"] - 1
    BY <1>2 DEF HandlersInv, Kinds
  <2> QED
    BY <1>1, <1>2, <1>7, <2>1 DEF TestsInv, TraceInv
<1> QED
  BY <1>8, <1>9, <1>10, <1>11, <1>12 DEF TestsInv

\* The test contexts after each step.
LEMMA StepTests == TestsInv /\ HandlersInv /\ [Next]_vars => TestsInv'
<1> SUFFICES ASSUME TestsInv, HandlersInv, [Next]_vars PROVE TestsInv'
  OBVIOUS
<1>1. changes \in Nat
  BY DEF TestsInv, ClientsOK
<1>2. CASE \/ (\E s \in Parsed : ReadSetting(s)) \/ EarlyLog \/ Incr \/ UNCHANGED vars
           \/ \E s \in Settings, v \in RawValues : SetSetting(s, v)
  <2>1. /\ UNCHANGED <<remote, tests, started, client, handlers>>
        /\ statsd' = statsd \/ MakeStatsd
        /\ changes' \in {changes, changes + 1}
        /\ tampered' \in {tampered, tampered \cup {"settings"}}
    BY <1>2 DEF ReadSetting, EarlyLog, Incr, SetSetting, vars, clients, logging, counters
  <2>2. changes' \in Nat
    BY <1>1, <2>1
  <2> QED
    BY <2>1, <2>2, QuietTests
<1>3. CASE Initialise \/ InitialiseRaisesInConfigure \/ InitialiseRaisesLate
  <2>1. /\ UNCHANGED <<remote, tests, started, changes, tampered>>
        /\ client' = client \/ MakeClient
        /\ statsd' = statsd \/ MakeStatsd
    BY <1>3 DEF Initialise, InitialiseRaisesInConfigure, InitialiseRaisesLate, clients, counters
  <2>2. handlers' = handlers \/ (\E b \in BOOLEAN : handlers' = Added(b))
    BY <1>3 DEF Initialise, InitialiseRaisesInConfigure, InitialiseRaisesLate, Configured, Configure, logging
  <2>3. \A b \in BOOLEAN : Added(b)["test"] = handlers["test"]
    BY DEF HandlersInv, Added, Kinds
  <2>4. handlers'["test"] = handlers["test"]
    BY <2>2, <2>3
  <2>5. changes' \in Nat
    BY <1>1, <2>1
  <2> QED
    BY <2>1, <2>4, <2>5, QuietTests
<1> QED
  BY <1>2, <1>3, Steps, SetClientTests, StartTests, StartRaisesTests, ClearTests, StopTests

\* The test contexts at the start.
LEMMA InitTests == Init => TestsInv
<1> SUFFICES ASSUME Init PROVE TestsInv
  OBVIOUS
<1>1. tests = <<>> /\ Len(tests) = 0
  BY DEF Init
<1>2. ClientsOK
  BY GlobalsAssumption DEF Init, ClientsOK, Clients
<1>3. RemoteInv
  BY <1>1 DEF Init, RemoteInv, Clients
<1>4. StatsInv /\ ChainInv /\ TraceInv
  BY <1>1 DEF Init, StatsInv, ChainInv, TraceInv
<1> QED
  BY <1>2, <1>3, <1>4 DEF TestsInv

\* Statistics and reports go to the innermost test.
THEOREM TestsAreIsolated == Spec => []TestsIsolated
<1>1. TestsInv => TestsIsolated
  <2> SUFFICES ASSUME TestsInv, tests # <<>>
               PROVE  /\ "cleared" \notin tampered => StatsTo = tests[Len(tests)].id
                      /\ "client" \notin tampered => ReportsTo = tests[Len(tests)].id
    BY DEF TestsIsolated, Last
  <2>1. Len(tests) > 0 /\ client # 0 /\ Len(tests) \in 1..Len(tests)
    BY DEF TestsInv, ClientsOK
  <2>2. tests[Len(tests)].id \in Nat
    BY <2>1, TestParts DEF TestsInv
  <2>3. "cleared" \notin tampered => StatsTo = tests[Len(tests)].id
    BY <2>1, <2>2, GlobalsAssumption DEF TestsInv, StatsInv, StatsTo
  <2>4. "client" \notin tampered => ReportsTo = tests[Len(tests)].id
    BY <2>1 DEF TestsInv, ChainInv, ReportsTo
  <2> QED
    BY <2>3, <2>4
<1> QED
  BY <1>1, InitTests, StepTests, StepHandlers, HandlersAtStart, PTL DEF Spec

\* When the tests are over, the process is as it was before them.
THEOREM TestsAreForgotten == Spec => []TestsLeaveNoTrace
<1>1. TestsInv => TestsLeaveNoTrace
  <2> SUFFICES ASSUME TestsInv, tests = <<>>, "start" \notin tampered
               PROVE  StatsTo = 0 /\ handlers["test"] = 0 /\ \A c \in DOMAIN remote : remote[c] = 0
    BY DEF TestsLeaveNoTrace
  <2>1. Len(tests) = 0 /\ DOMAIN remote = Clients
    BY DEF TestsInv, ClientsOK
  <2>2. StatsTo = 0 /\ handlers["test"] = 0
    BY <2>1 DEF TestsInv, TraceInv, StatsTo
  <2>3. \A c \in Clients : remote[c] = 0
    BY <2>1 DEF TestsInv, RemoteInv
  <2> QED
    BY <2>1, <2>2, <2>3
<1> QED
  BY <1>1, InitTests, StepTests, StepHandlers, HandlersAtStart, PTL DEF Spec

=============================================================================
