-------------------------- MODULE MCProcessGlobals --------------------------
(* ProcessGlobals, with environments and files in which few settings are set. *)
EXTENDS ProcessGlobals

With(names, values) == [n \in names |-> IF n \in DOMAIN values THEN values[n] ELSE "unset"]

MCLoaded ==
  {[env |-> With(EnvNames, e), file |-> With(Settings, f)] :
     e \in {[DEVEL |-> "good", TALISKER_COLOR |-> "bad", DEBUGLOG |-> "good"],
            [TALISKER_COLOUR |-> "bad", SENTRY_DSN |-> "bad"],
            [DEVEL |-> "good", STATSD_DSN |-> "bad"]},
     f \in {[TALISKER_COLOUR |-> "good", TALISKER_REQUEST_TIMEOUT |-> "bad"]}}

MCChanges == {<<"DEVEL", "good">>, <<"TALISKER_REQUEST_TIMEOUT", "good">>, <<"SENTRY_DSN", "good">>}
=============================================================================
