------------------------------ MODULE Sessions ------------------------------
(***************************************************************************)
(* The requests sessions of the threads of a process, down a line of forks *)
(* (talisker/requests.py), kept in a thread local that is to be cleared in *)
(* a forked process (talisker/util.py), and the metric names that a call   *)
(* leaves in its context for the response hook.  An access to STORAGE is   *)
(* one step: it checks the pid and then reads or writes the thread local.  *)
(* So is an access to an attribute of a context.                           *)
(***************************************************************************)
EXTENDS Naturals

CONSTANTS Threads,   \* the threads of a process; a fork keeps one of them
          Contexts,  \* the contexts they run in, which a copied context may share
          Names,     \* what callers give as metric_api_name or metric_host_name
          NoName,    \* None: no name is given, or none is there
          Absent,    \* a context without the attribute
          Nobody,    \* no session, no call
          MaxForks, MaxMade  \* bounds

\* The attributes of a context with the names for the metrics.
Attributes == {"metric_api_name", "metric_host_name"}

\* Where a thread is in a call: it has set the first attribute, both, or deleted
\* the first again.
CallStages == {"naming", "sent", "deleting"}

ASSUME SessionsAssumption ==
  /\ MaxForks \in Nat /\ MaxMade \in Nat
  /\ NoName \notin Names /\ Absent \notin Names \cup {NoName}
  /\ Nobody \notin Nat \cup (Nat \X Threads \X Nat)
  /\ Nobody \notin [session : (Nat \X Threads \X Nat), own : [Attributes -> Names \cup {NoName}],
                    context : Contexts, stage : CallStages]

\* What STORAGE._local holds for a thread: nothing, _pid alone, or sessions as well.
Empty == [pid |-> Nobody, sessions |-> FALSE, session |-> Nobody]
Forgotten(pid) == [pid |-> pid, sessions |-> FALSE, session |-> Nobody]

VARIABLES
  pid,      \* how often the line has forked
  running,  \* the threads of the process
  local,    \* the contents of STORAGE._local, by thread
  at,       \* where a thread is in get_session
  got,      \* the session get_session returned last to a thread of this process
  environ,  \* the session wrap() put into the environ of the requests, if any
  made,     \* how many sessions a thread of this process has made
  resets,   \* how often this process dropped what its other threads had in STORAGE
  calls,    \* the call a thread is in: its session, names, context and stage
  names,    \* the attributes of each context
  clean,    \* (history) the threads that have been alone in the context of their call
  overlapped  \* (history) the contexts where no call that was alone ended after those that were not

storage == <<pid, running, local, at, got, environ, made, resets>>
metrics == <<calls, names, clean, overlapped>>
sessionsVars == <<storage, metrics>>

Unnamed == [a \in Attributes |-> Absent]

\* The threads with a call in a context.
In(c) == {t \in Threads : calls[t] # Nobody /\ calls[t].context = c}

SessionsInit ==
  /\ pid = 0
  /\ \E t \in Threads :
       /\ running = {t}
       /\ local = [u \in Threads |-> IF u = t THEN [Empty EXCEPT !.pid = 0, !.sessions = TRUE] ELSE Empty]
  /\ at = [t \in Threads |-> "outside"] /\ got = [t \in Threads |-> Nobody]
  /\ environ = Nobody /\ made = [t \in Threads |-> 0] /\ resets = 0
  /\ calls = [t \in Threads |-> Nobody] /\ names = [c \in Contexts |-> Unnamed]
  /\ clean = {} /\ overlapped = {}

-----------------------------------------------------------------------------
(* Processes and threads.                                                  *)

\* Of the threads only the one that forks is in the new process, with a copy of
\* its part of the thread local.
Fork(t) ==
  /\ pid < MaxForks /\ t \in running /\ at[t] = "outside" /\ calls[t] = Nobody
  /\ pid' = pid + 1
  /\ running' = {t}
  /\ local' = [u \in Threads |-> IF u = t THEN local[t] ELSE Empty]
  /\ at' = [u \in Threads |-> "outside"] /\ got' = [u \in Threads |-> Nobody]
  /\ made' = [u \in Threads |-> 0] /\ resets' = 0
  /\ calls' = [u \in Threads |-> Nobody] /\ clean' = {}
  /\ overlapped' = overlapped \cup {c \in Contexts : In(c) # {}}
  /\ UNCHANGED <<environ, names>>

StartThread(t) ==
  /\ t \notin running
  /\ running' = running \cup {t}
  /\ UNCHANGED <<pid, local, at, got, environ, made, resets, metrics>>

-----------------------------------------------------------------------------
(* get_session.                                                            *)

\* (mutant) The thread local survives a fork.
CheckedKept(t) == [local EXCEPT ![t].pid = pid]

\* Local._check: a thread without a _pid gets one; if there is another, the
\* thread local of all threads is replaced.
Checked(t) ==
  IF local[t].pid \in {Nobody, pid} THEN [local EXCEPT ![t].pid = pid]
  ELSE [u \in Threads |-> IF u = t THEN Forgotten(pid) ELSE Empty]

\* Whether that takes something away from another thread.
Resets(t) ==
  /\ local[t].pid \notin {Nobody, pid}
  /\ \E u \in running \ {t} : local[u].sessions

\* A step of get_session with one access to STORAGE, before anything is written.
Access(t, from) ==
  /\ t \in running /\ at[t] = from
  /\ resets' = IF Resets(t) THEN resets + 1 ELSE resets
  /\ UNCHANGED <<pid, running, environ, metrics>>

\* hasattr(STORAGE, 'sessions')
Begin(t) ==
  /\ Access(t, "outside")
  /\ local' = Checked(t)
  /\ at' = [at EXCEPT ![t] = IF local'[t].sessions THEN "lookup" ELSE "missing"]
  /\ UNCHANGED <<got, made>>

\* STORAGE.sessions = {}
SetSessions(t) ==
  /\ Access(t, "missing")
  /\ local' = [Checked(t) EXCEPT ![t].sessions = TRUE, ![t].session = Nobody]
  /\ at' = [at EXCEPT ![t] = "lookup"]
  /\ UNCHANGED <<got, made>>

\* (mutant) A new session is made whenever it is asked for.
FoundNever(t) == FALSE

Found(t) == Checked(t)[t].session # Nobody

\* STORAGE.sessions.get(cls)
Lookup(t) ==
  /\ Access(t, "lookup")
  /\ Checked(t)[t].sessions
  /\ local' = Checked(t)
  /\ at' = [at EXCEPT ![t] = IF Found(t) THEN "outside" ELSE "create"]
  /\ got' = IF Found(t) THEN [got EXCEPT ![t] = local[t].session] ELSE got
  /\ UNCHANGED made

\* STORAGE.sessions[cls] = cls()
Create(t) ==
  LET session == <<pid, t, made[t] + 1>>
  IN  /\ Access(t, "create")
      /\ made[t] < MaxMade
      /\ Checked(t)[t].sessions
      /\ local' = [Checked(t) EXCEPT ![t].session = session]
      /\ made' = [made EXCEPT ![t] = @ + 1]
      /\ got' = [got EXCEPT ![t] = session]
      /\ at' = [at EXCEPT ![t] = "outside"]

\* STORAGE.sessions is gone: an AttributeError.
AccessRaises(t) ==
  /\ \E from \in {"lookup", "create"} : Access(t, from)
  /\ ~Checked(t)[t].sessions
  /\ local' = Checked(t)
  /\ at' = [at EXCEPT ![t] = "outside"]
  /\ UNCHANGED <<got, made>>

\* wrap() puts the session of its thread into the environ of all requests.
Wrap(t) ==
  /\ t \in running /\ environ = Nobody /\ got[t] # Nobody
  /\ environ' = got[t]
  /\ UNCHANGED <<pid, running, local, at, got, made, resets, metrics>>

-----------------------------------------------------------------------------
(* The metric names of a call.                                             *)

\* The sessions a thread has at hand.
Sessions(t) == {got[t], environ} \ {Nobody}

SetName(c, a, name) == names' = [names EXCEPT ![c] = [@ EXCEPT ![a] = name]]

\* What record_request, of a response or a failure, reads in a context.
Label(c, a) == IF names[c][a] = Absent THEN NoName ELSE names[c][a]

At(t, stage) == calls[t] # Nobody /\ calls[t].stage = stage

GoTo(t, stage) == calls' = [calls EXCEPT ![t] = [@ EXCEPT !.stage = stage]]

\* request_wrapper: session.request(..., metric_api_name=, metric_host_name=), in
\* a context.  It sets the first attribute.
Request(t, session, own, c) ==
  /\ t \in running /\ at[t] = "outside" /\ calls[t] = Nobody
  /\ calls' = [calls EXCEPT ![t] =
                 [session |-> session, own |-> own, context |-> c, stage |-> "naming"]]
  /\ SetName(c, "metric_api_name", own["metric_api_name"])
  /\ clean' = IF In(c) = {} THEN clean \cup {t} ELSE clean \ In(c)
  /\ overlapped' = IF In(c) = {} THEN overlapped ELSE overlapped \cup {c}
  /\ UNCHANGED storage

\* (mutant) Only a name that is given is set.
NameGivenHost(t) ==
  LET call == calls[t]
  IN  /\ At(t, "naming")
      /\ GoTo(t, "sent")
      /\ IF call.own["metric_host_name"] # NoName
         THEN SetName(call.context, "metric_host_name", call.own["metric_host_name"])
         ELSE UNCHANGED names
      /\ UNCHANGED <<storage, clean, overlapped>>

\* The second attribute is set, and the request sent.
NameHost(t) ==
  LET call == calls[t]
  IN  /\ At(t, "naming")
      /\ GoTo(t, "sent")
      /\ SetName(call.context, "metric_host_name", call.own["metric_host_name"])
      /\ UNCHANGED <<storage, clean, overlapped>>

\* request() returns or raises.
Return(t) ==
  /\ calls' = [calls EXCEPT ![t] = Nobody]
  /\ clean' = clean \ {t}
  /\ overlapped' = IF t \in clean THEN overlapped \ {calls[t].context} ELSE overlapped
  /\ UNCHANGED storage

\* del ctx.metric_api_name, which raises if another call has deleted it; then
\* metric_host_name is not deleted.
DeleteApi(t) ==
  LET c == calls[t].context
  IN  /\ At(t, "sent")
      /\ SetName(c, "metric_api_name", Absent)
      /\ IF names[c]["metric_api_name"] = Absent
         THEN Return(t)
         ELSE GoTo(t, "deleting") /\ UNCHANGED <<storage, clean, overlapped>>

\* del ctx.metric_host_name, whether or not that raises.
DeleteHost(t) ==
  /\ At(t, "deleting")
  /\ SetName(calls[t].context, "metric_host_name", Absent)
  /\ Return(t)

SessionsNext ==
  \E t \in Threads :
    \/ Fork(t) \/ StartThread(t)
    \/ Begin(t) \/ SetSessions(t) \/ Lookup(t) \/ Create(t) \/ AccessRaises(t) \/ Wrap(t)
    \/ \E session \in Sessions(t), own \in [Attributes -> Names \cup {NoName}], c \in Contexts :
         Request(t, session, own, c)
    \/ NameHost(t) \/ DeleteApi(t) \/ DeleteHost(t)

SessionsSpec == SessionsInit /\ [][SessionsNext]_sessionsVars

-----------------------------------------------------------------------------
(* Properties.                                                             *)

\* What get_session returns was made by the thread that asks, in its process:
\* neither the connections of a parent nor those of another thread are used. The
\* only session that two threads ever use at once is the one wrap() has put into
\* the environ of all requests.
OwnSession ==
  /\ \A t \in Threads : got[t] # Nobody => got[t][1] = pid /\ got[t][2] = t
  /\ \A t, u \in Threads :
       t # u /\ calls[t] # Nobody /\ calls[u] # Nobody /\ calls[t].session = calls[u].session =>
         calls[t].session = environ

\* A thread makes one session and finds what it has stored; but once in the life
\* of a process, when the thread that forked it first asks for a session after
\* its other threads did, these lose theirs.
SessionsStay ==
  /\ resets <= 1
  /\ \A t \in running :
       /\ made[t] <= 1 + resets
       /\ at[t] \in {"lookup", "create"} /\ resets = 0 => local[t].sessions

\* A call that was alone in its context is counted under its own names, whatever
\* others left there, and leaves none.  No metric_api_name stays after the calls
\* but in a process forked in one; a metric_host_name may, where calls overlapped.
NamesOwn ==
  /\ \A t \in clean, a \in Attributes :
       At(t, "sent") => Label(calls[t].context, a) = calls[t].own[a]
  /\ \A c \in Contexts : In(c) = {} =>
       /\ c \notin overlapped => names[c] = Unnamed
       /\ pid = 0 => names[c]["metric_api_name"] = Absent

=============================================================================
