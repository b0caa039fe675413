------------------------------- MODULE Deadlines -------------------------------
(***************************************************************************)
(* The deadline of a request on its way through a chain of services that   *)
(* use talisker: how it gets into the context of a request (__call__ in    *)
(* talisker/wsgi.py, request_timeout in talisker/context.py), goes out in  *)
(* the header of a request to the next service (send_wrapper in            *)
(* talisker/requests.py), and becomes the statement_timeout of a           *)
(* PostgreSQL transaction (TaliskerCursor in talisker/postgresql.py).      *)
(*                                                                         *)
(* A tick is a microsecond, in which deadlines are sent; PerMs and         *)
(* PerSecond are small instead.  Time 0 is any moment of a day.  A service *)
(* waits while the one it has called is at work.  Its connection is not in *)
(* autocommit mode.                                                        *)
(***************************************************************************)
EXTENDS Integers

CONSTANTS NumServices,
          PerMs,        \* ticks of a millisecond
          PerSecond,    \* ticks of a second
          Timeouts,     \* the timeouts, in ms, of configurations and decorators
          None,
          Zones,        \* local time minus UTC, in ticks, that servers may have
          MaxTime       \* bound: the end of time

Services == 1..NumServices

ASSUME DeadlinesAssumption ==
  /\ NumServices \in Nat \ {0} /\ PerMs \in Nat \ {0} /\ PerSecond \in Nat \ {0}
  /\ Timeouts \subseteq Nat /\ None \notin Int /\ None \notin [at : Int, fraction : BOOLEAN]
  /\ Zones \subseteq Int /\ MaxTime \in Nat

VARIABLES
  zone,         \* the time zone of each server
  config,       \* request_timeout of each service
  now,          \* the time
  depth,        \* how many services are at work on the request
  message,      \* "none" or "request": a request is on its way to the next service
  header,       \* its X-Request-Deadline
  start,        \* start_time of each service's context
  deadline,     \* deadline of each service's context
  decorated,    \* (history) a request_timeout decorator has set the deadline
  transaction,  \* "idle", "open" or "aborted", on each service's connection
  limit,        \* its statement_timeout in ms, where 0 means none
  stage,        \* "ready", "set" or "running": where the deepest service is in execute()
  since,        \* when execute() took the time, and 0 outside of it
  begun         \* when the statement began, and 0 before and after

settings == <<zone, config>>
contexts == <<depth, message, header, start, deadline, decorated>>
connections == <<transaction, limit, stage, since, begun>>
vars == <<settings, now, contexts, connections>>

\* What isoformat() makes of an instant: the fraction of a second is left out
\* when it is zero.
Isoformat(d) == [at |-> d, fraction |-> (d % PerSecond) # 0]

Headers == [at : Int, fraction : BOOLEAN] \cup {None}

TypeOK ==
  /\ zone \in [Services -> Zones]
  /\ config \in [Services -> Timeouts \cup {None}]
  /\ now \in 0..MaxTime
  /\ depth \in 0..NumServices
  /\ message \in {"none", "request"}
  /\ header \in Headers
  /\ start \in [Services -> 0..MaxTime]
  /\ deadline \in [Services -> Int \cup {None}]
  /\ decorated \in [Services -> BOOLEAN]
  /\ transaction \in [Services -> {"idle", "open", "aborted"}]
  /\ limit \in [Services -> Nat]
  /\ stage \in {"ready", "set", "running"}
  /\ since \in 0..MaxTime /\ begun \in 0..MaxTime

\* A client sends any deadline, or one that has the format of no date.
Init ==
  /\ zone \in [Services -> Zones]
  /\ config \in [Services -> Timeouts \cup {None}]
  /\ now = 0
  /\ depth = 0
  /\ message = "request"
  /\ header \in [at : 1..MaxTime, fraction : BOOLEAN] \cup {None}
  /\ start = [s \in Services |-> 0]
  /\ deadline = [s \in Services |-> None]
  /\ decorated = [s \in Services |-> FALSE]
  /\ transaction = [s \in Services |-> "idle"]
  /\ limit = [s \in Services |-> 0]
  /\ stage = "ready"
  /\ since = 0 /\ begun = 0

-----------------------------------------------------------------------------
(* The context.                                                            *)

\* set_relative_deadline for a context that began at a certain time.
After(began, ms) == began + ms * PerMs

\* (mutant) The configuration comes first.
ReceivedConfigFirst(s) ==
  IF config[s] # None THEN After(now, config[s])
  ELSE IF header # None /\ header.fraction THEN header.at - zone[s] ELSE None

\* The deadline of a request that service s receives.  strptime wants a
\* fraction, and makes a naive date that timestamp() takes for local time.
Received(s) ==
  IF header # None /\ header.fraction THEN header.at - zone[s]
  ELSE IF config[s] # None THEN After(now, config[s]) ELSE None

\* __call__ of the middleware.
Serve ==
  LET s == depth + 1
  IN  /\ message = "request"
      /\ message' = "none" /\ header' = None
      /\ depth' = s
      /\ start' = [start EXCEPT ![s] = now]
      /\ deadline' = [deadline EXCEPT ![s] = Received(s)]
      /\ decorated' = [decorated EXCEPT ![s] = FALSE]
      /\ UNCHANGED <<settings, now, connections>>

\* The deepest service s is in its own code.
Runs(s) == s = depth /\ message = "none" /\ stage = "ready"

\* A function with the decorator request_timeout(ms) is called.
Decorate(s, ms) ==
  /\ Runs(s)
  /\ ms # 0
  /\ deadline' = [deadline EXCEPT ![s] = After(start[s], ms)]
  /\ decorated' = [decorated EXCEPT ![s] = TRUE]
  /\ UNCHANGED <<settings, now, depth, message, header, start, connections>>

\* send_wrapper.
Send(s) ==
  /\ Runs(s) /\ s < NumServices
  /\ message' = "request"
  /\ header' = IF deadline[s] = None THEN None ELSE Isoformat(deadline[s])
  /\ UNCHANGED <<settings, now, depth, start, deadline, decorated, connections>>

\* Service s responds, and finish_request clears its context.
Respond(s) ==
  /\ Runs(s)
  /\ depth' = depth - 1
  /\ start' = [start EXCEPT ![s] = 0]
  /\ deadline' = [deadline EXCEPT ![s] = None]
  /\ decorated' = [decorated EXCEPT ![s] = FALSE]
  /\ UNCHANGED <<settings, now, message, header, connections>>

-----------------------------------------------------------------------------
(* The cursor.  execute() and callproc() differ in what they record.       *)

\* deadline_timeout() does not raise.
InTime(s) == now < deadline[s]

\* (mutant) The timeout of a transaction is set once.
TimeoutOnce(s) == IF limit[s] # 0 THEN limit[s] ELSE (deadline[s] - now) \div PerMs

\* What is left, in whole ms.
Timeout(s) == (deadline[s] - now) \div PerMs

\* apply_timeout() under a deadline.  SET LOCAL begins a transaction if there
\* is none, and raises, unrecorded, in one that has failed; so does
\* deadline_timeout() when it is too late.  Then nothing changes.
ApplyTimeout(s) ==
  /\ Runs(s) /\ deadline[s] # None /\ InTime(s)
  /\ transaction[s] # "aborted"
  /\ transaction' = [transaction EXCEPT ![s] = "open"]
  /\ limit' = [limit EXCEPT ![s] = Timeout(s)]
  /\ stage' = "set"
  /\ since' = now
  /\ UNCHANGED <<settings, now, contexts, begun>>

\* SET LOCAL itself fails, as any statement may.
SetFails(s) ==
  /\ s = depth /\ stage = "set"
  /\ transaction' = [transaction EXCEPT ![s] = "aborted"]
  /\ stage' = "ready" /\ since' = 0
  /\ UNCHANGED <<settings, now, contexts, limit, begun>>

\* The statement goes to the database, with or without a deadline.
Execute(s) ==
  /\ \/ s = depth /\ stage = "set" /\ UNCHANGED <<transaction, since>>
     \/ /\ Runs(s) /\ s # 0 /\ deadline[s] = None
        /\ transaction' = [transaction EXCEPT ![s] = IF @ = "idle" THEN "open" ELSE @]
        /\ since' = now
  /\ stage' = "running"
  /\ begun' = now
  /\ UNCHANGED <<settings, now, contexts, limit>>

\* The statement has succeeded, failed, or been cancelled.  ROLLBACK TO
\* SAVEPOINT is one that succeeds in a failed transaction.
StatementEnds(s, t) ==
  /\ s = depth /\ stage = "running"
  /\ transaction' = [transaction EXCEPT ![s] = t]
  /\ stage' = "ready" /\ since' = 0 /\ begun' = 0
  /\ UNCHANGED <<settings, now, contexts, limit>>

\* commit() or rollback() of the connection, with which SET LOCAL ends.
EndTransaction(s) ==
  /\ Runs(s) /\ s # 0 /\ transaction[s] # "idle"
  /\ transaction' = [transaction EXCEPT ![s] = "idle"]
  /\ limit' = [limit EXCEPT ![s] = 0]
  /\ UNCHANGED <<settings, now, contexts, stage, since, begun>>

\* Time passes; PostgreSQL lets no statement run past its timeout.
Tick ==
  /\ now < MaxTime
  /\ stage = "running" /\ limit[depth] # 0 => now < begun + limit[depth] * PerMs
  /\ now' = now + 1
  /\ UNCHANGED <<settings, contexts, connections>>

-----------------------------------------------------------------------------
ServiceStep(s) ==
  \/ \E ms \in Timeouts : Decorate(s, ms)
  \/ Send(s)
  \/ Respond(s)
  \/ ApplyTimeout(s)
  \/ SetFails(s)
  \/ Execute(s)
  \/ \E t \in {"open", "aborted"} : StatementEnds(s, t)
  \/ EndTransaction(s)

Next == Serve \/ (\E s \in Services : ServiceStep(s)) \/ Tick

Spec == Init /\ [][Next]_vars

-----------------------------------------------------------------------------
(* Properties.                                                             *)

\* A service that is called has the deadline of its caller, whatever its own
\* configuration is and however long the request was on its way: unless a
\* decorator replaced it, the deadline is on a whole second, which the
\* receiver does not read, or the receiver's time zone is not UTC.  Then it is
\* off by the zone, or the configured one.
DeadlineTravels ==
  \A s \in 2..depth :
    ~decorated[s] /\ deadline[s - 1] # None =>
      deadline[s] = IF (deadline[s - 1] % PerSecond) # 0 THEN deadline[s - 1] - zone[s]
                    ELSE IF config[s] # None THEN After(start[s], config[s]) ELSE None

\* However long a transaction has been open and whatever timeouts earlier
\* statements of it had, a statement is over when the deadline of its request
\* is, and the time between taking the time and sending it; only one that was
\* sent with less than a millisecond left may run on.
StatementsInTime ==
  stage = "running" /\ deadline[depth] # None =>
    IF limit[depth] = 0 THEN deadline[depth] - since < PerMs
    ELSE now <= deadline[depth] + (begun - since)

=============================================================================
