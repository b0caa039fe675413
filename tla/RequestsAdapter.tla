--------------------------- MODULE RequestsAdapter ---------------------------
(***************************************************************************)
(* One call of a session with talisker's TaliskerAdapter                   *)
(* (talisker/requests.py): timeouts, the deadline of the current context,  *)
(* retries with their pauses, and the redirects that the session follows,  *)
(* each a hop that goes through session.send and the adapter again.        *)
(* Sockets, urllib3's Retry and the session are the environment.           *)
(*                                                                         *)
(* Time is discrete and passes only where the code waits: before a hop, in *)
(* a pause, and in a try, which waits once for the connection and once for *)
(* the response.                                                           *)
(***************************************************************************)
EXTENDS Naturals, Sequences, FiniteSets

CONSTANTS ConnectTimeout,  \* the adapter's timeouts
          ReadTimeout,
          Timeouts,        \* the timeouts a caller may give
          Totals,          \* the numbers of retries a policy may allow
          Deadlines,       \* the deadlines a context may have
          NoDeadline,
          MaxPause,        \* bound: the longest backoff or Retry-After
          MaxHops          \* bound: 1 + session.max_redirects

ASSUME AdapterAssumption ==
  /\ ConnectTimeout \in Nat \ {0} /\ ReadTimeout \in Nat \ {0}
  /\ Timeouts \subseteq Nat \ {0} /\ Totals \subseteq Nat
  /\ Deadlines \subseteq Nat /\ NoDeadline \notin Nat
  /\ MaxPause \in Nat /\ MaxHops \in Nat \ {0, 1}

VARIABLES
  now,       \* the time
  phase,     \* "new", "trying", "pausing" or "done"
  hop,       \* the number of the request, redirects counted
  safe,      \* its method is one that Retry may send again
  deadline,  \* the deadline of the context
  given,     \* the timeouts and the policy of the call, as send() parsed them
  connect,   \* kwargs['timeout'] of the current try
  read,
  left,      \* request._retry: the retries left
  budget,    \* request._read_timeout
  start,     \* request._start
  since,     \* when the current try or pause began
  pause,     \* how long the pause takes
  tries,     \* (history) the tries of this hop
  result,    \* what the caller gets
  records    \* what record_request was called with

waits == <<connect, read, left, budget, start, since, pause, tries>>
constants == <<deadline, given>>
vars == <<now, phase, hop, safe, constants, waits, result, records>>

Least(a, b) == IF a < b THEN a ELSE b

\* A policy is an urllib3 Retry.  None is like one that allows no retries and
\* returns the last response.
Policies == [total : Totals, raises : BOOLEAN]
NoRetry == [total |-> 0, raises |-> FALSE]

\* A call with certain timeouts.
Given(c, r) == {[connect |-> c, read |-> r, policy |-> p] : p \in Policies \cup {NoRetry}}

\* What send() makes of its timeout argument: nothing or a Retry; a number, of
\* which nothing is kept; a tuple with a read timeout or both timeouts, and with
\* or without a Retry.
Parsed ==
  UNION ({Given(ConnectTimeout, ReadTimeout), Given(ConnectTimeout, ConnectTimeout)}
           \cup {Given(c, t) : c \in Timeouts \cup {ConnectTimeout}, t \in Timeouts})

Exceptions == {"DeadlineExceeded", "ValueError", "ConnectionError", "ReadTimeout",
               "RetryError", "TooManyRedirects", "ChunkedEncodingError", "InvalidURL"}

Records == [hop : 1..MaxHops, failed : BOOLEAN]

TypeOK ==
  /\ now \in Nat
  /\ phase \in {"new", "trying", "pausing", "done"}
  /\ hop \in 1..MaxHops
  /\ safe \in BOOLEAN
  /\ deadline \in Deadlines \cup {NoDeadline}
  /\ given \in Parsed
  /\ connect \in Nat /\ read \in Nat /\ left \in Nat /\ budget \in Nat
  /\ start \in Nat /\ since \in Nat /\ pause \in 0..MaxPause /\ tries \in Nat
  /\ result \in Exceptions \cup {"none", "response"}
  /\ records \in Seq(Records)

Init ==
  /\ now = 0
  /\ phase = "new"
  /\ hop = 1
  /\ safe \in BOOLEAN
  /\ deadline \in Deadlines \cup {NoDeadline}
  /\ given \in Parsed
  /\ connect = 0 /\ read = 0 /\ left = 0 /\ budget = 0
  /\ start = 0 /\ since = 0 /\ pause = 0 /\ tries = 0
  /\ result = "none"
  /\ records = <<>>

-----------------------------------------------------------------------------
(* What the steps are made of.                                             *)

Answered(h) == [hop |-> h, failed |-> FALSE]
Failure(h) == [hop |-> h, failed |-> TRUE]

\* (mutant) send_wrapper lets the exception through.
RaiseUnrecorded(e) ==
  /\ phase' = "done"
  /\ result' = e
  /\ UNCHANGED <<records, hop, safe>>

\* What send_wrapper records of an exception that leaves session.send: the
\* request, and for a redirect, whose session.send the first one calls, the
\* first request too.
Failures == IF hop = 1 THEN <<Failure(1)>> ELSE <<Failure(hop), Failure(1)>>

\* An exception leaves adapter.send.
Raise(e) ==
  /\ phase' = "done"
  /\ result' = e
  /\ records' = records \o Failures
  /\ UNCHANGED <<hop, safe>>

\* adapter.send returns a response, which the hook records.  session.send then
\* reads its body, which may break off, and the first session.send returns it,
\* or follows it, with another method if it likes, or gives up.
Deliver ==
  \/ /\ phase' = "done" /\ result' = "response"
     /\ records' = Append(records, Answered(hop))
     /\ UNCHANGED <<hop, safe>>
  \/ /\ phase' = "done" /\ result' = "ChunkedEncodingError"
     /\ records' = records \o (<<Answered(hop)>> \o Failures)
     /\ UNCHANGED <<hop, safe>>
  \/ /\ hop < MaxHops
     /\ phase' = "new" /\ hop' = hop + 1 /\ safe' \in {safe, TRUE}
     /\ records' = Append(records, Answered(hop))
     /\ UNCHANGED result
  \/ /\ phase' = "done" /\ result' = IF hop = MaxHops THEN "TooManyRedirects" ELSE "InvalidURL"
     /\ records' = records \o <<Answered(hop), Failure(1)>>
     /\ UNCHANGED <<hop, safe>>

\* (mutant) The policy that increment() returns is thrown away.
RetryUncounted ==
  /\ phase' = "pausing"
  /\ since' = now
  /\ pause' \in 0..MaxPause
  /\ UNCHANGED <<hop, safe, connect, read, left, budget, start, tries, result, records>>

\* request._retry.increment, and sleep.
Retry ==
  /\ phase' = "pausing"
  /\ left' = left - 1
  /\ since' = now
  /\ pause' \in 0..MaxPause
  /\ UNCHANGED <<hop, safe, connect, read, budget, start, tries, result, records>>

\* Context.deadline_timeout does not raise.
InTime == deadline # NoDeadline => now < deadline

\* A timeout of the call, with the context's deadline enforced.
Capped(t) == IF deadline = NoDeadline THEN t ELSE Least(t, deadline - now)

BudgetLeft == IF now - start < budget THEN budget - (now - start) ELSE 0

Try ==
  /\ phase' = "trying"
  /\ since' = now
  /\ tries' = tries + 1
  /\ UNCHANGED <<hop, safe, pause, result, records>>

-----------------------------------------------------------------------------
(* TaliskerAdapter.send and _send.                                         *)

\* (mutant) The deadline caps only the time to connect.
SendConnectCapped ==
  /\ phase = "new" /\ InTime
  /\ connect' = Capped(given.connect)
  /\ read' = given.read
  /\ budget' = given.read
  /\ left' = given.policy.total
  /\ start' = now
  /\ phase' = "trying" /\ since' = now /\ tries' = 1
  /\ UNCHANGED <<now, hop, safe, constants, pause, result, records>>

\* The first try of a hop.
Send ==
  /\ phase = "new" /\ InTime
  /\ connect' = Capped(given.connect)
  /\ read' = Capped(given.read)
  /\ budget' = Capped(given.read)
  /\ left' = given.policy.total
  /\ start' = now
  /\ phase' = "trying" /\ since' = now /\ tries' = 1
  /\ UNCHANGED <<now, hop, safe, constants, pause, result, records>>

SendTooLate ==
  /\ phase = "new" /\ ~InTime
  /\ Raise("DeadlineExceeded")
  /\ UNCHANGED <<now, constants, waits>>

\* The timeout argument is none of what send() accepts.
SendRejected ==
  /\ phase = "new" /\ hop = 1
  /\ Raise("ValueError")
  /\ UNCHANGED <<now, constants, waits>>

\* A response that the policy does not ask to retry.
TryResponds ==
  /\ phase = "trying"
  /\ Deliver
  /\ UNCHANGED <<now, constants, waits>>

\* A response that the policy asks to retry, by its status or Retry-After.
TryAsksRetry ==
  /\ phase = "trying" /\ safe
  /\ UNCHANGED <<now, constants>>
  /\ IF left > 0
     THEN Retry
     ELSE /\ IF given.policy.raises THEN Raise("RetryError") ELSE Deliver
          /\ UNCHANGED waits

\* A ConnectionError.  One that comes after the request may have been read is
\* raised again by increment() unless the method is safe.
TryFails(error) ==
  /\ phase = "trying"
  /\ error = "connect" => now <= since + connect
  /\ UNCHANGED <<now, constants>>
  /\ IF left > 0 /\ (error = "connect" \/ safe)
     THEN Retry
     ELSE Raise("ConnectionError") /\ UNCHANGED waits

\* requests.ReadTimeout is no ConnectionError.
TryTimesOut ==
  /\ phase = "trying" /\ now >= since + read
  /\ Raise("ReadTimeout")
  /\ UNCHANGED <<now, constants, waits>>

\* (mutant) The next try has the timeouts of the one before.
PauseEndsUncapped ==
  /\ phase = "pausing" /\ now = since + pause
  /\ Try
  /\ UNCHANGED <<now, constants, connect, read, left, budget, start>>

\* (mutant) With no budget left the adapter waits for more.
PauseEndsInBudget ==
  /\ phase = "pausing" /\ now = since + pause
  /\ BudgetLeft > 0
  /\ Try
  /\ connect' = Least(connect, BudgetLeft)
  /\ read' = Least(read, BudgetLeft)
  /\ UNCHANGED <<now, constants, left, budget, start>>

\* The next try, with what is left of the budget, if anything is.
PauseEnds ==
  /\ phase = "pausing" /\ now = since + pause
  /\ UNCHANGED <<now, constants>>
  /\ IF Least(read, BudgetLeft) = 0
     THEN Raise("ReadTimeout") /\ UNCHANGED waits
     ELSE /\ Try
          /\ connect' = Least(connect, BudgetLeft)
          /\ read' = Least(read, BudgetLeft)
          /\ UNCHANGED <<left, budget, start>>

\* Time passes: before a hop until the deadline (later makes no difference),
\* in a try until both timeouts are over, in a pause until its end.
Tick ==
  /\ \/ phase = "new" /\ deadline # NoDeadline /\ now < deadline
     \/ phase = "trying" /\ now < since + connect + read
     \/ phase = "pausing" /\ now < since + pause
  /\ now' = now + 1
  /\ UNCHANGED <<phase, hop, safe, constants, waits, result, records>>

-----------------------------------------------------------------------------
CallStep ==
  \/ Send
  \/ SendTooLate
  \/ SendRejected
  \/ TryResponds
  \/ TryAsksRetry
  \/ \E error \in {"connect", "read"} : TryFails(error)
  \/ TryTimesOut
  \/ PauseEnds

Next == CallStep \/ Tick

Spec == Init /\ [][Next]_vars

\* Sockets keep their timeouts, time.sleep ends, and the call goes on.
FairSpec == Spec /\ WF_vars(CallStep) /\ WF_vars(Tick)

-----------------------------------------------------------------------------
(* Properties.                                                             *)

\* No try of any hop begins when the deadline of the context is over, or the
\* budget of the hop, pauses and earlier tries counted; and none begins with
\* a timeout of zero, which sockets take for something else.
TriesInTime ==
  phase = "trying" =>
    /\ deadline # NoDeadline => since < deadline
    /\ since < start + budget
    /\ connect > 0 /\ read > 0

\* A hop overruns its budget, and the deadline, by no more than one time to
\* connect and one pause, however many retries there are.
HangBounded ==
  phase \in {"trying", "pausing"} =>
    LET overrun == given.connect + (IF phase = "pausing" THEN pause ELSE 0)
    IN  /\ now <= start + given.read + overrun
        /\ deadline # NoDeadline => now <= deadline + overrun

\* A call is tried no more often than its policy allows, and gives up on a
\* request that may be sent again only when it has been.
RetriesUsed ==
  /\ tries <= given.policy.total + 1
  /\ result = "RetryError" \/ (result = "ConnectionError" /\ safe)
       => tries = given.policy.total + 1

\* How often record_request was called with this.
Times(r) == Cardinality({i \in DOMAIN records : records[i] = r})

\* When the call is over each of its requests has been recorded, none twice as
\* answered or as failed; what was redirected is answered, and only the first
\* and the last request can be both, answered and then failed.  The first has
\* failed if and only if the caller gets an exception.
AllRecorded ==
  phase = "done" =>
    /\ \A h \in 1..hop - 1 : Times(Answered(h)) = 1
    /\ \A h \in 2..hop - 1 : Times(Failure(h)) = 0
    /\ Times(Answered(hop)) <= 1 /\ Times(Failure(hop)) <= 1
    /\ Times(Answered(hop)) + Times(Failure(hop)) >= 1
    /\ Times(Failure(1)) = IF result = "response" THEN 0 ELSE 1
    /\ result = "response" => Times(Failure(hop)) = 0

\* The call ends, whatever is retried and redirected.
CallEnds == <>(phase = "done")

=============================================================================
