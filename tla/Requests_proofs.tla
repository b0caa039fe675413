--------------------------- MODULE Requests_proofs ---------------------------
(***************************************************************************)
(* Proofs about the two parts of talisker/requests.py.  RequestsAdapter:   *)
(* that no try begins too late, how long a hop can take, and how often it  *)
(* is tried, for all timeouts, policies and deadlines.  Sessions: whose a  *)
(* session is, how long a thread keeps it, and under which name a call is  *)
(* counted, for any number of threads, contexts and forks.                 *)
(***************************************************************************)
EXTENDS RequestsAdapter, Sessions, SequenceTheorems, FiniteSetTheorems, TLAPS

USE AdapterAssumption

\* The timeouts of a hop, while it is tried, are within what the call was given
\* and the context's deadline.
WithinCall ==
  phase \in {"trying", "pausing"} =>
    /\ start <= since /\ since <= now
    /\ connect > 0 /\ connect <= given.connect /\ budget <= given.read
    /\ deadline # NoDeadline => start + budget <= deadline

\* A try waits at most for its two timeouts, and its read timeout for the rest
\* of the budget; a pause begins where a try can end.
WithinBudget ==
  /\ phase = "trying" =>
       /\ read > 0
       /\ since + read <= start + budget
       /\ now <= since + connect + read
  /\ phase = "pausing" =>
       /\ since <= start + budget + given.connect
       /\ now <= since + pause

\* Each try but the first has been paid for with a retry.
Counted ==
  /\ tries <= given.policy.total + 1
  /\ phase = "trying" => tries + left = given.policy.total + 1
  /\ phase = "pausing" => tries + left = given.policy.total
  /\ phase # "done" => result = "none"
  /\ RetriesUsed

IInv == TypeOK /\ WithinCall /\ WithinBudget /\ Counted

-----------------------------------------------------------------------------
(* What a call is given, and what becomes of it.                           *)

\* The timeouts and the policy of a call are numbers, and the timeouts are not
\* zero, whatever form the argument has.
LEMMA GivenFacts ==
  ASSUME given \in Parsed
  PROVE  /\ given.connect \in Nat \ {0} /\ given.read \in Nat \ {0}
         /\ given.policy.total \in Nat
<1>1. PICK c \in Timeouts \cup {ConnectTimeout}, t \in Timeouts \cup {ConnectTimeout, ReadTimeout} :
        given \in Given(c, t)
  BY DEF Parsed
<1>2. PICK p \in Policies \cup {NoRetry} :
        given = [connect |-> c, read |-> t, policy |-> p]
  BY <1>1 DEF Given
<1>3. p.total \in Nat
  <2>1. CASE p \in Policies
    BY <2>1 DEF Policies
  <2>2. CASE p = NoRetry
    BY <2>2 DEF NoRetry
  <2> QED
    BY <2>1, <2>2
<1> QED
  BY <1>2, <1>3

\* The deadline caps a timeout, without making it zero.
LEMMA CappedFacts ==
  ASSUME TypeOK, InTime, NEW t \in Nat \ {0}
  PROVE  /\ Capped(t) \in Nat \ {0} /\ Capped(t) <= t
         /\ deadline # NoDeadline => now + Capped(t) <= deadline
  BY DEF TypeOK, InTime, Capped, Least

\* The end of a hop or of the call keeps the types, ends no try and no pause
\* in another one, and if it ends the call it says how.
HopOver ==
  /\ phase' \in {"new", "done"}
  /\ hop' \in 1..MaxHops /\ safe' \in BOOLEAN
  /\ result' \in Exceptions \cup {"none", "response"}
  /\ phase' = "new" => result' = result
  /\ records' \in Seq(Records)

\* Failures are records.
LEMMA FailuresType ==
  ASSUME TypeOK
  PROVE  Failures \in Seq(Records)
<1>1. Failure(1) \in Records /\ Failure(hop) \in Records
  BY DEF TypeOK, Failure, Records
<1> QED
  BY <1>1 DEF Failures

\* An exception ends the call.
LEMMA RaiseFacts ==
  ASSUME TypeOK, NEW e \in Exceptions, Raise(e)
  PROVE  HopOver /\ phase' = "done" /\ result' = e
<1>1. Failures \in Seq(Records)
  BY FailuresType
<1>2. records' \in Seq(Records)
  BY <1>1, ConcatProperties DEF TypeOK, Raise
<1> QED
  BY <1>2 DEF TypeOK, Raise, HopOver

\* How a hop ends that was answered, but whose call gets an exception.
AnsweredInVain == {"ChunkedEncodingError", "TooManyRedirects", "InvalidURL"}

\* A response ends the call or begins the next hop.
LEMMA DeliverFacts ==
  ASSUME TypeOK, Deliver
  PROVE  HopOver /\ (phase' = "done" => result' \in AnsweredInVain \cup {"response"})
<1>1. Answered(hop) \in Records /\ Failure(1) \in Records
  BY DEF TypeOK, Answered, Failure, Records
<1>2. /\ Append(records, Answered(hop)) \in Seq(Records)
      /\ records \o <<Answered(hop), Failure(1)>> \in Seq(Records)
  BY <1>1, AppendProperties, ConcatProperties DEF TypeOK
<1>3. records \o (<<Answered(hop)>> \o Failures) \in Seq(Records)
  BY <1>1, FailuresType, ConcatProperties DEF TypeOK
<1>4. records' \in Seq(Records)
  BY <1>2, <1>3 DEF Deliver
<1>5. safe' \in BOOLEAN
  BY Zenon DEF TypeOK, Deliver
<1>6. hop' \in 1..MaxHops
  <2>1. hop' = hop \/ (hop < MaxHops /\ hop' = hop + 1)
    BY DEF Deliver
  <2> QED
    BY <2>1 DEF TypeOK
<1>7. /\ phase' \in {"new", "done"}
      /\ phase' = "new" => result' = result
      /\ phase' = "done" => result' \in AnsweredInVain \cup {"response"}
  BY DEF Deliver, AnsweredInVain
<1>8. result' \in Exceptions \cup {"none", "response"}
  BY <1>7 DEF TypeOK, Exceptions, AnsweredInVain
<1> QED
  BY <1>4, <1>5, <1>6, <1>7, <1>8 DEF HopOver

\* What ends a hop and changes nothing else keeps the invariant, if an
\* exception that speaks of used retries is true.
LEMMA HopOverStep ==
  ASSUME IInv, phase # "done", HopOver, UNCHANGED <<now, constants, waits>>, RetriesUsed'
  PROVE  IInv'
<1>1. TypeOK'
  BY DEF IInv, TypeOK, HopOver, constants, waits
<1>2. WithinCall' /\ WithinBudget'
  BY DEF HopOver, WithinCall, WithinBudget
<1>3. Counted'
  BY DEF IInv, Counted, HopOver, constants, waits
<1> QED
  BY <1>1, <1>2, <1>3 DEF IInv

\* A retry, if there is one left, keeps the invariant.
LEMMA RetryStep ==
  ASSUME IInv, phase = "trying", left > 0, Retry, UNCHANGED <<now, constants>>
  PROVE  IInv'
<1> given \in Parsed
  BY DEF IInv, TypeOK
<1>1. TypeOK'
  BY DEF IInv, TypeOK, Retry, constants
<1>2. given.connect \in Nat /\ given.policy.total \in Nat /\ given' = given
  BY GivenFacts DEF constants
<1>3. WithinCall'
  BY <1>2 DEF IInv, TypeOK, Retry, constants, WithinCall
<1>4. WithinBudget'
  <2>1. since' = now /\ phase' = "pausing" /\ pause' \in Nat /\ now' = now
    BY DEF Retry
  <2>2. now <= start + budget + given.connect
    BY <1>2 DEF IInv, TypeOK, WithinCall, WithinBudget
  <2>3. now' <= since' + pause'
    <3>1. now \in Nat /\ pause' \in Nat
      BY <2>1 DEF IInv, TypeOK
    <3>2. \A m, n \in Nat : m <= m + n
      OBVIOUS
    <3> QED
      BY <2>1, <3>1, <3>2
  <2>4. since' <= start' + budget' + given'.connect
    BY <1>2, <2>1, <2>2 DEF Retry
  <2> QED
    BY <2>1, <2>3, <2>4 DEF WithinBudget
<1>5. Counted'
  BY <1>2 DEF IInv, TypeOK, Retry, constants, Counted, RetriesUsed
<1> QED
  BY <1>1, <1>3, <1>4, <1>5 DEF IInv

\* An exception keeps the invariant, if it is true when it speaks of used retries.
LEMMA RaiseStep ==
  ASSUME IInv, phase # "done", NEW e \in Exceptions, Raise(e),
         UNCHANGED <<now, constants, waits>>,
         e = "RetryError" \/ (e = "ConnectionError" /\ safe) => tries = given.policy.total + 1
  PROVE  IInv'
<1>1. HopOver /\ result' = e /\ safe' = safe
  BY RaiseFacts DEF IInv, Raise
<1>2. RetriesUsed'
  BY <1>1 DEF IInv, Counted, RetriesUsed, constants, waits
<1> QED
  BY <1>1, <1>2, HopOverStep

\* So does a response.
LEMMA DeliverStep ==
  ASSUME IInv, phase # "done", Deliver, UNCHANGED <<now, constants, waits>>
  PROVE  IInv'
<1>1. HopOver /\ result' \in AnsweredInVain \cup {"none", "response"}
  BY DeliverFacts DEF IInv, Counted, HopOver
<1>2. RetriesUsed'
  BY <1>1 DEF IInv, Counted, RetriesUsed, constants, waits, AnsweredInVain
<1> QED
  BY <1>1, <1>2, HopOverStep

-----------------------------------------------------------------------------
(* The invariant.                                                          *)

\* It holds before the first hop.
LEMMA Initial == Init => IInv
  BY GivenFacts DEF Init, IInv, TypeOK, WithinCall, WithinBudget, Counted, RetriesUsed

\* The first try of a hop has the timeouts of the call, capped by the deadline.
LEMMA SendStep == ASSUME IInv, Send PROVE IInv'
<1> given \in Parsed
  BY DEF IInv, TypeOK
<1>1. /\ connect' \in Nat \ {0} /\ connect' <= given.connect
      /\ read' \in Nat \ {0} /\ read' <= given.read /\ budget' = read'
      /\ deadline # NoDeadline => now + read' <= deadline
  BY GivenFacts, CappedFacts DEF IInv, Send
<1>2. left' = given.policy.total /\ left' \in Nat
  BY GivenFacts DEF Send
<1>3. TypeOK'
  BY <1>1, <1>2 DEF IInv, TypeOK, Send, constants
<1>4. WithinCall' /\ WithinBudget'
  BY <1>1 DEF IInv, TypeOK, Send, constants, WithinCall, WithinBudget
<1>5. Counted'
  BY <1>2 DEF IInv, TypeOK, Send, constants, Counted, RetriesUsed
<1> QED
  BY <1>3, <1>4, <1>5 DEF IInv

\* The next try has what is left of the budget.
LEMMA PauseEndsStep == ASSUME IInv, PauseEnds PROVE IInv'
<1> given \in Parsed
  BY DEF IInv, TypeOK
<1>1. CASE Least(read, BudgetLeft) = 0
  <2>1. phase # "done" /\ Raise("ReadTimeout") /\ UNCHANGED <<now, constants, waits>>
    BY <1>1 DEF PauseEnds
  <2> QED
    BY <2>1, RaiseStep DEF Exceptions
<1>2. CASE Least(read, BudgetLeft) # 0
  <2>1. /\ phase = "pausing" /\ Try /\ UNCHANGED <<now, constants, left, budget, start>>
        /\ connect' = Least(connect, BudgetLeft) /\ read' = Least(read, BudgetLeft)
    BY <1>2 DEF PauseEnds
  <2>2. /\ read' \in Nat \ {0} /\ now + read' <= start + budget
        /\ connect' \in Nat \ {0} /\ connect' <= given.connect
    BY <1>2, <2>1, GivenFacts DEF IInv, TypeOK, WithinCall, Least, BudgetLeft
  <2>3. TypeOK'
    BY <2>1, <2>2 DEF IInv, TypeOK, Try, constants
  <2>4. WithinCall' /\ WithinBudget'
    BY <2>1, <2>2 DEF IInv, TypeOK, Try, constants, WithinCall, WithinBudget
  <2>5. Counted'
    BY <2>1, GivenFacts DEF IInv, TypeOK, Try, constants, Counted, RetriesUsed
  <2> QED
    BY <2>3, <2>4, <2>5 DEF IInv
<1> QED
  BY <1>1, <1>2

\* Time passes only within the bounds of a try or a pause.
LEMMA TickStep == ASSUME IInv, Tick PROVE IInv'
<1>1. TypeOK'
  BY DEF IInv, TypeOK, Tick, constants, waits
<1>2. WithinCall' /\ WithinBudget'
  BY DEF IInv, TypeOK, Tick, constants, waits, WithinCall, WithinBudget
<1>3. Counted'
  BY DEF IInv, Tick, constants, waits, Counted, RetriesUsed
<1> QED
  BY <1>1, <1>2, <1>3 DEF IInv

\* Every step keeps it.
LEMMA Step == ASSUME IInv, [Next]_vars PROVE IInv'
<1> given \in Parsed
  BY DEF IInv, TypeOK
<1>1. CASE Send
  BY <1>1, SendStep
<1>2. CASE SendTooLate
  BY <1>2, RaiseStep DEF SendTooLate, Exceptions
<1>3. CASE SendRejected
  BY <1>3, RaiseStep DEF SendRejected, Exceptions
<1>4. CASE TryResponds
  BY <1>4, DeliverStep DEF TryResponds
<1>5. CASE TryAsksRetry
  <2>1. CASE left > 0
    BY <1>5, <2>1, RetryStep DEF TryAsksRetry
  <2>2. CASE ~(left > 0) /\ given.policy.raises
    <3>1. tries = given.policy.total + 1
      BY <1>5, <2>2, GivenFacts DEF TryAsksRetry, IInv, TypeOK, Counted
    <3>2. phase # "done" /\ Raise("RetryError") /\ UNCHANGED <<now, constants, waits>>
      BY <1>5, <2>2 DEF TryAsksRetry
    <3> QED
      BY <3>1, <3>2, RaiseStep DEF Exceptions
  <2>3. CASE ~(left > 0) /\ ~given.policy.raises
    BY <1>5, <2>3, DeliverStep DEF TryAsksRetry
  <2> QED
    BY <2>1, <2>2, <2>3
<1>6. ASSUME NEW error \in {"connect", "read"}, TryFails(error) PROVE IInv'
  <2>1. CASE left > 0 /\ (error = "connect" \/ safe)
    BY <1>6, <2>1, RetryStep DEF TryFails
  <2>2. CASE ~(left > 0 /\ (error = "connect" \/ safe))
    <3>1. safe => tries = given.policy.total + 1
      BY <1>6, <2>2, GivenFacts DEF TryFails, IInv, TypeOK, Counted
    <3>2. phase # "done" /\ Raise("ConnectionError") /\ UNCHANGED <<now, constants, waits>>
      BY <1>6, <2>2 DEF TryFails
    <3> QED
      BY <3>1, <3>2, RaiseStep DEF Exceptions
  <2> QED
    BY <2>1, <2>2
<1>7. CASE TryTimesOut
  BY <1>7, RaiseStep DEF TryTimesOut, Exceptions
<1>8. CASE PauseEnds
  BY <1>8, PauseEndsStep
<1>9. CASE Tick
  BY <1>9, TickStep
<1>10. CASE UNCHANGED vars
  BY <1>10
     DEF vars, constants, waits, IInv, TypeOK, WithinCall, WithinBudget, Counted, RetriesUsed
<1> QED
  BY <1>1, <1>2, <1>3, <1>4, <1>5, <1>6, <1>7, <1>8, <1>9, <1>10 DEF Next, CallStep

\* The invariant in each state.
LEMMA Invariance == Spec => []IInv
<1>1. Init => IInv
  BY Initial
<1>2. IInv /\ [Next]_vars => IInv'
  BY Step
<1> QED
  BY <1>1, <1>2, PTL DEF Spec

-----------------------------------------------------------------------------
(* The theorems.                                                           *)

\* Type correctness: in particular the deadline never makes a timeout negative.
THEOREM TypeCorrect == Spec => []TypeOK
<1>1. IInv => TypeOK
  BY DEF IInv
<1> QED
  BY <1>1, Invariance, PTL

\* No try begins after the deadline of the context, or with no time to wait.
THEOREM NoLateTry == Spec => []TriesInTime
<1>1. ASSUME IInv PROVE TriesInTime
  <2>1. SUFFICES ASSUME phase = "trying"
                 PROVE  /\ deadline # NoDeadline => since < deadline
                        /\ since < start + budget
                        /\ connect > 0 /\ read > 0
    BY DEF TriesInTime
  <2>2. /\ since \in Nat /\ start \in Nat /\ budget \in Nat /\ read \in Nat
        /\ deadline # NoDeadline => deadline \in Nat
    BY <1>1 DEF IInv, TypeOK
  <2>3. connect > 0 /\ read > 0 /\ since + read <= start + budget
    BY <1>1, <2>1 DEF IInv, WithinCall, WithinBudget
  <2>4. deadline # NoDeadline => start + budget <= deadline
    BY <1>1, <2>1 DEF IInv, WithinCall
  <2> QED
    BY <2>2, <2>3, <2>4
<1> QED
  BY <1>1, Invariance, PTL

\* Whatever the policy, a hop overruns budget and deadline by one time to
\* connect and one pause at most.
THEOREM OverrunBounded == Spec => []HangBounded
<1>1. ASSUME IInv PROVE HangBounded
  <2>1. given \in Parsed
    BY <1>1 DEF IInv, TypeOK
  <2>2. given.connect \in Nat /\ given.read \in Nat
    BY <2>1, GivenFacts
  <2>3. CASE phase = "trying"
    <3>1. now <= start + budget + connect
      BY <1>1, <2>2, <2>3 DEF IInv, TypeOK, WithinCall, WithinBudget
    <3> QED
      BY <1>1, <2>2, <2>3, <3>1 DEF IInv, TypeOK, WithinCall, HangBounded
  <2>4. CASE phase = "pausing"
    <3>1. now <= start + budget + given.connect + pause
      BY <1>1, <2>2, <2>4 DEF IInv, TypeOK, WithinCall, WithinBudget
    <3>2. budget <= given.read /\ (deadline # NoDeadline => start + budget <= deadline)
      BY <1>1, <2>4 DEF IInv, WithinCall
    <3>3. /\ now \in Nat /\ start \in Nat /\ budget \in Nat /\ pause \in Nat
          /\ deadline # NoDeadline => deadline \in Nat
      BY <1>1 DEF IInv, TypeOK
    <3> QED
      BY <2>2, <2>4, <3>1, <3>2, <3>3 DEF HangBounded
  <2> QED
    BY <2>3, <2>4 DEF HangBounded
<1> QED
  BY <1>1, Invariance, PTL

\* A call is tried as often as its policy says when it gives up, and never more.
THEOREM RetriesCounted == Spec => []RetriesUsed
<1>1. IInv => RetriesUsed
  BY DEF IInv, Counted
<1> QED
  BY <1>1, Invariance, PTL

-----------------------------------------------------------------------------
(* What is recorded.                                                       *)

\* Before a hop is over the hops before it have been recorded, in their order.
AnswersRecorded ==
  /\ records \in Seq(Records)
  /\ Len(records) = hop - 1
  /\ \A i \in 1..hop - 1 : records[i] = Answered(i)

RecordInv == IF phase = "done" THEN AllRecorded ELSE AnswersRecorded

\* How the records of a call end.
Ending ==
  \/ /\ result = "response" /\ Len(records) = hop
     /\ records[hop] = Answered(hop)
  \/ /\ result # "response" /\ Len(records) = hop
     /\ hop = 1 /\ records[hop] = Failure(1)
  \/ /\ result # "response" /\ Len(records) = hop + 1
     /\ records[hop] \in {Answered(hop), Failure(hop)}
     /\ records[hop + 1] = Failure(1)
     /\ hop = 1 => records[hop] = Answered(hop)
  \/ /\ result # "response" /\ Len(records) = hop + 2
     /\ hop # 1 /\ records[hop] = Answered(hop)
     /\ records[hop + 1] = Failure(hop) /\ records[hop + 2] = Failure(1)

\* When the call is over the hops before the last have been answered.
Covered ==
  /\ hop \in Nat \ {0} /\ records \in Seq(Records)
  /\ \A i \in 1..hop - 1 : records[i] = Answered(i)
  /\ Ending

\* A record is there once, or not at all.
LEMMA CountOnce ==
  ASSUME records \in Seq(Records), NEW r
  PROVE  /\ \A i \in 1..Len(records) :
              (\A j \in 1..Len(records) : records[j] = r <=> j = i) => Times(r) = 1
         /\ (\A j \in 1..Len(records) : records[j] # r) => Times(r) = 0
<1>1. DOMAIN records = 1..Len(records)
  OBVIOUS
<1>2. ASSUME NEW i \in 1..Len(records), \A j \in 1..Len(records) : records[j] = r <=> j = i
      PROVE  Times(r) = 1
  <2>1. {j \in DOMAIN records : records[j] = r} = {i}
    BY <1>1, <1>2
  <2> QED
    BY <2>1, FS_Singleton DEF Times
<1>3. ASSUME \A j \in 1..Len(records) : records[j] # r PROVE Times(r) = 0
  <2>1. {j \in DOMAIN records : records[j] = r} = {}
    BY <1>1, <1>3
  <2> QED
    BY <2>1, FS_EmptySet DEF Times
<1> QED
  BY <1>2, <1>3

\* What the records of a hop differ by.
LEMMA Different ==
  \A g, h : /\ Answered(g) # Failure(h)
            /\ (Answered(g) = Answered(h) <=> g = h)
            /\ (Failure(g) = Failure(h) <=> g = h)
  BY DEF Answered, Failure

\* How often each record is there when the call is over.
LEMMA CoveredTimes ==
  ASSUME Covered
  PROVE  /\ \A h \in 1..hop - 1 : Times(Answered(h)) = 1
         /\ \A h \in 2..hop - 1 : Times(Failure(h)) = 0
         /\ Times(Answered(hop)) = IF records[hop] = Answered(hop) THEN 1 ELSE 0
         /\ Times(Failure(1)) = IF result = "response" THEN 0 ELSE 1
         /\ hop # 1 =>
              Times(Failure(hop)) =
                IF records[hop] = Failure(hop) \/ Len(records) = hop + 2 THEN 1 ELSE 0
<1> DEFINE Final == {i \in Nat : i >= hop /\ i <= Len(records)}
<1>1. hop \in Nat \ {0} /\ Len(records) \in Nat /\ Len(records) >= hop
  BY DEF Covered, Ending
<1>2. \A i \in 1..hop - 1 : records[i] = Answered(i)
  BY DEF Covered
<1>3. /\ records[hop] \in {Answered(hop), Failure(hop), Failure(1)}
      /\ Len(records) >= hop + 1 => records[hop + 1] \in {Failure(hop), Failure(1)}
      /\ Len(records) >= hop + 2 => records[hop + 2] = Failure(1)
      /\ Len(records) <= hop + 2
  <2>1. \/ Len(records) = hop /\ records[hop] \in {Answered(hop), Failure(1)}
        \/ /\ Len(records) = hop + 1 /\ records[hop] \in {Answered(hop), Failure(hop)}
           /\ records[hop + 1] = Failure(1)
        \/ /\ Len(records) = hop + 2 /\ records[hop] = Answered(hop)
           /\ records[hop + 1] = Failure(hop) /\ records[hop + 2] = Failure(1)
    BY DEF Covered, Ending
  <2>2. Len(records) <= hop + 2
    BY <1>1, <2>1
  <2>3. records[hop] \in {Answered(hop), Failure(hop), Failure(1)}
    BY <2>1
  <2>4. Len(records) >= hop + 1 => records[hop + 1] \in {Failure(hop), Failure(1)}
    BY <1>1, <2>1
  <2>5. Len(records) >= hop + 2 => records[hop + 2] = Failure(1)
    BY <1>1, <2>1
  <2> QED
    BY <2>2, <2>3, <2>4, <2>5
<1>4. \A i \in Final :
        /\ i \in {hop, hop + 1, hop + 2}
        /\ records[i] \in {Answered(hop), Failure(hop), Failure(1)}
        /\ i # hop => records[i] \in {Failure(hop), Failure(1)}
  BY <1>1, <1>3
<1>5. \A i \in 1..Len(records) : i \in 1..hop - 1 \/ i \in Final
  BY <1>1
<1> HIDE DEF Final
<1>6. ASSUME NEW h \in 1..hop - 1 PROVE Times(Answered(h)) = 1
  <2>1. ASSUME NEW i \in 1..Len(records) PROVE records[i] = Answered(h) <=> i = h
    <3>1. CASE i \in 1..hop - 1
      BY <1>2, <3>1, Different
    <3>2. CASE i \in Final
      <4>1. i # h /\ hop # h
        BY <1>1, <1>4, <3>2
      <4> QED
        BY <1>4, <3>2, <4>1, Different
    <3> QED
      BY <1>5, <3>1, <3>2
  <2>2. h \in 1..Len(records)
    BY <1>1
  <2> QED
    BY <2>1, <2>2, CountOnce DEF Covered
<1>7. ASSUME NEW h \in 2..hop - 1 PROVE Times(Failure(h)) = 0
  <2>1. h # hop /\ h # 1
    BY <1>1
  <2>2. \A i \in 1..Len(records) : records[i] # Failure(h)
    BY <1>2, <1>4, <1>5, <2>1, Different
  <2> QED
    BY <2>2, CountOnce DEF Covered
<1>8. Times(Answered(hop)) = IF records[hop] = Answered(hop) THEN 1 ELSE 0
  <2>1. ASSUME NEW i \in 1..Len(records), i # hop PROVE records[i] # Answered(hop)
    <3>1. CASE i \in 1..hop - 1
      BY <1>2, <2>1, <3>1, Different
    <3>2. CASE i \in Final
      BY <1>4, <2>1, <3>2, Different
    <3> QED
      BY <1>5, <3>1, <3>2
  <2>2. hop \in 1..Len(records)
    BY <1>1
  <2> QED
    BY <2>1, <2>2, CountOnce DEF Covered
<1>9. Times(Failure(1)) = IF result = "response" THEN 0 ELSE 1
  <2>1. CASE result = "response"
    <3>1. \A i \in 1..Len(records) : records[i] # Failure(1)
      BY <1>1, <1>2, <2>1, Different DEF Covered, Ending
    <3> QED
      BY <2>1, <3>1, CountOnce DEF Covered
  <2>2. CASE result # "response"
    <3>1. /\ Len(records) \in 1..Len(records)
          /\ \A i \in 1..Len(records) : records[i] = Failure(1) <=> i = Len(records)
      <4>1. /\ Len(records) \in 1..Len(records) /\ records[Len(records)] = Failure(1)
            /\ \A i \in Final : i # Len(records) => records[i] # Failure(1)
        <5>1. Len(records) \in 1..Len(records) /\ records[Len(records)] = Failure(1)
          BY <1>1, <2>2 DEF Covered, Ending
        <5>2. /\ records[hop] = Failure(1) => Len(records) = hop
              /\ records[hop + 1] = Failure(1) /\ Len(records) >= hop + 1 => Len(records) = hop + 1
          BY <1>1, <2>2, Different DEF Covered, Ending
        <5>3. ASSUME NEW i \in Final, i # Len(records) PROVE records[i] # Failure(1)
          BY <1>1, <1>3, <1>4, <5>2, <5>3 DEF Final
        <5> QED
          BY <5>1, <5>3
      <4> QED
        BY <1>1, <1>2, <1>5, <4>1, Different
    <3> QED
      BY <2>2, <3>1, CountOnce DEF Covered
  <2> QED
    BY <2>1, <2>2
<1>10. ASSUME hop # 1
       PROVE  Times(Failure(hop)) =
                IF records[hop] = Failure(hop) \/ Len(records) = hop + 2 THEN 1 ELSE 0
  <2>1. CASE records[hop] = Failure(hop)
    <3>1. /\ hop \in 1..Len(records)
          /\ \A i \in 1..Len(records) : records[i] = Failure(hop) <=> i = hop
      <4>1. \A i \in Final : i # hop => records[i] # Failure(hop)
        <5>1. /\ Len(records) <= hop + 1
              /\ Len(records) = hop + 1 => records[hop + 1] # Failure(hop)
          BY <1>1, <1>10, <2>1, Different DEF Covered, Ending
        <5> QED
          BY <1>1, <1>4, <5>1 DEF Final
      <4> QED
        BY <1>1, <1>2, <1>5, <2>1, <4>1, Different
    <3> QED
      BY <2>1, <3>1, CountOnce DEF Covered
  <2>2. CASE Len(records) = hop + 2
    <3>1. /\ hop + 1 \in 1..Len(records)
          /\ \A i \in 1..Len(records) : records[i] = Failure(hop) <=> i = hop + 1
      BY <1>1, <1>2, <1>5, <1>10, <2>2, Different DEF Covered, Ending
    <3> QED
      BY <2>2, <3>1, CountOnce DEF Covered
  <2>3. CASE records[hop] # Failure(hop) /\ Len(records) # hop + 2
    <3>1. \A i \in 1..Len(records) : records[i] # Failure(hop)
      <4>1. \A i \in Final : records[i] # Failure(hop)
        <5>1. /\ Len(records) <= hop + 1
              /\ Len(records) = hop + 1 => records[hop + 1] # Failure(hop)
          BY <1>1, <1>10, <2>3, Different DEF Covered, Ending
        <5> QED
          BY <1>1, <1>4, <2>3, <5>1 DEF Final
      <4> QED
        BY <1>1, <1>2, <1>5, <4>1, Different
    <3> QED
      BY <2>3, <3>1, CountOnce DEF Covered
  <2> QED
    BY <2>1, <2>2, <2>3
<1> QED
  BY <1>6, <1>7, <1>8, <1>9, <1>10

\* What is covered, as AllRecorded says it.
LEMMA CoveredFacts == Covered => AllRecorded
<1> SUFFICES ASSUME Covered PROVE AllRecorded
  OBVIOUS
<1>1. /\ Times(Answered(hop)) <= 1 /\ Times(Failure(hop)) <= 1
      /\ Times(Answered(hop)) + Times(Failure(hop)) >= 1
      /\ result = "response" => Times(Failure(hop)) = 0
  <2>1. CASE hop = 1
    BY <2>1, CoveredTimes, Different DEF Covered, Ending
  <2>2. CASE hop # 1
    <3>1. records[hop] \in {Answered(hop), Failure(hop)} /\ Answered(hop) # Failure(hop)
      BY <2>2, Different DEF Covered, Ending
    <3>2. result = "response" => records[hop] = Answered(hop) /\ Len(records) = hop
      BY DEF Covered, Ending
    <3>3. hop \in Nat
      BY DEF Covered
    <3> QED
      BY <2>2, <3>1, <3>2, <3>3, CoveredTimes
  <2> QED
    BY <2>1, <2>2
<1> QED
  BY <1>1, CoveredTimes DEF AllRecorded

\* One record more.
LEMMA OneMore ==
  ASSUME NEW R, NEW s \in Seq(R), NEW a \in R, NEW h \in Nat \ {0}, Len(s) = h - 1
  PROVE  /\ s \o <<a>> \in Seq(R) /\ Append(s, a) = s \o <<a>>
         /\ Len(s \o <<a>>) = h
         /\ \A i \in 1..h - 1 : (s \o <<a>>)[i] = s[i]
         /\ (s \o <<a>>)[h] = a
  OBVIOUS

\* Sequences written out, one after the other.
LEMMA Joined ==
  ASSUME NEW a, NEW b, NEW c
  PROVE  <<a>> \o <<b>> = <<a, b>> /\ <<a>> \o <<b, c>> = <<a, b, c>>
<1> DEFINE R == {a, b, c}
<1>1. <<a>> \in Seq(R) /\ <<b>> \in Seq(R) /\ <<b, c>> \in Seq(R) /\ <<a, b>> \in Seq(R) /\ <<a, b, c>> \in Seq(R)
  OBVIOUS
<1> HIDE DEF R
<1>2. <<a>> \o <<b>> = <<a, b>>
  <2>1. Len(<<a>> \o <<b>>) = 2 /\ (<<a>> \o <<b>>)[1] = a /\ (<<a>> \o <<b>>)[2] = b /\ <<a>> \o <<b>> \in Seq(R)
    BY <1>1, ConcatProperties
  <2>2. Len(<<a, b>>) = 2 /\ <<a, b>>[1] = a /\ <<a, b>>[2] = b
    OBVIOUS
  <2>3. \A i \in 1..Len(<<a>> \o <<b>>) : (<<a>> \o <<b>>)[i] = <<a, b>>[i]
    BY <2>1, <2>2
  <2> QED
    BY <1>1, <2>1, <2>2, <2>3, SeqEqual
<1>3. <<a>> \o <<b, c>> = <<a, b, c>>
  <2>1. /\ Len(<<a>> \o <<b, c>>) = 3 /\ (<<a>> \o <<b, c>>)[1] = a
        /\ (<<a>> \o <<b, c>>)[2] = b /\ (<<a>> \o <<b, c>>)[3] = c
        /\ <<a>> \o <<b, c>> \in Seq(R)
    BY <1>1, ConcatProperties
  <2>2. Len(<<a, b, c>>) = 3 /\ <<a, b, c>>[1] = a /\ <<a, b, c>>[2] = b /\ <<a, b, c>>[3] = c
    OBVIOUS
  <2>3. \A i \in 1..Len(<<a>> \o <<b, c>>) : (<<a>> \o <<b, c>>)[i] = <<a, b, c>>[i]
    BY <2>1, <2>2
  <2> QED
    BY <1>1, <2>1, <2>2, <2>3, SeqEqual
<1> QED
  BY <1>2, <1>3

\* An answer and a failure are records.
LEMMA RecordTypes ==
  ASSUME NEW h \in 1..MaxHops
  PROVE  Answered(h) \in Records /\ Failure(h) \in Records
  BY DEF Answered, Failure, Records

\* One, two or three records end a call as Ending says.
LEMMA EndRecorded ==
  ASSUME TypeOK, AnswersRecorded, NEW s \in Seq(Records), records' = records \o s,
         phase' = "done", hop' = hop,
         \/ /\ result' = "response" /\ s = <<Answered(hop)>>
         \/ /\ result' # "response"
            /\ s \in {Failures, <<Answered(hop), Failure(1)>>, <<Answered(hop)>> \o Failures}
  PROVE  RecordInv'
<1>1. hop \in Nat \ {0} /\ Answered(hop) \in Records /\ Failure(1) \in Records /\ Failure(hop) \in Records
  <2>1. hop \in 1..MaxHops /\ 1 \in 1..MaxHops
    BY DEF TypeOK
  <2> QED
    BY <2>1, RecordTypes
<1>2. /\ records' \in Seq(Records) /\ Len(records') = hop - 1 + Len(s)
      /\ \A i \in 1..hop - 1 : records'[i] = records[i]
      /\ \A i \in 1..Len(s) : records'[hop - 1 + i] = s[i]
  <2>1. records \in Seq(Records) /\ Len(records) = hop - 1
    BY DEF AnswersRecorded
  <2>2. /\ Len(records \o s) = Len(records) + Len(s)
        /\ \A i \in 1..Len(records) + Len(s) :
             (records \o s)[i] = IF i <= Len(records) THEN records[i] ELSE s[i - Len(records)]
    BY <2>1, ConcatProperties
  <2>3. records' \in Seq(Records) /\ Len(s) \in Nat
    BY <2>1, ConcatProperties
  <2>4. ASSUME NEW i \in 1..Len(s) PROVE records'[hop - 1 + i] = s[i]
    <3>1. hop - 1 + i \in 1..Len(records) + Len(s) /\ ~(hop - 1 + i <= Len(records))
      BY <1>1, <2>1, <2>3
    <3>2. (hop - 1 + i) - Len(records) = i
      BY <1>1, <2>1
    <3> QED
      BY <2>2, <3>1, <3>2
  <2>5. \A i \in 1..hop - 1 : records'[i] = records[i]
    BY <1>1, <2>1, <2>2, <2>3
  <2>6. Len(records') = hop - 1 + Len(s)
    BY <2>1, <2>2
  <2> QED
    BY <2>3, <2>4, <2>5, <2>6
<1>3. \A i \in 1..hop - 1 : records'[i] = Answered(i)
  BY <1>2 DEF AnswersRecorded
<1>4. Ending'
  <2>1. CASE result' = "response" /\ s = <<Answered(hop)>>
    BY <1>1, <1>2, <2>1 DEF Ending
  <2>2. CASE result' # "response" /\ s = <<Answered(hop), Failure(1)>>
    <3>1. Len(s) = 2 /\ s[1] = Answered(hop) /\ s[2] = Failure(1)
      BY <2>2
    <3>2. Len(records') = hop + 1 /\ records'[hop] = Answered(hop) /\ records'[hop + 1] = Failure(1)
      BY <1>1, <1>2, <3>1
    <3> QED
      BY <2>2, <3>2 DEF Ending
  <2>3. CASE result' # "response" /\ s = Failures
    <3>1. CASE hop = 1
      BY <1>1, <1>2, <2>3, <3>1 DEF Ending, Failures
    <3>2. CASE hop # 1
      <4>1. Len(s) = 2 /\ s[1] = Failure(hop) /\ s[2] = Failure(1)
        BY <2>3, <3>2 DEF Failures
      <4>2. Len(records') = hop + 1 /\ records'[hop] = Failure(hop) /\ records'[hop + 1] = Failure(1)
        BY <1>1, <1>2, <4>1
      <4> QED
        BY <2>3, <3>2, <4>2 DEF Ending
    <3> QED
      BY <3>1, <3>2
  <2>4. CASE result' # "response" /\ s = <<Answered(hop)>> \o Failures
    <3>1. CASE hop = 1
      <4>1. Failures = <<Failure(1)>>
        BY <3>1 DEF Failures
      <4>2. s = <<Answered(hop), Failure(1)>>
        <5>1. <<Answered(hop)>> \o <<Failure(1)>> = <<Answered(hop), Failure(1)>>
          BY Joined
        <5> QED
          BY <2>4, <4>1, <5>1
      <4> QED
        BY <2>2, <2>4, <4>2
    <3>2. CASE hop # 1
      <4>1. s = <<Answered(hop), Failure(hop), Failure(1)>>
        <5>1. Failures = <<Failure(hop), Failure(1)>>
          BY <3>2 DEF Failures
        <5>2. <<Answered(hop)>> \o <<Failure(hop), Failure(1)>> = <<Answered(hop), Failure(hop), Failure(1)>>
          BY Joined
        <5> QED
          BY <2>4, <5>1, <5>2
      <4>2. Len(s) = 3 /\ s[1] = Answered(hop) /\ s[2] = Failure(hop) /\ s[3] = Failure(1)
        BY <4>1
      <4>3. /\ Len(records') = hop + 2 /\ records'[hop] = Answered(hop)
            /\ records'[hop + 1] = Failure(hop) /\ records'[hop + 2] = Failure(1)
        BY <1>1, <1>2, <4>2
      <4> QED
        BY <2>4, <3>2, <4>3 DEF Ending
    <3> QED
      BY <3>1, <3>2
  <2> QED
    BY <2>1, <2>2, <2>3, <2>4
<1>5. Covered'
  BY <1>1, <1>2, <1>3, <1>4 DEF Covered
<1>6. AllRecorded'
  BY <1>5, CoveredFacts, PTL
<1> QED
  BY <1>6 DEF RecordInv

\* An attempt that raises is recorded.
LEMMA RaiseRecorded ==
  ASSUME TypeOK, AnswersRecorded, NEW e \in Exceptions, Raise(e)
  PROVE  RecordInv'
<1>1. result' # "response"
  BY DEF Raise, Exceptions
<1>2. Failures \in Seq(Records)
  BY FailuresType
<1> QED
  BY <1>1, <1>2, EndRecorded DEF Raise

\* A response that is delivered is recorded, and what becomes of it.
LEMMA DeliverRecorded ==
  ASSUME TypeOK, AnswersRecorded, Deliver
  PROVE  RecordInv'
<1>1. hop \in Nat \ {0} /\ Answered(hop) \in Records /\ Failure(1) \in Records
  <2>1. hop \in 1..MaxHops /\ 1 \in 1..MaxHops
    BY DEF TypeOK
  <2> QED
    BY <2>1, RecordTypes
<1>2. Append(records, Answered(hop)) = records \o <<Answered(hop)>>
  BY <1>1, OneMore DEF AnswersRecorded
<1>3. <<Answered(hop)>> \in Seq(Records)
  BY <1>1
<1>4. CASE /\ records' = Append(records, Answered(hop))
           /\ phase' = "done" /\ hop' = hop /\ result' = "response"
  BY <1>2, <1>3, <1>4, EndRecorded
<1>5. CASE /\ records' = records \o (<<Answered(hop)>> \o Failures)
           /\ phase' = "done" /\ hop' = hop /\ result' # "response"
  <2>1. <<Answered(hop)>> \o Failures \in Seq(Records)
    BY <1>3, FailuresType, ConcatProperties
  <2> QED
    BY <1>5, <2>1, EndRecorded
<1>6. CASE /\ records' = records \o <<Answered(hop), Failure(1)>>
           /\ phase' = "done" /\ hop' = hop /\ result' # "response"
  <2>1. <<Answered(hop), Failure(1)>> \in Seq(Records)
    BY <1>1
  <2> QED
    BY <1>6, <2>1, EndRecorded
<1>7. CASE /\ records' = Append(records, Answered(hop))
           /\ phase' = "new" /\ hop' = hop + 1
  <2>1. /\ records' \in Seq(Records) /\ Len(records') = hop
        /\ \A i \in 1..hop - 1 : records'[i] = records[i]
        /\ records'[hop] = Answered(hop)
    BY <1>1, <1>2, <1>7, OneMore DEF AnswersRecorded
  <2>2. \A i \in 1..hop : records'[i] = Answered(i)
    BY <1>1, <2>1 DEF AnswersRecorded
  <2>3. hop' - 1 = hop /\ phase' # "done"
    BY <1>1, <1>7
  <2> QED
    BY <2>1, <2>2, <2>3 DEF RecordInv, AnswersRecorded
<1> QED
  BY <1>4, <1>5, <1>6, <1>7 DEF Deliver

\* The records after each step.
LEMMA RecordStep == IInv /\ RecordInv /\ [Next]_vars => RecordInv'
<1> SUFFICES ASSUME IInv, RecordInv, [Next]_vars PROVE RecordInv'
  OBVIOUS
<1>1. TypeOK /\ (phase # "done" => AnswersRecorded /\ result = "none")
  BY DEF IInv, Counted, RecordInv
<1>2. CASE UNCHANGED <<hop, result, records>> /\ (phase' = "done" <=> phase = "done")
  BY <1>2 DEF RecordInv, AnswersRecorded, AllRecorded, Times
<1>3. CASE phase # "done" /\ ((\E e \in Exceptions : Raise(e)) \/ Deliver)
  BY <1>1, <1>3, RaiseRecorded, DeliverRecorded
<1>4. CASE Send \/ PauseEnds \/ Tick \/ UNCHANGED vars
  BY <1>2, <1>3, <1>4 DEF Send, PauseEnds, Try, Tick, vars, Exceptions
<1>5. CASE SendTooLate \/ SendRejected \/ TryResponds \/ TryTimesOut
  BY <1>3, <1>5 DEF SendTooLate, SendRejected, TryResponds, TryTimesOut, Exceptions
<1>6. CASE TryAsksRetry \/ \E error \in {"connect", "read"} : TryFails(error)
  BY <1>2, <1>3, <1>6 DEF TryAsksRetry, TryFails, Retry, Exceptions
<1> QED
  BY <1>4, <1>5, <1>6 DEF Next, CallStep

\* However a call ends, all its requests are recorded, and its failure if there is one.
THEOREM CallsAreRecorded == Spec => []AllRecorded
<1>1. Init => RecordInv
  BY DEF Init, RecordInv, AnswersRecorded
<1>2. RecordInv => AllRecorded
  BY DEF RecordInv, AllRecorded
<1> QED
  BY <1>1, <1>2, Invariance, RecordStep, PTL DEF Spec

-----------------------------------------------------------------------------
(* Sessions.                                                               *)

HIDE AdapterAssumption
USE SessionsAssumption

Made == Nat \X Threads \X Nat
Locals == [pid : Nat \cup {Nobody}, sessions : BOOLEAN, session : Made \cup {Nobody}]
OwnNames == [Attributes -> Names \cup {NoName}]
Calls == [session : Made, own : OwnNames, context : Contexts, stage : CallStages]
Stages == {"outside", "missing", "lookup", "create"}

SessionsTypeOK ==
  /\ pid \in Nat /\ resets \in Nat
  /\ running \subseteq Threads /\ clean \subseteq Threads
  /\ local \in [Threads -> Locals]
  /\ at \in [Threads -> Stages]
  /\ got \in [Threads -> Made \cup {Nobody}]
  /\ environ \in Made \cup {Nobody}
  /\ made \in [Threads -> Nat]
  /\ calls \in [Threads -> Calls \cup {Nobody}]
  /\ names \in [Contexts -> [Attributes -> Names \cup {NoName, Absent}]]

\* A session was made by the thread t, in a process whose number is p.
By(session, p, t) == session[1] = p /\ session[2] = t

\* What a thread has stored it made itself, in the process whose number is with it.
StoredInv ==
  \A t \in Threads : local[t].session # Nobody =>
    local[t].sessions /\ local[t].pid # Nobody /\ By(local[t].session, local[t].pid, t)

\* What a thread got, and what it uses, is its own, or the one in the environ.
UsedInv ==
  \A t \in Threads :
    /\ got[t] # Nobody => By(got[t], pid, t)
    /\ calls[t] # Nobody => By(calls[t].session, pid, t) \/ calls[t].session = environ

OwnInv == SessionsTypeOK /\ StoredInv /\ UsedInv

-----------------------------------------------------------------------------
(* The thread local.                                                       *)

Stale(l) == l.pid \notin {Nobody, pid}

\* Local._check leaves the thread that asks with the pid of its process, and what
\* it had stored there; others have what they had, or nothing.
LEMMA CheckedFacts ==
  ASSUME SessionsTypeOK, NEW t \in Threads
  PROVE  /\ Checked(t) \in [Threads -> Locals]
         /\ Checked(t)[t].pid = pid
         /\ ~Stale(local[t]) => /\ Checked(t)[t].session = local[t].session
                                /\ Checked(t)[t].sessions = local[t].sessions
                                /\ \A u \in Threads \ {t} : Checked(t)[u] = local[u]
         /\ Stale(local[t]) => /\ Checked(t)[t] = Forgotten(pid)
                               /\ \A u \in Threads \ {t} : Checked(t)[u] = Empty
<1>1. local \in [Threads -> Locals] /\ pid \in Nat
  BY DEF SessionsTypeOK
<1>2. Empty \in Locals /\ Forgotten(pid) \in Locals /\ Forgotten(pid).pid = pid
  BY <1>1 DEF Empty, Forgotten, Locals
<1>3. CASE ~Stale(local[t])
  <2>1. Checked(t) = [local EXCEPT ![t].pid = pid]
    BY <1>3 DEF Checked, Stale
  <2> QED
    BY <1>1, <1>3, <2>1 DEF Locals
<1>4. CASE Stale(local[t])
  <2>1. Checked(t) = [u \in Threads |-> IF u = t THEN Forgotten(pid) ELSE Empty]
    BY <1>4 DEF Checked, Stale
  <2> QED
    BY <1>2, <1>4, <2>1
<1> QED
  BY <1>3, <1>4

\* What is stored after that is what was stored before, or nothing.
LEMMA CheckedStored ==
  ASSUME SessionsTypeOK, StoredInv, NEW t \in Threads
  PROVE  /\ \A u \in Threads : Checked(t)[u].session # Nobody =>
              /\ Checked(t)[u].session = local[u].session
              /\ Checked(t)[u].sessions
              /\ Checked(t)[u].pid = local[u].pid
         /\ Checked(t)[t].session # Nobody => local[t].pid = pid
<1>1. Empty.session = Nobody /\ Forgotten(pid).session = Nobody
  BY DEF Empty, Forgotten
<1>2. CASE Stale(local[t])
  BY <1>1, <1>2, CheckedFacts
<1>3. CASE ~Stale(local[t])
  BY <1>3, CheckedFacts DEF Stale, StoredInv
<1> QED
  BY <1>2, <1>3

-----------------------------------------------------------------------------
(* Whose a session is.                                                     *)

\* At the start there is no session.
LEMMA InitOwn == SessionsInit => OwnInv
<1> SUFFICES ASSUME SessionsInit PROVE OwnInv
  OBVIOUS
<1>1. Empty \in Locals /\ [Empty EXCEPT !.pid = 0, !.sessions = TRUE] \in Locals
  BY DEF Empty, Locals
<1>2. /\ Empty.session = Nobody
      /\ [Empty EXCEPT !.pid = 0, !.sessions = TRUE].session = Nobody
  BY DEF Empty
<1>3. PICK t \in Threads :
        /\ running = {t}
        /\ local = [u \in Threads |-> IF u = t THEN [Empty EXCEPT !.pid = 0, !.sessions = TRUE] ELSE Empty]
  BY DEF SessionsInit
<1>4. SessionsTypeOK
  BY <1>1, <1>3 DEF SessionsInit, SessionsTypeOK, Stages, Unnamed
<1>5. StoredInv
  BY <1>2, <1>3 DEF StoredInv
<1>6. UsedInv
  BY DEF SessionsInit, UsedInv
<1> QED
  BY <1>4, <1>5, <1>6 DEF OwnInv

\* The parts of OwnInv that an access to STORAGE may change.
LEMMA AccessOwn ==
  ASSUME OwnInv, NEW t \in Threads, NEW from \in Stages, Access(t, from),
         local' \in [Threads -> Locals], at' \in [Threads -> Stages],
         got' \in [Threads -> Made \cup {Nobody}], made' \in [Threads -> Nat],
         StoredInv',
         \A u \in Threads : got'[u] # Nobody => By(got'[u], pid, u)
  PROVE  OwnInv'
<1>1. SessionsTypeOK'
  BY DEF OwnInv, SessionsTypeOK, Access, metrics
<1>2. UsedInv'
  BY DEF OwnInv, UsedInv, Access, metrics, By
<1> QED
  BY <1>1, <1>2 DEF OwnInv

\* A fork: only the thread that forked has sessions in the child, and they are stale.
LEMMA ForkOwn ==
  ASSUME OwnInv, NEW t \in Threads, Fork(t)
  PROVE  OwnInv'
<1>1. Empty \in Locals /\ Empty.session = Nobody
  BY DEF Empty, Locals
<1>2. local' = [u \in Threads |-> IF u = t THEN local[t] ELSE Empty]
  BY DEF Fork
<1>3. SessionsTypeOK'
  BY <1>1, <1>2 DEF OwnInv, SessionsTypeOK, Fork, Stages
<1>4. StoredInv'
  BY <1>1, <1>2 DEF OwnInv, StoredInv, By
<1>5. UsedInv'
  BY DEF OwnInv, UsedInv, Fork
<1> QED
  BY <1>3, <1>4, <1>5 DEF OwnInv

\* A call begins.
LEMMA BeginOwn ==
  ASSUME OwnInv, NEW t \in Threads, Begin(t)
  PROVE  OwnInv'
<1>1. local' = Checked(t) /\ Access(t, "outside") /\ UNCHANGED <<got, made>>
  BY DEF Begin
<1>2. local' \in [Threads -> Locals]
  BY <1>1, CheckedFacts DEF OwnInv
<1>3. at' \in [Threads -> Stages]
  BY DEF Begin, OwnInv, SessionsTypeOK, Stages
<1>4. StoredInv'
  BY <1>1, CheckedStored DEF OwnInv, StoredInv, By
<1> QED
  BY <1>1, <1>2, <1>3, <1>4, AccessOwn DEF OwnInv, SessionsTypeOK, UsedInv, Stages

\* A thread gets an empty dict of sessions.
LEMMA SetSessionsOwn ==
  ASSUME OwnInv, NEW t \in Threads, SetSessions(t)
  PROVE  OwnInv'
<1>1. /\ local' = [Checked(t) EXCEPT ![t].sessions = TRUE, ![t].session = Nobody]
      /\ Access(t, "missing") /\ UNCHANGED <<got, made>>
  BY DEF SetSessions
<1>2. Checked(t) \in [Threads -> Locals]
  BY CheckedFacts DEF OwnInv
<1>3. local' \in [Threads -> Locals]
  BY <1>1, <1>2 DEF Locals
<1>4. at' \in [Threads -> Stages]
  BY DEF SetSessions, OwnInv, SessionsTypeOK, Stages
<1>5. local'[t].session = Nobody /\ \A u \in Threads \ {t} : local'[u] = Checked(t)[u]
  BY <1>1, <1>2 DEF Locals
<1>6. StoredInv'
  BY <1>5, CheckedStored DEF OwnInv, StoredInv, By
<1> QED
  BY <1>1, <1>3, <1>4, <1>6, AccessOwn DEF OwnInv, SessionsTypeOK, UsedInv, Stages

\* A session that is found was stored in this process.
LEMMA LookupOwn ==
  ASSUME OwnInv, NEW t \in Threads, Lookup(t)
  PROVE  OwnInv'
<1>1. /\ local' = Checked(t) /\ Access(t, "lookup") /\ UNCHANGED made
      /\ got' = IF Found(t) THEN [got EXCEPT ![t] = local[t].session] ELSE got
  BY DEF Lookup
<1>2. local' \in [Threads -> Locals]
  BY <1>1, CheckedFacts DEF OwnInv
<1>3. at' \in [Threads -> Stages]
  BY DEF Lookup, OwnInv, SessionsTypeOK, Stages
<1>4. StoredInv'
  BY <1>1, CheckedStored DEF OwnInv, StoredInv, By
<1>5. Found(t) => local[t].session \in Made /\ By(local[t].session, pid, t)
  BY CheckedStored DEF OwnInv, Found, StoredInv, SessionsTypeOK, Locals
<1>6. got' \in [Threads -> Made \cup {Nobody}]
  BY <1>1, <1>5 DEF OwnInv, SessionsTypeOK
<1>7. \A u \in Threads : got'[u] # Nobody => By(got'[u], pid, u)
  BY <1>1, <1>5 DEF OwnInv, SessionsTypeOK, UsedInv
<1> QED
  BY <1>1, <1>2, <1>3, <1>4, <1>6, <1>7, AccessOwn DEF OwnInv, SessionsTypeOK, Stages

\* A session is created by the thread that will use it.
LEMMA CreateOwn ==
  ASSUME OwnInv, NEW t \in Threads, Create(t)
  PROVE  OwnInv'
<1> DEFINE session == <<pid, t, made[t] + 1>>
<1>1. /\ local' = [Checked(t) EXCEPT ![t].session = session] /\ Access(t, "create")
      /\ made' = [made EXCEPT ![t] = @ + 1] /\ got' = [got EXCEPT ![t] = session]
      /\ Checked(t)[t].sessions
  BY DEF Create
<1>2. session \in Made /\ By(session, pid, t)
  BY DEF OwnInv, SessionsTypeOK, Made, By
<1> HIDE DEF session
<1>3. Checked(t) \in [Threads -> Locals] /\ Checked(t)[t].pid = pid
  BY CheckedFacts DEF OwnInv
<1>4. local' \in [Threads -> Locals]
  BY <1>1, <1>2, <1>3 DEF Locals
<1>5. at' \in [Threads -> Stages]
  BY DEF Create, OwnInv, SessionsTypeOK, Stages
<1>6. /\ local'[t].session = session /\ local'[t].pid = pid /\ local'[t].sessions
      /\ \A u \in Threads \ {t} : local'[u] = Checked(t)[u]
  BY <1>1, <1>3 DEF Locals
<1>7. StoredInv'
  <2> SUFFICES ASSUME NEW u \in Threads, local'[u].session # Nobody
               PROVE  local'[u].sessions /\ local'[u].pid # Nobody /\ By(local'[u].session, local'[u].pid, u)
    BY DEF StoredInv
  <2>1. CASE u = t
    BY <1>2, <1>6, <2>1 DEF OwnInv, SessionsTypeOK
  <2>2. CASE u # t
    BY <1>6, <2>2, CheckedStored DEF OwnInv, StoredInv, By
  <2> QED
    BY <2>1, <2>2
<1>8. got' \in [Threads -> Made \cup {Nobody}] /\ made' \in [Threads -> Nat]
  BY <1>1, <1>2 DEF OwnInv, SessionsTypeOK
<1>9. \A u \in Threads : got'[u] # Nobody => By(got'[u], pid, u)
  BY <1>1, <1>2 DEF OwnInv, SessionsTypeOK, UsedInv
<1> QED
  BY <1>1, <1>4, <1>5, <1>7, <1>8, <1>9, AccessOwn DEF Stages

\* An access that raises has at most checked the pid.
LEMMA RaiseOwn ==
  ASSUME OwnInv, NEW t \in Threads, AccessRaises(t)
  PROVE  OwnInv'
<1>1. PICK from \in {"lookup", "create"} : Access(t, from)
  BY DEF AccessRaises
<1>2. local' = Checked(t) /\ UNCHANGED <<got, made>>
  BY DEF AccessRaises
<1>3. local' \in [Threads -> Locals]
  BY <1>2, CheckedFacts DEF OwnInv
<1>4. at' \in [Threads -> Stages]
  BY DEF AccessRaises, OwnInv, SessionsTypeOK, Stages
<1>5. StoredInv'
  BY <1>2, CheckedStored DEF OwnInv, StoredInv, By
<1> QED
  BY <1>1, <1>2, <1>3, <1>4, <1>5, AccessOwn DEF OwnInv, SessionsTypeOK, UsedInv, Stages

\* The environ is written once, so that a call with its session keeps that.
LEMMA WrapOwn ==
  ASSUME OwnInv, NEW t \in Threads, Wrap(t)
  PROVE  OwnInv'
<1>1. SessionsTypeOK'
  BY DEF OwnInv, SessionsTypeOK, Wrap, metrics
<1>2. StoredInv'
  BY DEF OwnInv, StoredInv, Wrap, By
<1>3. UsedInv'
  <2>1. \A u \in Threads : calls[u] # Nobody => By(calls[u].session, pid, u)
    <3> SUFFICES ASSUME NEW u \in Threads, calls[u] # Nobody PROVE calls[u].session # environ
      BY DEF OwnInv, UsedInv
    <3>1. calls[u].session \in Made
      BY DEF OwnInv, SessionsTypeOK, Calls
    <3> QED
      BY <3>1 DEF Wrap, Made
  <2> QED
    BY <2>1 DEF OwnInv, UsedInv, Wrap, By, metrics
<1> QED
  BY <1>1, <1>2, <1>3 DEF OwnInv

\* The steps of a call.
MetricsStep ==
  \E t \in Threads :
    \/ \E session \in Sessions(t), own \in OwnNames, c \in Contexts : Request(t, session, own, c)
    \/ NameHost(t) \/ DeleteApi(t) \/ DeleteHost(t)

\* An attribute is set on one context.
LEMMA SetNameFacts ==
  ASSUME SessionsTypeOK, NEW c \in Contexts, NEW a \in Attributes,
         NEW name \in Names \cup {NoName, Absent}, SetName(c, a, name)
  PROVE  /\ names' \in [Contexts -> [Attributes -> Names \cup {NoName, Absent}]]
         /\ names'[c][a] = name
         /\ \A b \in Attributes \ {a} : names'[c][b] = names[c][b]
         /\ \A d \in Contexts \ {c} : names'[d] = names[d]
<1> DEFINE Named == [Attributes -> Names \cup {NoName, Absent}]
<1>1. names \in [Contexts -> Named] /\ names' = [names EXCEPT ![c] = [names[c] EXCEPT ![a] = name]]
  BY DEF SessionsTypeOK, SetName
<1>2. /\ [names[c] EXCEPT ![a] = name] \in Named
      /\ [names[c] EXCEPT ![a] = name][a] = name
      /\ \A b \in Attributes \ {a} : [names[c] EXCEPT ![a] = name][b] = names[c][b]
  BY <1>1
<1> HIDE DEF Named
<1>3. names' \in [Contexts -> Named]
  BY <1>1, <1>2
<1>4. names'[c] = [names[c] EXCEPT ![a] = name] /\ \A d \in Contexts \ {c} : names'[d] = names[d]
  BY <1>1
<1> QED
  BY <1>2, <1>3, <1>4 DEF Named

\* A call goes on, with its session, names and context.
LEMMA GoToFacts ==
  ASSUME SessionsTypeOK, NEW t \in Threads, calls[t] # Nobody, NEW stage \in CallStages, GoTo(t, stage)
  PROVE  /\ calls[t] \in Calls /\ calls[t].context \in Contexts
         /\ calls' \in [Threads -> Calls \cup {Nobody}]
         /\ calls'[t] # Nobody
         /\ calls'[t].session = calls[t].session /\ calls'[t].own = calls[t].own
         /\ calls'[t].context = calls[t].context /\ calls'[t].stage = stage
         /\ \A u \in Threads \ {t} : calls'[u] = calls[u]
<1>1. calls[t] \in Calls /\ calls' = [calls EXCEPT ![t] = [calls[t] EXCEPT !.stage = stage]]
  BY DEF SessionsTypeOK, GoTo
<1>2. /\ [calls[t] EXCEPT !.stage = stage] \in Calls
      /\ [calls[t] EXCEPT !.stage = stage].session = calls[t].session
      /\ [calls[t] EXCEPT !.stage = stage].own = calls[t].own
      /\ [calls[t] EXCEPT !.stage = stage].context = calls[t].context
      /\ [calls[t] EXCEPT !.stage = stage].stage = stage
  BY <1>1 DEF Calls
<1>3. calls'[t] = [calls[t] EXCEPT !.stage = stage] /\ \A u \in Threads \ {t} : calls'[u] = calls[u]
  BY <1>1 DEF SessionsTypeOK
<1>4. calls' \in [Threads -> Calls \cup {Nobody}]
  BY <1>1, <1>2 DEF SessionsTypeOK
<1>5. Nobody \notin Calls
  BY SessionsAssumption DEF Calls, Made, OwnNames
<1>6. calls[t].context \in Contexts
  BY <1>1 DEF Calls
<1> QED
  BY <1>1, <1>2, <1>3, <1>4, <1>5, <1>6

\* A call is over.
LEMMA ReturnFacts ==
  ASSUME SessionsTypeOK, NEW t \in Threads, calls[t] # Nobody, Return(t)
  PROVE  /\ calls[t] \in Calls /\ calls[t].context \in Contexts
         /\ calls' \in [Threads -> Calls \cup {Nobody}]
         /\ calls'[t] = Nobody
         /\ \A u \in Threads \ {t} : calls'[u] = calls[u]
<1>1. calls[t] \in Calls
  BY DEF SessionsTypeOK
<1>2. calls[t].context \in Contexts
  BY <1>1 DEF Calls
<1> QED
  BY <1>1, <1>2 DEF SessionsTypeOK, Return

\* A call that begins.
LEMMA RequestFacts ==
  ASSUME OwnInv, NEW t \in Threads, NEW session \in Sessions(t), NEW own \in OwnNames,
         NEW c \in Contexts, Request(t, session, own, c)
  PROVE  /\ session \in Made /\ (By(session, pid, t) \/ session = environ)
         /\ calls' \in [Threads -> Calls \cup {Nobody}]
         /\ calls'[t] # Nobody
         /\ calls'[t].session = session /\ calls'[t].own = own
         /\ calls'[t].context = c /\ calls'[t].stage = "naming"
         /\ \A u \in Threads \ {t} : calls'[u] = calls[u]
<1> DEFINE call == [session |-> session, own |-> own, context |-> c, stage |-> "naming"]
<1>1. session \in Made /\ (By(session, pid, t) \/ session = environ)
  BY DEF Sessions, OwnInv, SessionsTypeOK, UsedInv
<1>2. call \in Calls
  BY <1>1 DEF Calls, CallStages
<1>3. /\ call.session = session /\ call.own = own /\ call.context = c /\ call.stage = "naming"
      /\ calls' = [calls EXCEPT ![t] = call]
  BY DEF Request
<1> HIDE DEF call
<1>4. Nobody \notin Calls
  BY SessionsAssumption DEF Calls, Made, OwnNames
<1> QED
  BY <1>1, <1>2, <1>3, <1>4 DEF OwnInv, SessionsTypeOK

\* The steps of a call neither create nor replace a session.
LEMMA MetricsOwn ==
  ASSUME OwnInv, MetricsStep
  PROVE  OwnInv'
<1>1. PICK t \in Threads :
        \/ \E session \in Sessions(t), own \in OwnNames, c \in Contexts : Request(t, session, own, c)
        \/ NameHost(t) \/ DeleteApi(t) \/ DeleteHost(t)
  BY DEF MetricsStep
<1>2. UNCHANGED storage
  BY <1>1 DEF Request, NameHost, DeleteApi, DeleteHost, Return
<1>3. StoredInv'
  BY <1>2 DEF OwnInv, StoredInv, storage, By
<1>4. ASSUME calls' \in [Threads -> Calls \cup {Nobody}],
             names' \in [Contexts -> [Attributes -> Names \cup {NoName, Absent}]],
             clean' \subseteq Threads,
             \A u \in Threads \ {t} : calls'[u] = calls[u],
             calls'[t] # Nobody => By(calls'[t].session, pid, t) \/ calls'[t].session = environ
      PROVE  OwnInv'
  <2>1. SessionsTypeOK'
    BY <1>2, <1>4 DEF OwnInv, SessionsTypeOK, storage
  <2>2. UsedInv'
    BY <1>2, <1>4 DEF OwnInv, UsedInv, storage, By
  <2> QED
    BY <1>3, <2>1, <2>2 DEF OwnInv
<1>5. CASE \E session \in Sessions(t), own \in OwnNames, c \in Contexts : Request(t, session, own, c)
  <2>1. PICK session \in Sessions(t), own \in OwnNames, c \in Contexts : Request(t, session, own, c)
    BY <1>5
  <2>2. names' \in [Contexts -> [Attributes -> Names \cup {NoName, Absent}]]
    <3>1. SetName(c, "metric_api_name", own["metric_api_name"]) /\ own["metric_api_name"] \in Names \cup {NoName}
      BY <2>1 DEF Request, OwnNames, Attributes
    <3> QED
      BY <3>1, SetNameFacts DEF OwnInv, Attributes
  <2>3. clean' \subseteq Threads
    BY <2>1 DEF Request, OwnInv, SessionsTypeOK
  <2> QED
    BY <1>4, <2>1, <2>2, <2>3, RequestFacts
<1>6. CASE NameHost(t)
  <2>1. GoTo(t, "sent") /\ calls[t] # Nobody /\ clean' = clean
    BY <1>6 DEF NameHost, At
  <2>2. /\ calls[t].context \in Contexts /\ calls' \in [Threads -> Calls \cup {Nobody}]
        /\ calls'[t].session = calls[t].session /\ \A u \in Threads \ {t} : calls'[u] = calls[u]
    BY <2>1, GoToFacts DEF OwnInv, CallStages
  <2>3. calls[t].own["metric_host_name"] \in Names \cup {NoName, Absent}
    <3>1. calls[t] \in Calls
      BY <2>1 DEF OwnInv, SessionsTypeOK
    <3> QED
      BY <3>1 DEF Calls, OwnNames, Attributes
  <2>4. names' \in [Contexts -> [Attributes -> Names \cup {NoName, Absent}]]
    <3>1. SetName(calls[t].context, "metric_host_name", calls[t].own["metric_host_name"])
      BY <1>6 DEF NameHost
    <3> QED
      BY <2>2, <2>3, <3>1, SetNameFacts DEF OwnInv, Attributes
  <2>5. By(calls[t].session, pid, t) \/ calls[t].session = environ
    BY <2>1 DEF OwnInv, UsedInv
  <2> QED
    BY <1>4, <2>1, <2>2, <2>4, <2>5 DEF OwnInv, SessionsTypeOK
<1>7. CASE DeleteApi(t) \/ DeleteHost(t)
  <2>1. /\ calls[t] # Nobody
        /\ \E a \in Attributes : SetName(calls[t].context, a, Absent)
        /\ \/ Return(t)
           \/ GoTo(t, "deleting") /\ clean' = clean
    BY <1>7 DEF DeleteApi, DeleteHost, At, Attributes
  <2>2. /\ calls[t].context \in Contexts /\ calls' \in [Threads -> Calls \cup {Nobody}]
        /\ calls'[t] # Nobody => calls'[t].session = calls[t].session
        /\ \A u \in Threads \ {t} : calls'[u] = calls[u]
    BY <2>1, GoToFacts, ReturnFacts DEF OwnInv, CallStages
  <2>3. names' \in [Contexts -> [Attributes -> Names \cup {NoName, Absent}]]
    BY <2>1, <2>2, SetNameFacts DEF OwnInv
  <2>4. clean' \subseteq Threads
    BY <2>1 DEF Return, OwnInv, SessionsTypeOK
  <2>5. By(calls[t].session, pid, t) \/ calls[t].session = environ
    BY <2>1 DEF OwnInv, UsedInv
  <2> QED
    BY <1>4, <2>2, <2>3, <2>4, <2>5
<1> QED
  BY <1>1, <1>5, <1>6, <1>7

\* Whose the sessions are after each step.
LEMMA StepOwn == OwnInv /\ [SessionsNext]_sessionsVars => OwnInv'
<1> SUFFICES ASSUME OwnInv, [SessionsNext]_sessionsVars PROVE OwnInv'
  OBVIOUS
<1>1. CASE UNCHANGED sessionsVars
  BY <1>1 DEF sessionsVars, storage, metrics, OwnInv, SessionsTypeOK, StoredInv, UsedInv, By
<1>2. CASE SessionsNext
  <2>1. PICK t \in Threads :
          \/ Fork(t) \/ StartThread(t)
          \/ Begin(t) \/ SetSessions(t) \/ Lookup(t) \/ Create(t) \/ AccessRaises(t) \/ Wrap(t)
          \/ MetricsStep
    BY <1>2 DEF SessionsNext, MetricsStep, OwnNames
  <2>2. CASE StartThread(t)
    BY <2>2 DEF StartThread, metrics, OwnInv, SessionsTypeOK, StoredInv, UsedInv, By
  <2> QED
    BY <2>1, <2>2, ForkOwn, BeginOwn, SetSessionsOwn, LookupOwn, CreateOwn, RaiseOwn, WrapOwn, MetricsOwn
<1> QED
  BY <1>1, <1>2

\* What is known of owners, as OwnSession says it.
LEMMA OwnInvSafe == OwnInv => OwnSession
<1> SUFFICES ASSUME OwnInv, NEW t \in Threads, NEW u \in Threads, t # u,
                    calls[t] # Nobody, calls[u] # Nobody, calls[t].session = calls[u].session
             PROVE  calls[t].session = environ
  BY DEF OwnInv, UsedInv, OwnSession, By
<1> QED
  BY DEF OwnInv, UsedInv, By

\* The model is type correct.
THEOREM SessionsTypeCorrect == SessionsSpec => []SessionsTypeOK
<1>1. OwnInv => SessionsTypeOK
  BY DEF OwnInv
<1> QED
  BY <1>1, InitOwn, StepOwn, PTL DEF SessionsSpec

\* Whatever forks and threads do, get_session returns to a thread what it made
\* itself in its process, and only the session in the environ is shared.
THEOREM SessionIsOwn == SessionsSpec => []OwnSession
  BY InitOwn, StepOwn, OwnInvSafe, PTL DEF SessionsSpec

-----------------------------------------------------------------------------
(* How long a thread keeps its session.                                    *)

\* Only the thread that forked can have the pid of another process, until its
\* first access; that is the only one that takes sessions from other threads.
StayInv ==
  /\ resets <= 1
  /\ \A t \in Threads :
       /\ local[t].sessions => t \in running
       /\ Stale(local[t]) =>
            /\ at[t] = "outside" /\ resets = 0 /\ made[t] = 0
            /\ \A u \in Threads \ {t} : ~Stale(local[u])
       /\ at[t] = "missing" => ~local[t].sessions
       /\ at[t] = "create" => local[t].session = Nobody
       /\ at[t] \in {"lookup", "create"} /\ resets = 0 => local[t].sessions
       /\ made[t] <= resets + (IF local[t].session # Nobody THEN 1 ELSE 0)

\* At the start there is no session that could go.
LEMMA InitStay == SessionsInit => StayInv
<1> SUFFICES ASSUME SessionsInit PROVE StayInv
  OBVIOUS
<1> DEFINE first == [Empty EXCEPT !.pid = 0, !.sessions = TRUE]
<1>1. /\ ~Empty.sessions /\ Empty.pid = Nobody /\ Empty.session = Nobody
      /\ first.sessions /\ first.pid = 0 /\ first.session = Nobody
  BY DEF Empty
<1>2. PICK t \in Threads : running = {t} /\ local = [u \in Threads |-> IF u = t THEN first ELSE Empty]
  BY DEF SessionsInit
<1> HIDE DEF first
<1> QED
  BY <1>1, <1>2 DEF SessionsInit, StayInv, Stale

\* A fork: only the thread that forked has sessions in the child.
LEMMA ForkStay ==
  ASSUME OwnInv, StayInv, NEW t \in Threads, Fork(t)
  PROVE  StayInv'
<1>1. ~Empty.sessions /\ Empty.pid = Nobody
  BY DEF Empty
<1>2. local' = [u \in Threads |-> IF u = t THEN local[t] ELSE Empty]
  BY DEF Fork
<1> QED
  BY <1>1, <1>2 DEF StayInv, Stale, Fork

\* An access that finds the pid of its process changes nothing for the others.
LEMMA CurrentAccessStay ==
  ASSUME OwnInv, StayInv, NEW t \in Threads, NEW from \in Stages, Access(t, from), ~Stale(local[t]),
         at' \in [Threads -> Stages], \A u \in Threads \ {t} : at'[u] = at[u],
         local' \in [Threads -> Locals], \A u \in Threads \ {t} : local'[u] = local[u],
         local'[t].pid = pid,
         made' \in [Threads -> Nat], \A u \in Threads \ {t} : made'[u] = made[u],
         at'[t] = "missing" => ~local'[t].sessions,
         at'[t] = "create" => local'[t].session = Nobody,
         at'[t] \in {"lookup", "create"} /\ resets = 0 => local'[t].sessions,
         made'[t] <= resets + (IF local'[t].session # Nobody THEN 1 ELSE 0)
  PROVE  StayInv'
<1>1. resets' = resets /\ pid' = pid /\ running' = running /\ t \in running
  BY DEF Access, Resets, Stale
<1>2. ~Stale(local[t])' /\ \A u \in Threads \ {t} : Stale(local[u])' = Stale(local[u])
  BY <1>1 DEF Stale
<1> QED
  BY <1>1, <1>2 DEF StayInv

\* The first access of a thread that forked may take sessions from others, once.
LEMMA BeginStay ==
  ASSUME OwnInv, StayInv, NEW t \in Threads, Begin(t)
  PROVE  StayInv'
<1>1. /\ local' = Checked(t) /\ Access(t, "outside") /\ UNCHANGED <<got, made>>
      /\ at' = [at EXCEPT ![t] = IF local'[t].sessions THEN "lookup" ELSE "missing"]
  BY DEF Begin
<1>2. /\ SessionsTypeOK /\ at' \in [Threads -> Stages] /\ at'[t] \in {"lookup", "missing"}
      /\ \A u \in Threads \ {t} : at'[u] = at[u]
  BY <1>1 DEF OwnInv, SessionsTypeOK, Stages
<1>3. at'[t] = IF local'[t].sessions THEN "lookup" ELSE "missing"
  BY <1>1, <1>2 DEF SessionsTypeOK
<1>4. CASE ~Stale(local[t])
  <2>1. made'[t] <= resets + (IF local'[t].session # Nobody THEN 1 ELSE 0)
    BY <1>1, <1>2, <1>4, CheckedFacts DEF StayInv
  <2>2. made' \in [Threads -> Nat]
    BY <1>1, <1>2 DEF SessionsTypeOK
  <2> QED
    BY <1>1, <1>2, <1>3, <1>4, <2>1, <2>2, CheckedFacts, CurrentAccessStay DEF Stages
<1>5. CASE Stale(local[t])
  <2>1. /\ ~Empty.sessions /\ Empty.pid = Nobody /\ Empty.session = Nobody
        /\ ~Forgotten(pid).sessions /\ Forgotten(pid).pid = pid /\ Forgotten(pid).session = Nobody
    BY DEF Empty, Forgotten
  <2>2. local'[t] = Forgotten(pid) /\ \A u \in Threads \ {t} : local'[u] = Empty
    BY <1>1, <1>2, <1>5, CheckedFacts
  <2>3. \A u \in Threads : ~local'[u].sessions /\ local'[u].session = Nobody /\ local'[u].pid \in {pid, Nobody}
    BY <2>1, <2>2
  <2>4. pid' = pid /\ resets = 0 /\ made[t] = 0 /\ resets' \in {0, 1}
    BY <1>1, <1>5 DEF StayInv, Access
  <2>5. \A u \in Threads \ {t} : local[u].sessions => resets' = 1
    BY <1>1, <1>5, <2>4 DEF Access, Resets, Stale, StayInv
  <2>6. \A u \in Threads \ {t} : at[u] \in {"lookup", "create"} => resets' = 1
    BY <2>4, <2>5 DEF StayInv
  <2>7. \A u \in Threads \ {t} : made[u] <= resets'
    <3> SUFFICES ASSUME NEW u \in Threads \ {t} PROVE made[u] <= resets'
      OBVIOUS
    <3>1. made[u] <= IF local[u].session # Nobody THEN 1 ELSE 0
      BY <1>2, <2>4 DEF StayInv, SessionsTypeOK
    <3>2. made[u] \in Nat /\ (local[u].session # Nobody => local[u].sessions)
      BY <1>2 DEF SessionsTypeOK, OwnInv, StoredInv
    <3> QED
      BY <2>4, <2>5, <3>1, <3>2
  <2>8. at'[t] = "missing"
    BY <1>3, <2>3
  <2> QED
    BY <1>1, <1>2, <2>3, <2>4, <2>6, <2>7, <2>8 DEF StayInv, Stale, SessionsTypeOK
<1> QED
  BY <1>4, <1>5

\* A thread gets an empty dict: the others' are not touched.
LEMMA SetSessionsStay ==
  ASSUME OwnInv, StayInv, NEW t \in Threads, SetSessions(t)
  PROVE  StayInv'
<1>1. /\ local' = [Checked(t) EXCEPT ![t].sessions = TRUE, ![t].session = Nobody]
      /\ Access(t, "missing") /\ UNCHANGED <<got, made>> /\ at' = [at EXCEPT ![t] = "lookup"]
  BY DEF SetSessions
<1>2. SessionsTypeOK /\ at[t] = "missing" /\ ~Stale(local[t]) /\ local[t].session = Nobody
  BY <1>1 DEF Access, OwnInv, StayInv, StoredInv
<1>3. Checked(t) \in [Threads -> Locals] /\ Checked(t)[t].pid = pid
  BY <1>2, CheckedFacts
<1>4. /\ local' \in [Threads -> Locals] /\ local'[t].pid = pid
      /\ local'[t].sessions /\ local'[t].session = Nobody
      /\ \A u \in Threads \ {t} : local'[u] = Checked(t)[u]
  BY <1>1, <1>3 DEF Locals
<1>5. \A u \in Threads \ {t} : local'[u] = local[u]
  BY <1>2, <1>4, CheckedFacts
<1>6. /\ at' \in [Threads -> Stages] /\ at'[t] = "lookup" /\ \A u \in Threads \ {t} : at'[u] = at[u]
      /\ made' \in [Threads -> Nat] /\ made'[t] <= resets
  BY <1>1, <1>2 DEF SessionsTypeOK, StayInv, Stages
<1> QED
  BY <1>1, <1>2, <1>4, <1>5, <1>6, CurrentAccessStay DEF Stages, SessionsTypeOK

\* A session is looked up.
LEMMA LookupStay ==
  ASSUME OwnInv, StayInv, NEW t \in Threads, Lookup(t)
  PROVE  StayInv'
<1>1. /\ local' = Checked(t) /\ Access(t, "lookup") /\ UNCHANGED made
      /\ Checked(t)[t].sessions
      /\ at' = [at EXCEPT ![t] = IF Found(t) THEN "outside" ELSE "create"]
  BY DEF Lookup
<1>2. SessionsTypeOK /\ ~Stale(local[t])
  BY <1>1 DEF Access, OwnInv, StayInv
<1>3. /\ at' \in [Threads -> Stages] /\ at'[t] \in {"outside", "create"}
      /\ (at'[t] = "create" => local'[t].session = Nobody)
      /\ \A u \in Threads \ {t} : at'[u] = at[u]
  BY <1>1, <1>2 DEF SessionsTypeOK, Stages, Found
<1>4. made' \in [Threads -> Nat] /\ made'[t] <= resets + (IF local'[t].session # Nobody THEN 1 ELSE 0)
  BY <1>1, <1>2, CheckedFacts DEF SessionsTypeOK, StayInv
<1> QED
  BY <1>1, <1>2, <1>3, <1>4, CheckedFacts, CurrentAccessStay DEF Stages

\* A session is created where there was none.
LEMMA CreateStay ==
  ASSUME OwnInv, StayInv, NEW t \in Threads, Create(t)
  PROVE  StayInv'
<1> DEFINE session == <<pid, t, made[t] + 1>>
<1>1. /\ local' = [Checked(t) EXCEPT ![t].session = session] /\ Access(t, "create")
      /\ made' = [made EXCEPT ![t] = @ + 1] /\ at' = [at EXCEPT ![t] = "outside"]
  BY DEF Create
<1>2. SessionsTypeOK /\ at[t] = "create" /\ ~Stale(local[t]) /\ local[t].session = Nobody
  BY <1>1 DEF Access, OwnInv, StayInv
<1>3. session \in Made
  BY <1>2 DEF SessionsTypeOK, Made
<1> HIDE DEF session
<1>4. Checked(t) \in [Threads -> Locals] /\ Checked(t)[t].pid = pid
  BY <1>2, CheckedFacts
<1>5. /\ local' \in [Threads -> Locals] /\ local'[t].pid = pid /\ local'[t].session = session
      /\ \A u \in Threads \ {t} : local'[u] = Checked(t)[u]
  BY <1>1, <1>3, <1>4 DEF Locals
<1>6. \A u \in Threads \ {t} : local'[u] = local[u]
  BY <1>2, <1>5, CheckedFacts
<1>7. local'[t].session # Nobody
  BY <1>3, <1>5 DEF Made
<1>8. /\ made' \in [Threads -> Nat] /\ made'[t] <= resets + 1
      /\ \A u \in Threads \ {t} : made'[u] = made[u]
  BY <1>1, <1>2 DEF SessionsTypeOK, StayInv
<1>9. /\ at' \in [Threads -> Stages] /\ at'[t] = "outside" /\ \A u \in Threads \ {t} : at'[u] = at[u]
  BY <1>1, <1>2 DEF SessionsTypeOK, Stages
<1> QED
  BY <1>1, <1>2, <1>5, <1>6, <1>7, <1>8, <1>9, CurrentAccessStay DEF Stages

\* An access that raises leaves the sessions of the process where they are.
LEMMA RaiseStay ==
  ASSUME OwnInv, StayInv, NEW t \in Threads, AccessRaises(t)
  PROVE  StayInv'
<1>1. PICK from \in {"lookup", "create"} : Access(t, from)
  BY DEF AccessRaises
<1>2. local' = Checked(t) /\ UNCHANGED <<got, made>> /\ at' = [at EXCEPT ![t] = "outside"]
  BY DEF AccessRaises
<1>3. SessionsTypeOK /\ ~Stale(local[t])
  BY <1>1 DEF Access, OwnInv, StayInv
<1>4. /\ at' \in [Threads -> Stages] /\ at'[t] = "outside" /\ \A u \in Threads \ {t} : at'[u] = at[u]
  BY <1>2, <1>3 DEF SessionsTypeOK, Stages
<1>5. made' \in [Threads -> Nat] /\ made'[t] <= resets + (IF local'[t].session # Nobody THEN 1 ELSE 0)
  BY <1>2, <1>3, CheckedFacts DEF SessionsTypeOK, StayInv
<1> QED
  BY <1>1, <1>2, <1>3, <1>4, <1>5, CheckedFacts, CurrentAccessStay DEF Stages

\* The sessions that stay after each step.
LEMMA StepStay == OwnInv /\ StayInv /\ [SessionsNext]_sessionsVars => StayInv'
<1> SUFFICES ASSUME OwnInv, StayInv, [SessionsNext]_sessionsVars PROVE StayInv'
  OBVIOUS
<1>1. CASE UNCHANGED sessionsVars
  BY <1>1 DEF sessionsVars, storage, StayInv, Stale
<1>2. CASE SessionsNext
  <2>1. PICK t \in Threads :
          \/ Fork(t) \/ StartThread(t)
          \/ Begin(t) \/ SetSessions(t) \/ Lookup(t) \/ Create(t) \/ AccessRaises(t) \/ Wrap(t)
          \/ MetricsStep
    BY <1>2 DEF SessionsNext, MetricsStep, OwnNames
  <2>2. CASE StartThread(t) \/ Wrap(t)
    BY <2>2 DEF StartThread, Wrap, StayInv, Stale
  <2>3. CASE MetricsStep
    <3>1. UNCHANGED storage
      BY <2>3 DEF MetricsStep, Request, NameHost, DeleteApi, DeleteHost, Return
    <3> QED
      BY <3>1 DEF storage, StayInv, Stale
  <2> QED
    BY <2>1, <2>2, <2>3, ForkStay, BeginStay, SetSessionsStay, LookupStay, CreateStay, RaiseStay
<1> QED
  BY <1>1, <1>2

\* A thread makes one session and finds what it stored, or a second after the
\* one access in the life of a process that takes sessions away.
THEOREM SessionsAreKept == SessionsSpec => []SessionsStay
<1>1. OwnInv /\ StayInv => SessionsStay
  <2> SUFFICES ASSUME OwnInv, StayInv, NEW t \in running
               PROVE  made[t] <= 1 + resets /\ (at[t] \in {"lookup", "create"} /\ resets = 0 => local[t].sessions)
    BY DEF StayInv, SessionsStay
  <2>1. t \in Threads /\ made[t] \in Nat /\ resets \in Nat
    BY DEF OwnInv, SessionsTypeOK
  <2> QED
    BY <2>1 DEF StayInv
<1> QED
  BY <1>1, InitOwn, StepOwn, InitStay, StepStay, PTL DEF SessionsSpec

-----------------------------------------------------------------------------
(* Under which names a call is counted.                                    *)

\* A call that was alone is the only one in its context.  That has its name for
\* the api until this is deleted, and its name for the host once that is set.
AloneInv(t) ==
  /\ calls[t] # Nobody
  /\ In(calls[t].context) = {t}
  /\ names[calls[t].context]["metric_api_name"] =
       IF calls[t].stage = "deleting" THEN Absent ELSE calls[t].own["metric_api_name"]
  /\ calls[t].stage = "sent" =>
       names[calls[t].context]["metric_host_name"] = calls[t].own["metric_host_name"]

\* What stays on a context: nothing after a call that was alone, and no name for
\* the api unless a call has yet to delete it.
ContextInv(c) ==
  /\ In(c) = {} /\ c \notin overlapped => names[c] = Unnamed
  /\ pid = 0 /\ (\A t \in In(c) : calls[t].stage = "deleting") =>
       names[c]["metric_api_name"] = Absent
  /\ \A t \in In(c) : t \in clean \/ c \in overlapped

NamesInv == (\A t \in clean : AloneInv(t)) /\ (\A c \in Contexts : ContextInv(c))

\* A step of a call matters to its thread and its context.
LEMMA OtherCalls ==
  ASSUME OwnInv, NamesInv, NEW t \in Threads, NEW c \in Contexts, pid' = pid,
         \A u \in Threads \ {t} : calls'[u] = calls[u],
         \A d \in Contexts \ {c} : names'[d] = names[d],
         calls[t] = Nobody \/ calls[t].context = c,
         calls'[t] = Nobody \/ calls'[t].context = c,
         clean' \subseteq Threads,
         \A u \in Threads \ {t} : u \in clean' => u \in clean /\ u \notin In(c),
         \A u \in Threads \ {t} : u \in clean /\ u \notin In(c) => u \in clean',
         \A d \in Contexts \ {c} : d \in overlapped' <=> d \in overlapped,
         t \in clean' => AloneInv(t)',
         ContextInv(c)'
  PROVE  NamesInv'
<1>1. ASSUME NEW d \in Contexts \ {c} PROVE In(d)' = In(d) /\ t \notin In(d) /\ \A u \in In(d) : u \notin In(c)
  BY DEF In
<1>2. ASSUME NEW d \in Contexts, d # c PROVE ContextInv(d)'
  <2>1. \A u \in In(d) : u \in Threads \ {t} /\ calls'[u] = calls[u] /\ (u \in clean => u \in clean')
    BY <1>1, <1>2 DEF In
  <2>2. /\ In(d)' = In(d) /\ names'[d] = names[d]
        /\ d \in overlapped' <=> d \in overlapped
    BY <1>1, <1>2
  <2>3. ContextInv(d)
    BY DEF NamesInv
  <2> QED
    BY <2>1, <2>2, <2>3 DEF ContextInv
<1>3. ASSUME NEW u \in clean', u # t PROVE AloneInv(u)'
  <2>1. u \in Threads \ {t} /\ u \in clean /\ u \notin In(c) /\ calls'[u] = calls[u]
    BY <1>3
  <2>2. AloneInv(u)
    BY <2>1 DEF NamesInv
  <2>3. PICK d \in Contexts : d = calls[u].context
    BY <2>1, <2>2 DEF AloneInv, OwnInv, SessionsTypeOK, Calls
  <2>4. d # c
    BY <2>1, <2>2, <2>3 DEF AloneInv, In
  <2>5. names'[d] = names[d] /\ In(d)' = In(d)
    BY <1>1, <2>4
  <2>6. In(calls[u].context)' = In(d)'
    BY <2>1, <2>3 DEF In
  <2> QED
    BY <2>1, <2>2, <2>3, <2>5, <2>6 DEF AloneInv
<1> QED
  BY <1>2, <1>3 DEF NamesInv

\* A call begins.
LEMMA RequestNames ==
  ASSUME OwnInv, NamesInv, NEW t \in Threads, NEW session \in Sessions(t), NEW own \in OwnNames,
         NEW c \in Contexts, Request(t, session, own, c)
  PROVE  NamesInv'
<1>1. /\ calls'[t] # Nobody /\ calls'[t].own = own
      /\ calls'[t].context = c /\ calls'[t].stage = "naming"
      /\ \A u \in Threads \ {t} : calls'[u] = calls[u]
  BY RequestFacts
<1>2. /\ calls[t] = Nobody /\ pid' = pid
      /\ clean' = IF In(c) = {} THEN clean \cup {t} ELSE clean \ In(c)
      /\ overlapped' = IF In(c) = {} THEN overlapped ELSE overlapped \cup {c}
  BY DEF Request, storage
<1>3. /\ names'[c]["metric_api_name"] = own["metric_api_name"]
      /\ \A d \in Contexts \ {c} : names'[d] = names[d]
  <2>1. SetName(c, "metric_api_name", own["metric_api_name"]) /\ own["metric_api_name"] \in Names \cup {NoName}
    BY DEF Request, OwnNames, Attributes
  <2> QED
    BY <2>1, SetNameFacts DEF OwnInv, Attributes
<1>4. In(c)' = In(c) \cup {t} /\ t \notin In(c) /\ In(calls[t].context)' = In(c)'
  BY <1>1, <1>2 DEF In
<1>5. t \notin clean
  BY <1>2 DEF NamesInv, AloneInv
<1>6. t \in clean' => AloneInv(t)'
  BY <1>1, <1>2, <1>3, <1>4, <1>5 DEF AloneInv
<1>7. ContextInv(c)'
  BY <1>1, <1>2, <1>4 DEF ContextInv
<1>8. clean' \subseteq Threads /\ \A d \in Contexts \ {c} : d \in overlapped' <=> d \in overlapped
  BY <1>2 DEF OwnInv, SessionsTypeOK
<1>9. \A u \in Threads \ {t} : u \in clean' <=> u \in clean /\ u \notin In(c)
  BY <1>2
<1> QED
  BY <1>1, <1>2, <1>3, <1>6, <1>7, <1>8, <1>9, OtherCalls

\* A call is in one of the contexts.
LEMMA CalledIn ==
  ASSUME OwnInv, NEW t \in Threads, calls[t] # Nobody
  PROVE  calls[t] \in Calls /\ calls[t].context \in Contexts
  BY DEF OwnInv, SessionsTypeOK, Calls

\* The name for the host is set.
LEMMA NameHostNames ==
  ASSUME OwnInv, NamesInv, NEW t \in Threads, NameHost(t)
  PROVE  NamesInv'
<1> SUFFICES ASSUME NEW c \in Contexts, c = calls[t].context PROVE NamesInv'
  BY CalledIn DEF NameHost, At
<1> DEFINE host == calls[t].own["metric_host_name"]
<1>1. /\ calls[t] # Nobody /\ calls[t].stage = "naming" /\ GoTo(t, "sent")
      /\ SetName(c, "metric_host_name", host)
      /\ pid' = pid /\ clean' = clean /\ overlapped' = overlapped
  BY DEF NameHost, At, storage
<1>2. /\ calls[t] \in Calls /\ c \in Contexts
      /\ calls'[t] # Nobody /\ calls'[t].own = calls[t].own
      /\ calls'[t].context = c /\ calls'[t].stage = "sent"
      /\ \A u \in Threads \ {t} : calls'[u] = calls[u]
  BY <1>1, GoToFacts DEF OwnInv, CallStages
<1>3. /\ names'[c]["metric_host_name"] = host
      /\ names'[c]["metric_api_name"] = names[c]["metric_api_name"]
      /\ \A d \in Contexts \ {c} : names'[d] = names[d]
  <2>1. host \in Names \cup {NoName, Absent}
    BY <1>2 DEF Calls, OwnNames, Attributes
  <2> QED
    BY <1>1, <1>2, <2>1, SetNameFacts DEF OwnInv, Attributes
<1> HIDE DEF host
<1>4. In(c)' = In(c) /\ t \in In(c) /\ In(calls[t].context)' = In(c)'
  BY <1>1, <1>2 DEF In
<1>5. t \in clean => AloneInv(t)'
  BY <1>1, <1>2, <1>3, <1>4 DEF AloneInv, NamesInv, host
<1>6. ContextInv(c)'
  <2>1. ContextInv(c)
    BY <1>2 DEF NamesInv
  <2> QED
    BY <1>1, <1>2, <1>4, <2>1 DEF ContextInv
<1>7. \A u \in Threads \ {t} : u \in clean => u \notin In(c)
  BY <1>2, <1>4 DEF NamesInv, AloneInv, In
<1> QED
  BY <1>1, <1>2, <1>3, <1>5, <1>6, <1>7, OtherCalls DEF OwnInv, SessionsTypeOK

\* A call ends; the last thing it did was to delete an attribute.
LEMMA ReturnNames ==
  ASSUME OwnInv, NamesInv, NEW t \in Threads, calls[t] # Nobody, Return(t),
         \A d \in Contexts \ {calls[t].context} : names'[d] = names[d],
         \/ names'[calls[t].context]["metric_api_name"] = Absent
         \/ /\ calls[t].stage = "deleting"
            /\ names'[calls[t].context]["metric_api_name"] = names[calls[t].context]["metric_api_name"],
         t \in clean => names'[calls[t].context] = Unnamed
  PROVE  NamesInv'
<1> SUFFICES ASSUME NEW c \in Contexts, c = calls[t].context PROVE NamesInv'
  BY CalledIn
<1>1. /\ c \in Contexts /\ calls'[t] = Nobody
      /\ \A u \in Threads \ {t} : calls'[u] = calls[u]
  BY ReturnFacts DEF OwnInv
<1>2. /\ pid' = pid /\ clean' = clean \ {t}
      /\ overlapped' = IF t \in clean THEN overlapped \ {c} ELSE overlapped
  BY DEF Return, storage
<1>3. In(c)' = In(c) \ {t} /\ t \in In(c)
  BY <1>1 DEF In
<1>4. t \in clean => In(c) = {t}
  BY DEF NamesInv, AloneInv
<1>5. \A u \in In(c) : u \in Threads /\ calls[u] # Nobody /\ calls[u].context = c
  BY DEF In
<1>6. ContextInv(c)
  BY <1>1 DEF NamesInv
<1>7. pid = 0 /\ (\A u \in In(c)' : calls'[u].stage = "deleting") => names'[c]["metric_api_name"] = Absent
  <2>1. CASE names'[c]["metric_api_name"] = Absent
    BY <2>1
  <2>2. CASE calls[t].stage = "deleting" /\ names'[c]["metric_api_name"] = names[c]["metric_api_name"]
    <3>1. (\A u \in In(c)' : calls'[u].stage = "deleting") => \A u \in In(c) : calls[u].stage = "deleting"
      BY <1>1, <1>3, <1>5, <2>2
    <3> QED
      BY <1>6, <2>2, <3>1 DEF ContextInv
  <2> QED
    BY <2>1, <2>2
<1>8. ContextInv(c)'
  <2>1. CASE t \in clean
    <3>1. names'[c] = Unnamed
      BY <2>1
    <3> QED
      BY <1>2, <1>3, <1>4, <1>7, <2>1, <3>1 DEF ContextInv
  <2>2. CASE t \notin clean
    <3>1. c \in overlapped /\ c \in overlapped'
      BY <1>2, <1>3, <1>6, <2>2 DEF ContextInv
    <3> QED
      BY <1>2, <1>7, <3>1 DEF ContextInv
  <2> QED
    BY <2>1, <2>2
<1>9. \A u \in Threads \ {t} : u \in clean => u \notin In(c)
  BY <1>3, <1>5 DEF NamesInv, AloneInv
<1>10. /\ clean' \subseteq Threads /\ t \notin clean'
       /\ \A u \in Threads \ {t} : u \in clean' <=> u \in clean
       /\ \A d \in Contexts \ {c} : d \in overlapped' <=> d \in overlapped
  BY <1>2 DEF OwnInv, SessionsTypeOK
<1> QED
  BY <1>1, <1>2, <1>8, <1>9, <1>10, OtherCalls

\* The name for the api is deleted, or has been.
LEMMA DeleteApiNames ==
  ASSUME OwnInv, NamesInv, NEW t \in Threads, DeleteApi(t)
  PROVE  NamesInv'
<1> SUFFICES ASSUME NEW c \in Contexts, c = calls[t].context PROVE NamesInv'
  BY CalledIn DEF DeleteApi, At
<1>1. /\ calls[t] # Nobody /\ calls[t].stage = "sent"
      /\ SetName(c, "metric_api_name", Absent)
      /\ IF names[c]["metric_api_name"] = Absent
         THEN Return(t)
         ELSE GoTo(t, "deleting") /\ UNCHANGED <<storage, clean, overlapped>>
  BY DEF DeleteApi, At
<1>2. calls[t] \in Calls /\ c \in Contexts
  BY <1>1 DEF OwnInv, SessionsTypeOK, Calls
<1>3. /\ names'[c]["metric_api_name"] = Absent
      /\ \A d \in Contexts \ {c} : names'[d] = names[d]
  BY <1>1, <1>2, SetNameFacts DEF OwnInv, Attributes
<1>4. CASE names[c]["metric_api_name"] = Absent
  <2>1. t \notin clean
    <3>1. calls[t].own["metric_api_name"] # Absent
      BY <1>2, SessionsAssumption DEF Calls, OwnNames, Attributes
    <3> QED
      BY <1>1, <1>4, <3>1 DEF NamesInv, AloneInv
  <2> QED
    BY <1>1, <1>3, <1>4, <2>1, ReturnNames
<1>5. CASE names[c]["metric_api_name"] # Absent
  <2>1. /\ GoTo(t, "deleting") /\ pid' = pid /\ clean' = clean /\ overlapped' = overlapped
    BY <1>1, <1>5 DEF storage
  <2>2. /\ calls'[t] # Nobody /\ calls'[t].context = c /\ calls'[t].stage = "deleting"
        /\ \A u \in Threads \ {t} : calls'[u] = calls[u]
    BY <1>1, <2>1, GoToFacts DEF OwnInv, CallStages
  <2>3. In(c)' = In(c) /\ t \in In(c) /\ In(calls[t].context)' = In(c)'
    BY <1>1, <2>2 DEF In
  <2>4. ContextInv(c)
    BY <1>2 DEF NamesInv
  <2>5. t \in clean => AloneInv(t)'
    BY <1>1, <1>3, <2>2, <2>3 DEF AloneInv, NamesInv
  <2>6. \A u \in Threads \ {t} : u \in clean => u \notin In(c)
    BY <2>3 DEF NamesInv, AloneInv, In
  <2>7. ContextInv(c)'
    BY <1>3, <2>1, <2>3, <2>4 DEF ContextInv
  <2> QED
    BY <1>2, <1>3, <2>1, <2>2, <2>5, <2>6, <2>7, OtherCalls DEF OwnInv, SessionsTypeOK
<1> QED
  BY <1>4, <1>5

\* The name for the host is deleted, if it is there.
LEMMA DeleteHostNames ==
  ASSUME OwnInv, NamesInv, NEW t \in Threads, DeleteHost(t)
  PROVE  NamesInv'
<1> SUFFICES ASSUME NEW c \in Contexts, c = calls[t].context PROVE NamesInv'
  BY CalledIn DEF DeleteHost, At
<1>1. /\ calls[t] # Nobody /\ calls[t].stage = "deleting" /\ Return(t)
      /\ SetName(c, "metric_host_name", Absent)
  BY DEF DeleteHost, At
<1>2. calls[t] \in Calls /\ c \in Contexts
  BY <1>1 DEF OwnInv, SessionsTypeOK, Calls
<1>3. /\ names' \in [Contexts -> [Attributes -> Names \cup {NoName, Absent}]]
      /\ names'[c]["metric_host_name"] = Absent
      /\ names'[c]["metric_api_name"] = names[c]["metric_api_name"]
      /\ \A d \in Contexts \ {c} : names'[d] = names[d]
  BY <1>1, <1>2, SetNameFacts DEF OwnInv, Attributes
<1>4. t \in clean => names'[c]["metric_api_name"] = Absent
  BY <1>1, <1>3 DEF NamesInv, AloneInv
<1>5. t \in clean => names'[c] = Unnamed
  <2>1. names'[c] \in [Attributes -> Names \cup {NoName, Absent}]
    BY <1>2, <1>3
  <2> QED
    BY <1>3, <1>4, <2>1 DEF Unnamed, Attributes
<1> QED
  BY <1>1, <1>3, <1>5, ReturnNames

\* The names after each step.
LEMMA StepNames == OwnInv /\ NamesInv /\ [SessionsNext]_sessionsVars => NamesInv'
<1> SUFFICES ASSUME OwnInv, NamesInv, [SessionsNext]_sessionsVars PROVE NamesInv'
  OBVIOUS
<1>1. CASE UNCHANGED <<pid, metrics>>
  BY <1>1 DEF metrics, NamesInv, AloneInv, ContextInv, In
<1>2. CASE SessionsNext /\ ~UNCHANGED <<pid, metrics>>
  <2>1. PICK t \in Threads :
          \/ Fork(t)
          \/ \E session \in Sessions(t), own \in OwnNames, c \in Contexts : Request(t, session, own, c)
          \/ NameHost(t) \/ DeleteApi(t) \/ DeleteHost(t)
    BY <1>2 DEF SessionsNext, OwnNames, metrics,
       StartThread, Begin, SetSessions, Lookup, Create, AccessRaises, Wrap, Access
  <2>2. CASE Fork(t)
    <3>1. /\ pid' # 0 /\ clean' = {} /\ names' = names
          /\ overlapped' = overlapped \cup {c \in Contexts : In(c) # {}}
          /\ calls' = [u \in Threads |-> Nobody]
      BY <2>2 DEF Fork, OwnInv, SessionsTypeOK
    <3>2. ASSUME NEW c \in Contexts PROVE ContextInv(c)'
      <4>1. ContextInv(c)
        BY DEF NamesInv
      <4>2. In(c)' = {}
        BY <3>1 DEF In
      <4> QED
        BY <3>1, <4>1, <4>2 DEF ContextInv
    <3> QED
      BY <3>1, <3>2 DEF NamesInv
  <2> QED
    BY <2>1, <2>2, RequestNames, NameHostNames, DeleteApiNames, DeleteHostNames
<1> QED
  BY <1>1, <1>2 DEF sessionsVars, storage

\* A call that was alone in its context is counted under its own names and leaves
\* none, and a name for the api stays only in a process forked in a call.
THEOREM NamesAreOwn == SessionsSpec => []NamesOwn
<1>1. SessionsInit => NamesInv
  BY DEF SessionsInit, NamesInv, ContextInv, In, Unnamed, Attributes
<1>2. OwnInv /\ NamesInv => NamesOwn
  <2> SUFFICES ASSUME OwnInv, NamesInv PROVE NamesOwn
    OBVIOUS
  <2>1. ASSUME NEW t \in clean, NEW a \in Attributes, At(t, "sent")
        PROVE  Label(calls[t].context, a) = calls[t].own[a]
    <3>1. names[calls[t].context][a] = calls[t].own[a]
      BY <2>1 DEF At, NamesInv, AloneInv, Attributes
    <3>2. calls[t].own[a] # Absent
      <4>1. calls[t] \in Calls
        BY <2>1 DEF At, OwnInv, SessionsTypeOK
      <4> QED
        BY <4>1, SessionsAssumption DEF Calls, OwnNames
    <3> QED
      BY <3>1, <3>2 DEF Label
  <2>2. ASSUME NEW c \in Contexts, In(c) = {}
        PROVE  /\ c \notin overlapped => names[c] = Unnamed
               /\ pid = 0 => names[c]["metric_api_name"] = Absent
    BY <2>2 DEF NamesInv, ContextInv
  <2> QED
    BY <2>1, <2>2 DEF NamesOwn
<1> QED
  BY <1>1, <1>2, InitOwn, StepOwn, StepNames, PTL DEF SessionsSpec

=============================================================================
