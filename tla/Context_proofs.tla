---------------------------- MODULE Context_proofs ----------------------------
(***************************************************************************)
(* Proofs about the two parts of talisker/context.py.  First Deadlines:    *)
(* that a deadline gets to every service of a chain, and that statements   *)
(* are over in time, for any number of services, any timeouts and time     *)
(* zones, and any sizes of the units.  Then LogContext: that a reader of   *)
(* the extras gets the newest ones, that what identifies a job stays, that *)
(* records lose nothing and warnings end, for any keys, values and tasks.  *)
(***************************************************************************)
EXTENDS Deadlines, LogContext, FiniteSetTheorems, WellFoundedInduction, TLAPS

USE DeadlinesAssumption

\* A request on its way has the deadline of the service that sent it.
HeaderInv ==
  /\ message = "request" => stage = "ready" /\ depth < NumServices
  /\ message = "request" /\ depth # 0 =>
       header = IF deadline[depth] = None THEN None ELSE Isoformat(deadline[depth])

\* While a service is in execute(), the limit it has set is within what was left.
\* A statement that has one has not run longer than it.
StatementInv ==
  stage # "ready" =>
    /\ depth \in Services /\ message = "none"
    /\ stage = "set" => deadline[depth] # None /\ since <= now
    /\ stage = "running" => since <= begun /\ begun <= now
    /\ deadline[depth] # None =>
         /\ limit[depth] * PerMs <= deadline[depth] - since
         /\ limit[depth] = 0 => deadline[depth] - since < PerMs
         /\ stage = "running" /\ limit[depth] # 0 => now <= begun + limit[depth] * PerMs

IInv == TypeOK /\ HeaderInv /\ StatementInv

-----------------------------------------------------------------------------
(* Numbers and dates.                                                      *)

\* A quotient times its divisor is no more than what was divided, and zero
\* only if that is less than the divisor.
LEMMA DivFacts ==
  ASSUME NEW a \in Nat, NEW b \in Nat \ {0}
  PROVE  /\ a \div b \in Nat
         /\ (a \div b) * b <= a
         /\ a \div b = 0 => a < b
<1>1. a \div b \in Nat
  OBVIOUS
<1>2. a = b * (a \div b) + (a % b)
  OBVIOUS
<1>3. a % b \in 0..(b - 1)
  OBVIOUS
<1> QED
  BY <1>1, <1>2, <1>3

\* A relative deadline is an instant.
LEMMA AfterFacts ==
  ASSUME NEW t \in Nat, NEW ms \in Timeouts
  PROVE  After(t, ms) \in Int
<1>1. ms \in Nat /\ ms * PerMs \in Nat
  OBVIOUS
<1> QED
  BY <1>1 DEF After

\* A formatted instant is a header.
LEMMA IsoformatFacts ==
  ASSUME NEW d \in Int
  PROVE  /\ Isoformat(d) \in Headers /\ Isoformat(d) # None
         /\ Isoformat(d).at = d
         /\ Isoformat(d).fraction <=> (d % PerSecond) # 0
<1>1. Isoformat(d) \in [at : Int, fraction : BOOLEAN]
  BY DEF Isoformat
<1>2. Isoformat(d).at = d
  BY DEF Isoformat
<1>3. Isoformat(d).fraction = ((d % PerSecond) # 0)
  BY Zenon DEF Isoformat
<1> QED
  BY <1>1, <1>2, <1>3 DEF Headers

\* A request comes with an instant as its deadline, or with none.
LEMMA ReceivedFacts ==
  ASSUME TypeOK, NEW s \in Services
  PROVE  Received(s) \in Int \cup {None}
<1>1. now \in Nat /\ zone[s] \in Int /\ header \in Headers
  <2>1. zone[s] \in Zones
    BY DEF TypeOK
  <2>2. zone[s] \in Int
    BY <2>1
  <2> QED
    BY <2>2 DEF TypeOK
<1>2. CASE header # None /\ header.fraction
  BY <1>1, <1>2 DEF Received, Headers
<1>3. CASE ~(header # None /\ header.fraction)
  <2>1. config[s] # None => After(now, config[s]) \in Int
    BY <1>1, AfterFacts DEF TypeOK
  <2> QED
    BY <1>3, <2>1 DEF Received
<1> QED
  BY <1>2, <1>3

-----------------------------------------------------------------------------
(* The types.                                                              *)

\* The three parts at the start.
LEMMA InitInv == Init => IInv
<1> SUFFICES ASSUME Init PROVE IInv
  OBVIOUS
<1>1. header \in Headers
  BY DEF Init, Headers
<1>2. TypeOK
  BY <1>1 DEF Init, TypeOK, Services
<1> QED
  BY <1>2 DEF Init, IInv, HeaderInv, StatementInv

\* The types after each step.
LEMMA NextTypeOK == IInv /\ [Next]_vars => TypeOK'
<1> SUFFICES ASSUME IInv, [Next]_vars PROVE TypeOK'
  OBVIOUS
<1> USE DEF IInv
<1>1. CASE Serve
  <2>1. depth + 1 \in Services
    BY <1>1 DEF Serve, TypeOK, HeaderInv, Services
  <2>2. Received(depth + 1) \in Int \cup {None}
    BY <2>1, ReceivedFacts
  <2> QED
    BY <1>1, <2>1, <2>2 DEF Serve, TypeOK, settings, connections, Services, Headers
<1>2. ASSUME NEW s \in Services, NEW ms \in Timeouts, Decorate(s, ms) PROVE TypeOK'
  <2>1. start[s] \in Nat
    BY DEF TypeOK
  <2>2. After(start[s], ms) \in Int
    BY <2>1, AfterFacts
  <2> QED
    BY <1>2, <2>2 DEF Decorate, TypeOK, settings, connections
<1>3. ASSUME NEW s \in Services, Send(s) PROVE TypeOK'
  <2>1. header' \in Headers
    BY <1>3, IsoformatFacts DEF Send, TypeOK, Headers
  <2> QED
    BY <1>3, <2>1 DEF Send, TypeOK, settings, connections
<1>4. ASSUME NEW s \in Services, Respond(s) PROVE TypeOK'
  BY <1>4 DEF Respond, Runs, TypeOK, settings, connections, Services
<1>5. ASSUME NEW s \in Services, ApplyTimeout(s) PROVE TypeOK'
  <2>1. Timeout(s) \in Nat
    BY <1>5, DivFacts DEF ApplyTimeout, InTime, Timeout, TypeOK
  <2> QED
    BY <1>5, <2>1 DEF ApplyTimeout, TypeOK, settings, contexts
<1>6. ASSUME NEW s \in Services, SetFails(s) PROVE TypeOK'
  BY <1>6 DEF SetFails, TypeOK, settings, contexts
<1>7. ASSUME NEW s \in Services, Execute(s) PROVE TypeOK'
  BY <1>7 DEF Execute, TypeOK, settings, contexts
<1>8. ASSUME NEW s \in Services, NEW t \in {"open", "aborted"}, StatementEnds(s, t) PROVE TypeOK'
  BY <1>8 DEF StatementEnds, TypeOK, settings, contexts
<1>9. ASSUME NEW s \in Services, EndTransaction(s) PROVE TypeOK'
  BY <1>9 DEF EndTransaction, TypeOK, settings, contexts
<1>10. CASE Tick
  BY <1>10 DEF Tick, TypeOK, settings, contexts, connections
<1>11. CASE UNCHANGED vars
  BY <1>11 DEF vars, TypeOK, settings, contexts, connections
<1> QED
  BY <1>1, <1>2, <1>3, <1>4, <1>5, <1>6, <1>7, <1>8, <1>9, <1>10, <1>11 DEF Next, ServiceStep

-----------------------------------------------------------------------------
(* The invariant.                                                          *)

\* Only a service that runs sends, and with its own deadline.
LEMMA NextHeaderInv == IInv /\ [Next]_vars => HeaderInv'
<1> SUFFICES ASSUME IInv, [Next]_vars PROVE HeaderInv'
  OBVIOUS
<1> USE DEF IInv, HeaderInv
<1>1. CASE Serve
  BY <1>1 DEF Serve
<1>2. ASSUME NEW s \in Services, NEW ms \in Timeouts, Decorate(s, ms) PROVE HeaderInv'
  BY <1>2 DEF Decorate, Runs, connections
<1>3. ASSUME NEW s \in Services, Send(s) PROVE HeaderInv'
  BY <1>3 DEF Send, Runs, connections
<1>4. ASSUME NEW s \in Services, Respond(s) PROVE HeaderInv'
  BY <1>4 DEF Respond, Runs
<1>5. ASSUME NEW s \in Services, ApplyTimeout(s) PROVE HeaderInv'
  BY <1>5 DEF ApplyTimeout, Runs, contexts
<1>6. ASSUME NEW s \in Services, SetFails(s) PROVE HeaderInv'
  BY <1>6 DEF SetFails, contexts
<1>7. ASSUME NEW s \in Services, Execute(s) PROVE HeaderInv'
  BY <1>7 DEF Execute, Runs, contexts
<1>8. ASSUME NEW s \in Services, NEW t \in {"open", "aborted"}, StatementEnds(s, t) PROVE HeaderInv'
  BY <1>8 DEF StatementEnds, contexts
<1>9. ASSUME NEW s \in Services, EndTransaction(s) PROVE HeaderInv'
  BY <1>9 DEF EndTransaction, contexts
<1>10. CASE Tick
  BY <1>10 DEF Tick, contexts, connections
<1>11. CASE UNCHANGED vars
  BY <1>11 DEF vars, contexts, connections
<1> QED
  BY <1>1, <1>2, <1>3, <1>4, <1>5, <1>6, <1>7, <1>8, <1>9, <1>10, <1>11 DEF Next, ServiceStep

\* A limit is set from what is left, and kept while the statement runs.
LEMMA NextStatementInv == IInv /\ [Next]_vars => StatementInv'
<1> SUFFICES ASSUME IInv, [Next]_vars PROVE StatementInv'
  OBVIOUS
<1> USE DEF IInv, StatementInv
<1>1. CASE Serve
  BY <1>1 DEF Serve, HeaderInv, connections
<1>2. ASSUME NEW s \in Services, NEW ms \in Timeouts, Decorate(s, ms) PROVE StatementInv'
  BY <1>2 DEF Decorate, Runs, connections
<1>3. ASSUME NEW s \in Services, Send(s) PROVE StatementInv'
  BY <1>3 DEF Send, Runs, connections
<1>4. ASSUME NEW s \in Services, Respond(s) PROVE StatementInv'
  BY <1>4 DEF Respond, Runs, connections
<1>5. ASSUME NEW s \in Services, ApplyTimeout(s) PROVE StatementInv'
  <2>1. deadline[s] - now \in Nat
    BY <1>5 DEF ApplyTimeout, InTime, TypeOK
  <2>2. /\ Timeout(s) * PerMs <= deadline[s] - now
        /\ Timeout(s) = 0 => deadline[s] - now < PerMs
    BY <2>1, DivFacts DEF Timeout
  <2>3. limit'[s] = Timeout(s)
    BY <1>5 DEF ApplyTimeout, TypeOK
  <2> QED
    BY <1>5, <2>2, <2>3 DEF ApplyTimeout, Runs, contexts, TypeOK
<1>6. ASSUME NEW s \in Services, SetFails(s) PROVE StatementInv'
  BY <1>6 DEF SetFails
<1>7. ASSUME NEW s \in Services, Execute(s) PROVE StatementInv'
  <2>1. limit[s] * PerMs \in Nat
    BY DEF TypeOK
  <2>2. /\ s = depth /\ message = "none" /\ since' <= now
        /\ deadline[s] # None => stage = "set" /\ since' = since
    BY <1>7 DEF Execute, Runs, TypeOK
  <2> QED
    BY <1>7, <2>1, <2>2 DEF Execute, contexts, TypeOK
<1>8. ASSUME NEW s \in Services, NEW t \in {"open", "aborted"}, StatementEnds(s, t) PROVE StatementInv'
  BY <1>8 DEF StatementEnds
<1>9. ASSUME NEW s \in Services, EndTransaction(s) PROVE StatementInv'
  BY <1>9 DEF EndTransaction, Runs
<1>10. CASE Tick
  <2>1. stage # "ready" => limit[depth] * PerMs \in Nat
    BY DEF TypeOK
  <2> QED
    BY <1>10, <2>1 DEF Tick, contexts, connections, TypeOK
<1>11. CASE UNCHANGED vars
  BY <1>11 DEF vars, contexts, connections
<1> QED
  BY <1>1, <1>2, <1>3, <1>4, <1>5, <1>6, <1>7, <1>8, <1>9, <1>10, <1>11 DEF Next, ServiceStep

\* The three parts in each state.
LEMMA Invariance == Spec => []IInv
<1>1. Init => IInv
  BY InitInv
<1>2. IInv /\ [Next]_vars => IInv'
  BY NextTypeOK, NextHeaderInv, NextStatementInv DEF IInv
<1> QED
  BY <1>1, <1>2, PTL DEF Spec

-----------------------------------------------------------------------------
(* What a service has received.                                            *)

\* The deadline of service s comes from its caller, or from its configuration
\* (DeadlineTravels, service by service).
Handed(s) ==
  ~decorated[s] /\ deadline[s - 1] # None =>
    deadline[s] = IF (deadline[s - 1] % PerSecond) # 0 THEN deadline[s - 1] - zone[s]
                  ELSE IF config[s] # None THEN After(start[s], config[s]) ELSE None

\* A step keeps what a service has received, unless it is about that service.
LEMMA HandedKept ==
  ASSUME TypeOK, NEW s \in Services, s # 1, Handed(s),
         UNCHANGED settings,
         deadline'[s - 1] = deadline[s - 1], deadline'[s] = deadline[s],
         start'[s] = start[s], decorated'[s] = decorated[s]
  PROVE  Handed(s)'
BY DEF Handed, settings, After

\* A deadline gets to the next service as it is, whatever steps the others make.
LEMMA NextHanded == IInv /\ DeadlineTravels /\ [Next]_vars => DeadlineTravels'
<1> SUFFICES ASSUME IInv, DeadlineTravels, [Next]_vars, NEW s \in 2..depth'
             PROVE  Handed(s)'
  BY DEF DeadlineTravels, Handed
<1> USE DEF IInv
<1>1. s \in 2..depth => Handed(s)
  BY DEF DeadlineTravels, Handed
<1>2. CASE Serve
  <2>1. depth + 1 \in Services /\ depth' = depth + 1 /\ UNCHANGED settings
    BY <1>2 DEF Serve, HeaderInv, TypeOK, Services
  <2>2. CASE s = depth + 1
    <3>1. /\ depth = s - 1 /\ depth \in Services /\ depth # 0
          /\ deadline'[s - 1] = deadline[s - 1] /\ deadline'[s] = Received(s)
          /\ start'[s] = now
      BY <1>2, <2>1, <2>2 DEF Serve, TypeOK, Services
    <3>2. /\ message = "request"
          /\ header = IF deadline[s - 1] = None THEN None ELSE Isoformat(deadline[s - 1])
      BY <1>2, <3>1 DEF Serve, HeaderInv
    <3> SUFFICES ASSUME deadline[s - 1] # None
                 PROVE  deadline'[s] = IF (deadline[s - 1] % PerSecond) # 0
                                       THEN deadline[s - 1] - zone[s]
                                       ELSE IF config[s] # None
                                            THEN After(start'[s], config[s]) ELSE None
      BY <2>1, <3>1 DEF Handed, settings, After
    <3>3. deadline[s - 1] \in Int
      BY <3>1 DEF TypeOK
    <3>4. /\ header # None /\ header.at = deadline[s - 1]
          /\ header.fraction <=> (deadline[s - 1] % PerSecond) # 0
      BY <3>2, <3>3, IsoformatFacts
    <3> QED
      BY <3>1, <3>4 DEF Received
  <2>3. CASE s # depth + 1
    <3>1. s \in 2..depth /\ s \in Services /\ s - 1 # depth + 1
      BY <2>1, <2>3 DEF TypeOK, Services
    <3>2. /\ deadline'[s - 1] = deadline[s - 1] /\ deadline'[s] = deadline[s]
          /\ start'[s] = start[s] /\ decorated'[s] = decorated[s]
      BY <1>2, <2>1, <2>3, <3>1 DEF Serve, TypeOK, Services
    <3> QED
      BY <1>1, <2>1, <3>1, <3>2, HandedKept
  <2> QED
    BY <2>2, <2>3
<1>3. ASSUME NEW u \in Services, NEW ms \in Timeouts, Decorate(u, ms) PROVE Handed(s)'
  <2>1. u = depth /\ s \in 2..depth /\ s \in Services /\ UNCHANGED settings
    BY <1>3 DEF Decorate, Runs, TypeOK, Services
  <2>2. CASE s = u
    BY <1>3, <2>2 DEF Decorate, Handed, TypeOK
  <2>3. CASE s # u
    <3>1. s - 1 # u
      BY <2>1, <2>3 DEF Services
    <3>2. /\ deadline'[s - 1] = deadline[s - 1] /\ deadline'[s] = deadline[s]
          /\ start'[s] = start[s] /\ decorated'[s] = decorated[s]
      BY <1>3, <2>1, <2>3, <3>1 DEF Decorate, TypeOK, Services
    <3> QED
      BY <1>1, <2>1, <3>2, HandedKept
  <2> QED
    BY <2>2, <2>3
<1>4. ASSUME NEW u \in Services, Respond(u) PROVE Handed(s)'
  <2>1. u = depth /\ depth' = depth - 1 /\ UNCHANGED settings
    BY <1>4 DEF Respond, Runs
  <2>2. s \in 2..depth /\ s \in Services /\ s # u /\ s - 1 # u
    BY <2>1 DEF TypeOK, Services
  <2>3. /\ deadline'[s - 1] = deadline[s - 1] /\ deadline'[s] = deadline[s]
        /\ start'[s] = start[s] /\ decorated'[s] = decorated[s]
    BY <1>4, <2>1, <2>2 DEF Respond, TypeOK, Services
  <2> QED
    BY <1>1, <2>2, <2>1, <2>3, HandedKept
<1>5. CASE UNCHANGED <<settings, depth, start, deadline, decorated>>
  <2>1. s \in 2..depth /\ s \in Services
    BY <1>5 DEF TypeOK, Services
  <2> QED
    BY <1>1, <1>5, <2>1, HandedKept
<1>6. ASSUME NEW u \in Services,
             \/ Send(u) \/ ApplyTimeout(u) \/ SetFails(u) \/ Execute(u)
             \/ (\E t \in {"open", "aborted"} : StatementEnds(u, t)) \/ EndTransaction(u)
      PROVE  Handed(s)'
  BY <1>5, <1>6 DEF Send, ApplyTimeout, SetFails, Execute, StatementEnds, EndTransaction, contexts
<1>7. CASE Tick \/ UNCHANGED vars
  BY <1>5, <1>7 DEF Tick, vars, contexts
<1> QED
  BY <1>2, <1>3, <1>4, <1>6, <1>7 DEF Next, ServiceStep

-----------------------------------------------------------------------------
(* The theorems.                                                           *)

\* The model is type correct: no timeout that is set is negative.
THEOREM TypeCorrect == Spec => []TypeOK
<1>1. IInv => TypeOK
  BY DEF IInv
<1> QED
  BY <1>1, Invariance, PTL

\* A statement under a deadline (TaliskerCursor.execute) is over when the
\* deadline is and the time it took to send it, for any earlier timeouts of
\* the transaction, unless there was less than a millisecond left.
THEOREM StatementsEndInTime == Spec => []StatementsInTime
<1>1. IInv => StatementsInTime
  <2> SUFFICES ASSUME IInv, stage = "running", deadline[depth] # None, limit[depth] # 0
               PROVE  now <= deadline[depth] + (begun - since)
    BY DEF IInv, StatementInv, StatementsInTime
  <2>1. deadline[depth] \in Int /\ limit[depth] * PerMs \in Nat
    BY DEF IInv, StatementInv, TypeOK
  <2> QED
    BY <2>1 DEF IInv, StatementInv, TypeOK
<1> QED
  BY <1>1, Invariance, PTL

\* The deadline of a request goes down a chain of any length (send_wrapper and
\* __call__), except where a decorator, a whole second or a time zone stops it.
THEOREM DeadlineHandedOn == Spec => []DeadlineTravels
<1>1. Init => DeadlineTravels
  BY DEF Init, DeadlineTravels
<1>2. IInv /\ DeadlineTravels /\ [Next]_vars => DeadlineTravels'
  BY NextHanded
<1> QED
  BY <1>1, <1>2, Invariance, PTL DEF Spec

-----------------------------------------------------------------------------
(* Logging extras.                                                         *)

HIDE DeadlinesAssumption

-----------------------------------------------------------------------------
(* Induction and folds.                                                    *)

\* A set of numbers with a number in it has a least one.
LEMMA LeastNumber ==
  ASSUME NEW T \in SUBSET Nat, T # {}
  PROVE  \E x \in T : \A y \in T : x <= y
<1>1. PICK x \in T : \A y \in T : ~(<<y, x>> \in OpToRel(<, Nat))
  BY NatLessThanWellFounded, WFMin, Zenon
<1>2. \A y \in T : ~(y < x)
  BY <1>1 DEF OpToRel
<1> QED
  BY <1>2

\* Induction: a set of numbers that has zero and with each number the next one
\* has all, up to a bound.
LEMMA Induction ==
  ASSUME NEW n \in Nat, NEW T, 0 \in T, \A k \in 1..n : k - 1 \in T => k \in T
  PROVE  0..n \subseteq T
<1> SUFFICES ASSUME (0..n) \ T # {} PROVE FALSE
  OBVIOUS
<1>1. PICK x \in (0..n) \ T : \A y \in (0..n) \ T : x <= y
  <2> DEFINE S == (0..n) \ T
  <2>1. S \in SUBSET Nat /\ S # {}
    OBVIOUS
  <2> HIDE DEF S
  <2>2. \E x \in S : \A y \in S : x <= y
    BY <2>1, LeastNumber
  <2> QED
    BY <2>2 DEF S
<1>2. x # 0 /\ x \in 1..n /\ x - 1 \in 0..n
  BY <1>1
<1>3. x - 1 \in T
  BY <1>1, <1>2
<1> QED
  BY <1>1, <1>2, <1>3

\* The greatest and the least of some numbers.
LEMMA MaxMin ==
  ASSUME NEW n \in Nat, NEW S \in SUBSET (1..n), S # {}
  PROVE  /\ Max(S) \in S /\ \A y \in S : y <= Max(S)
         /\ Min(S) \in S /\ \A y \in S : Min(S) <= y
<1>1. \E x \in S : \A y \in S : x <= y
  BY LeastNumber
<1> DEFINE T == {n - y : y \in S}
<1>2. PICK z \in T : \A y \in T : z <= y
  <2>1. T \in SUBSET Nat /\ T # {}
    <3>1. \A y \in S : n - y \in Nat
      OBVIOUS
    <3> QED
      BY <3>1
  <2> HIDE DEF T
  <2> QED
    BY <2>1, LeastNumber
<1>3. \E x \in S : \A y \in S : x >= y
  <2>1. PICK x \in S : z = n - x
    OBVIOUS
  <2>2. ASSUME NEW y \in S PROVE x >= y
    <3>1. z <= n - y
      BY <1>2
    <3> QED
      BY <2>1, <3>1
  <2> QED
    BY <2>2
<1>4. Max(S) \in S /\ \A y \in S : Max(S) >= y
  <2> DEFINE P(x) == x \in S /\ \A y \in S : x >= y
  <2>1. Max(S) = CHOOSE x \in S : \A y \in S : x >= y
    BY DEF Max
  <2> QED
    BY <1>3, <2>1
<1>5. Min(S) \in S /\ \A y \in S : Min(S) <= y
  <2>1. Min(S) = CHOOSE x \in S : \A y \in S : x <= y
    BY DEF Min
  <2> QED
    BY <1>1, <2>1
<1> QED
  BY <1>4, <1>5

\* f is the fold of each set of indices: it begins with base, and F takes the
\* index that c chooses into the fold of the others.
IsFold(f, n, base, c, F) ==
  \A s \in SUBSET (1..n) : f[s] = IF s = {} THEN base ELSE F[<<c[s], f[s \ {c[s]}]>>]

\* A fold is well defined: over the indices of a sequence, chosen in any order,
\* with steps that stay in a set of results.
LEMMA FoldExists ==
  ASSUME NEW n \in Nat, NEW A, NEW base \in A,
         NEW c, \A s \in SUBSET (1..n) : s # {} => c[s] \in s,
         NEW F \in [(1..n) \X A -> A]
  PROVE  \E f \in [SUBSET (1..n) -> A] : IsFold(f, n, base, c, F)
<1> DEFINE D == SUBSET (1..n)
           Step(f, s) == IF s = {} THEN base ELSE F[<<c[s], f[s \ {c[s]}]>>]
           T == {k \in 0..n : \E f \in [D -> A] : \A s \in D : Cardinality(s) <= k => f[s] = Step(f, s)}
<1>1. \A s \in D : IsFiniteSet(s) /\ Cardinality(s) \in 0..n
  <2>1. IsFiniteSet(1..n) /\ Cardinality(1..n) = n
    BY FS_Interval
  <2>2. ASSUME NEW s \in SUBSET (1..n) PROVE IsFiniteSet(s) /\ Cardinality(s) \in 0..n
    <3>1. IsFiniteSet(s) /\ Cardinality(s) <= n
      <4> DEFINE R == 1..n
      <4>1. IsFiniteSet(R) /\ Cardinality(R) = n /\ s \in SUBSET R
        BY <2>1
      <4> HIDE DEF R
      <4> QED
        BY <4>1, FS_Subset
    <3>2. Cardinality(s) \in Nat
      BY <3>1, FS_CardinalityType
    <3> QED
      BY <3>1, <3>2
  <2> QED
    BY <2>2
<1>2. 0 \in T
  <2> DEFINE f == [s \in D |-> base]
  <2>1. f \in [D -> A]
    OBVIOUS
  <2>2. ASSUME NEW s \in D, Cardinality(s) <= 0 PROVE f[s] = Step(f, s)
    <3>1. s = {}
      BY <1>1, <2>2, FS_EmptySet
    <3> QED
      BY <3>1
  <2>3. 0 \in 0..n
    OBVIOUS
  <2> HIDE DEF f
  <2> QED
    BY <2>1, <2>2, <2>3
<1>3. ASSUME NEW k \in 1..n, k - 1 \in T PROVE k \in T
  <2>1. PICK f \in [D -> A] : \A s \in D : Cardinality(s) <= k - 1 => f[s] = Step(f, s)
    BY <1>3
  <2> DEFINE g == [s \in D |-> Step(f, s)]
  <2>2. \A s \in D : s # {} => c[s] \in s /\ c[s] \in 1..n /\ s \ {c[s]} \in D
    OBVIOUS
  <2>3. g \in [D -> A]
    BY <2>2
  <2>4. ASSUME NEW s \in D, Cardinality(s) <= k PROVE g[s] = Step(g, s)
    <3>1. CASE s = {}
      BY <3>1
    <3>2. CASE s # {}
      <4>1. s \ {c[s]} \in D /\ Cardinality(s \ {c[s]}) <= k - 1
        BY <1>1, <2>2, <2>4, <3>2, FS_RemoveElement
      <4>2. g[s \ {c[s]}] = f[s \ {c[s]}]
        BY <2>1, <4>1
      <4> QED
        BY <3>2, <4>2
    <3> QED
      BY <3>1, <3>2
  <2>5. k \in 0..n
    OBVIOUS
  <2> HIDE DEF g
  <2> QED
    BY <2>3, <2>4, <2>5
<1>4. n \in T
  <2> HIDE DEF T
  <2>1. 0..n \subseteq T
    BY <1>2, <1>3, Induction
  <2> QED
    BY <2>1
<1>5. PICK f \in [D -> A] : \A s \in D : Cardinality(s) <= n => f[s] = Step(f, s)
  BY <1>4
<1>6. \A s \in D : f[s] = Step(f, s)
  <2> HIDE DEF Step, D
  <2> QED
    BY <1>1, <1>5
<1> QED
  BY <1>6 DEF IsFold

\* The same from the left and from the right: each time the last of the indices
\* that are left, or the first.
LeftFold(f, n, base, F) ==
  \A s \in SUBSET (1..n) : f[s] = IF s = {} THEN base ELSE F[<<Max(s), f[s \ {Max(s)}]>>]

RightFold(f, n, base, F) ==
  \A s \in SUBSET (1..n) : f[s] = IF s = {} THEN base ELSE F[<<Min(s), f[s \ {Min(s)}]>>]

\* Such a fold exists from the left,
LEMMA LeftFoldExists ==
  ASSUME NEW n \in Nat, NEW A, NEW base \in A, NEW F \in [(1..n) \X A -> A]
  PROVE  \E f \in [SUBSET (1..n) -> A] : LeftFold(f, n, base, F)
<1> DEFINE c == [s \in SUBSET (1..n) |-> Max(s)]
<1>1. \A s \in SUBSET (1..n) : s # {} => c[s] \in s
  BY MaxMin
<1>2. \A s \in SUBSET (1..n) : c[s] = Max(s)
  OBVIOUS
<1> HIDE DEF c
<1>3. PICK f \in [SUBSET (1..n) -> A] : IsFold(f, n, base, c, F)
  BY <1>1, FoldExists, Zenon
<1>4. ASSUME NEW s \in SUBSET (1..n)
      PROVE  f[s] = IF s = {} THEN base ELSE F[<<Max(s), f[s \ {Max(s)}]>>]
  BY <1>2, <1>3 DEF IsFold
<1> QED
  BY <1>4 DEF LeftFold

\* and from the right.
LEMMA RightFoldExists ==
  ASSUME NEW n \in Nat, NEW A, NEW base \in A, NEW F \in [(1..n) \X A -> A]
  PROVE  \E f \in [SUBSET (1..n) -> A] : RightFold(f, n, base, F)
<1> DEFINE c == [s \in SUBSET (1..n) |-> Min(s)]
<1>1. \A s \in SUBSET (1..n) : s # {} => c[s] \in s
  BY MaxMin
<1>2. \A s \in SUBSET (1..n) : c[s] = Min(s)
  OBVIOUS
<1> HIDE DEF c
<1>3. PICK f \in [SUBSET (1..n) -> A] : IsFold(f, n, base, c, F)
  BY <1>1, FoldExists, Zenon
<1>4. ASSUME NEW s \in SUBSET (1..n)
      PROVE  f[s] = IF s = {} THEN base ELSE F[<<Min(s), f[s \ {Min(s)}]>>]
  BY <1>2, <1>3 DEF IsFold
<1> QED
  BY <1>4 DEF RightFold

\* The indices up to k, and those from k on.
LEMMA Segments ==
  ASSUME NEW n \in Nat, NEW k \in 1..n
  PROVE  /\ 1..k \in SUBSET (1..n) /\ 1..k # {} /\ Max(1..k) = k /\ (1..k) \ {k} = 1..(k - 1)
         /\ k..n \in SUBSET (1..n) /\ k..n # {} /\ Min(k..n) = k /\ (k..n) \ {k} = (k + 1)..n
<1>1. 1..k \in SUBSET (1..n) /\ k \in 1..k /\ k..n \in SUBSET (1..n) /\ k \in k..n
  OBVIOUS
<1>2. Max(1..k) \in 1..k /\ k <= Max(1..k)
  BY <1>1, MaxMin
<1>3. Min(k..n) \in k..n /\ Min(k..n) <= k
  BY <1>1, MaxMin
<1> QED
  BY <1>1, <1>2, <1>3

-----------------------------------------------------------------------------
(* Updates: d.update(e) is a chain of assignments.                         *)

\* An assignment makes a dict of a dict.
LEMMA AssignType ==
  ASSUME NEW I, NEW d \in Seq(I), NEW item \in I
  PROVE  Assign(d, item) \in Seq(I)
<1>1. CASE item.name \in NamesOf(d)
  <2>1. Assign(d, item) = [i \in 1..Len(d) |-> IF d[i].name = item.name THEN item ELSE d[i]]
    BY <1>1 DEF Assign
  <2>2. \A i \in 1..Len(d) : (IF d[i].name = item.name THEN item ELSE d[i]) \in I
    OBVIOUS
  <2> QED
    BY <2>1, <2>2
<1>2. CASE item.name \notin NamesOf(d)
  BY <1>2 DEF Assign
<1> QED
  BY <1>1, <1>2

\* What d becomes, item by item of e.
UpdateSteps(g, d, e) ==
  /\ g[0] = d /\ g[Len(e)] = Update(d, e)
  /\ \A k \in 1..Len(e) : g[k] = Assign(g[k - 1], e[k])

\* An update makes these steps.
LEMMA UpdateFold ==
  ASSUME NEW I, NEW d \in Seq(I), NEW e \in Seq(I)
  PROVE  \E g \in [0..Len(e) -> Seq(I)] : UpdateSteps(g, d, e)
<1> DEFINE n == Len(e)
           A == Seq(I)
           F == [p \in (1..n) \X A |-> Assign(p[2], e[p[1]])]
           IsIter(f) == f = [s \in SUBSET (1..n) |-> IF s = {} THEN d ELSE Assign(f[s \ {Max(s)}], e[Max(s)])]
<1>0. n \in Nat /\ DOMAIN e = 1..n
  OBVIOUS
<1>1. F \in [(1..n) \X A -> A]
  <2>1. ASSUME NEW p \in (1..n) \X A PROVE Assign(p[2], e[p[1]]) \in A
    <3>1. p[2] \in Seq(I) /\ p[1] \in 1..n /\ e[p[1]] \in I
      OBVIOUS
    <3> QED
      BY <3>1, AssignType
  <2> QED
    BY <2>1
<1>2. \A k \in 1..n, a \in A : F[<<k, a>>] = Assign(a, e[k])
  OBVIOUS
<1>3. PICK f \in [SUBSET (1..n) -> A] : LeftFold(f, n, d, F)
  <2> HIDE DEF F, A, n
  <2>1. d \in A
    BY DEF A
  <2> QED
    BY <1>0, <1>1, <2>1, LeftFoldExists, Zenon
<1>4. IsIter(f)
  <2>1. ASSUME NEW s \in SUBSET (1..n)
        PROVE  f[s] = IF s = {} THEN d ELSE Assign(f[s \ {Max(s)}], e[Max(s)])
    <3>1. CASE s = {}
      BY <1>3, <3>1 DEF LeftFold
    <3>2. CASE s # {}
      <4>1. Max(s) \in 1..n /\ s \ {Max(s)} \in SUBSET (1..n)
        BY <1>0, <3>2, MaxMin
      <4>2. f[s \ {Max(s)}] \in A
        BY <4>1
      <4>3. f[s] = F[<<Max(s), f[s \ {Max(s)}]>>]
        BY <1>3, <3>2 DEF LeftFold
      <4> HIDE DEF F
      <4> QED
        BY <1>2, <3>2, <4>1, <4>2, <4>3
    <3> QED
      BY <3>1, <3>2
  <2> QED
    BY <2>1
<1> DEFINE iter == CHOOSE h : IsIter(h)
<1>5. IsIter(iter)
  <2> HIDE DEF IsIter
  <2> QED
    BY <1>4
<1>6. Update(d, e) = iter[DOMAIN e]
  BY <1>0, Zenon DEF Update, FoldLeft, MapThenFoldSet
<1> HIDE DEF iter
<1>7. \A s \in SUBSET (1..n) : iter[s] = IF s = {} THEN d ELSE Assign(iter[s \ {Max(s)}], e[Max(s)])
  BY <1>5
<1>8. iter[1..0] = d
  <2>1. 1..0 = {} /\ {} \in SUBSET (1..n)
    OBVIOUS
  <2> QED
    BY <1>7, <2>1, Zenon
<1>9. ASSUME NEW k \in 1..n PROVE iter[1..k] = Assign(iter[1..(k - 1)], e[k])
  <2>1. 1..k \in SUBSET (1..n) /\ 1..k # {} /\ Max(1..k) = k /\ (1..k) \ {k} = 1..(k - 1)
    BY <1>0, Segments
  <2> QED
    BY <1>7, <2>1
<1> DEFINE T == {k \in 0..n : iter[1..k] \in A}
<1>10. 0..n \subseteq T
  <2>1. 0 \in T
    BY <1>8
  <2>2. ASSUME NEW k \in 1..n, k - 1 \in T PROVE k \in T
    <3>1. iter[1..(k - 1)] \in Seq(I) /\ e[k] \in I
      BY <2>2
    <3>2. Assign(iter[1..(k - 1)], e[k]) \in Seq(I)
      BY <3>1, AssignType
    <3>3. iter[1..k] \in A
      BY <1>9, <3>2
    <3> QED
      BY <3>3
  <2> HIDE DEF T
  <2> QED
    BY <1>0, <2>1, <2>2, Induction
<1> DEFINE g == [k \in 0..n |-> iter[1..k]]
<1>11. g \in [0..n -> A]
  BY <1>10
<1>12. g[0] = d /\ g[n] = Update(d, e)
  BY <1>0, <1>6, <1>8
<1>13. \A k \in 1..n : g[k] = Assign(g[k - 1], e[k])
  BY <1>9
<1> HIDE DEF g
<1> QED
  BY <1>11, <1>12, <1>13 DEF UpdateSteps

-----------------------------------------------------------------------------
(* The flat dict: a chain of items that are added, for each dict.          *)

\* What is added is an item.
LEMMA AddType ==
  ASSUME NEW I, NEW d \in Seq(I), NEW item \in I
  PROVE  AddUnseen(d, item) \in Seq(I)
BY DEF AddUnseen

\* What the seen items d become, item by item of e.
MergeSteps(g, d, e) ==
  /\ g[0] = d /\ g[Len(e)] = Merge(e, d)
  /\ \A k \in 1..Len(e) : g[k] = AddUnseen(g[k - 1], e[k])

\* Merging makes these steps.
LEMMA MergeFold ==
  ASSUME NEW I, NEW d \in Seq(I), NEW e \in Seq(I)
  PROVE  \E g \in [0..Len(e) -> Seq(I)] : MergeSteps(g, d, e)
<1> DEFINE n == Len(e)
           A == Seq(I)
           F == [p \in (1..n) \X A |-> AddUnseen(p[2], e[p[1]])]
           IsIter(f) == f = [s \in SUBSET (1..n) |-> IF s = {} THEN d ELSE AddUnseen(f[s \ {Max(s)}], e[Max(s)])]
<1>0. n \in Nat /\ DOMAIN e = 1..n
  OBVIOUS
<1>1. F \in [(1..n) \X A -> A]
  <2>1. ASSUME NEW p \in (1..n) \X A PROVE AddUnseen(p[2], e[p[1]]) \in A
    <3>1. p[2] \in Seq(I) /\ p[1] \in 1..n /\ e[p[1]] \in I
      OBVIOUS
    <3> QED
      BY <3>1, AddType
  <2> QED
    BY <2>1
<1>2. \A k \in 1..n, a \in A : F[<<k, a>>] = AddUnseen(a, e[k])
  OBVIOUS
<1>3. PICK f \in [SUBSET (1..n) -> A] : LeftFold(f, n, d, F)
  <2> HIDE DEF F, A, n
  <2>1. d \in A
    BY DEF A
  <2> QED
    BY <1>0, <1>1, <2>1, LeftFoldExists, Zenon
<1>4. IsIter(f)
  <2>1. ASSUME NEW s \in SUBSET (1..n)
        PROVE  f[s] = IF s = {} THEN d ELSE AddUnseen(f[s \ {Max(s)}], e[Max(s)])
    <3>1. CASE s = {}
      BY <1>3, <3>1 DEF LeftFold
    <3>2. CASE s # {}
      <4>1. Max(s) \in 1..n /\ s \ {Max(s)} \in SUBSET (1..n)
        BY <1>0, <3>2, MaxMin
      <4>2. f[s \ {Max(s)}] \in A
        BY <4>1
      <4>3. f[s] = F[<<Max(s), f[s \ {Max(s)}]>>]
        BY <1>3, <3>2 DEF LeftFold
      <4> HIDE DEF F
      <4> QED
        BY <1>2, <3>2, <4>1, <4>2, <4>3
    <3> QED
      BY <3>1, <3>2
  <2> QED
    BY <2>1
<1> DEFINE iter == CHOOSE h : IsIter(h)
<1>5. IsIter(iter)
  <2> HIDE DEF IsIter
  <2> QED
    BY <1>4
<1>6. Merge(e, d) = iter[DOMAIN e]
  BY <1>0, Zenon DEF Merge, FoldLeft, MapThenFoldSet
<1> HIDE DEF iter
<1>7. \A s \in SUBSET (1..n) : iter[s] = IF s = {} THEN d ELSE AddUnseen(iter[s \ {Max(s)}], e[Max(s)])
  BY <1>5
<1>8. iter[1..0] = d
  <2>1. 1..0 = {} /\ {} \in SUBSET (1..n)
    OBVIOUS
  <2> QED
    BY <1>7, <2>1, Zenon
<1>9. ASSUME NEW k \in 1..n PROVE iter[1..k] = AddUnseen(iter[1..(k - 1)], e[k])
  <2>1. 1..k \in SUBSET (1..n) /\ 1..k # {} /\ Max(1..k) = k /\ (1..k) \ {k} = 1..(k - 1)
    BY <1>0, Segments
  <2> QED
    BY <1>7, <2>1
<1> DEFINE T == {k \in 0..n : iter[1..k] \in A}
<1>10. 0..n \subseteq T
  <2>1. 0 \in T
    BY <1>8
  <2>2. ASSUME NEW k \in 1..n, k - 1 \in T PROVE k \in T
    <3>1. iter[1..(k - 1)] \in Seq(I) /\ e[k] \in I
      BY <2>2
    <3>2. AddUnseen(iter[1..(k - 1)], e[k]) \in Seq(I)
      BY <3>1, AddType
    <3>3. iter[1..k] \in A
      BY <1>9, <3>2
    <3> QED
      BY <3>3
  <2> HIDE DEF T
  <2> QED
    BY <1>0, <2>1, <2>2, Induction
<1> DEFINE g == [k \in 0..n |-> iter[1..k]]
<1>11. g \in [0..n -> A]
  BY <1>10
<1>12. g[0] = d /\ g[n] = Merge(e, d)
  BY <1>0, <1>6, <1>8
<1>13. \A k \in 1..n : g[k] = AddUnseen(g[k - 1], e[k])
  BY <1>9
<1> HIDE DEF g
<1> QED
  BY <1>11, <1>12, <1>13 DEF MergeSteps

\* Merging makes a dict of dicts.
LEMMA MergeType ==
  ASSUME NEW I, NEW d \in Seq(I), NEW e \in Seq(I)
  PROVE  Merge(e, d) \in Seq(I)
<1>1. PICK g \in [0..Len(e) -> Seq(I)] : MergeSteps(g, d, e)
  BY MergeFold
<1>2. Len(e) \in 0..Len(e)
  OBVIOUS
<1> QED
  BY <1>1, <1>2 DEF MergeSteps

\* The flat dict, from the top of the stack e down.
FlattenSteps(g, e) ==
  /\ g[0] = <<>> /\ g[Len(e)] = Flatten(e)
  /\ \A k \in 1..Len(e) : g[k] = Merge(e[Len(e) + 1 - k], g[k - 1])

\* Flattening makes these steps.
LEMMA FlattenFold ==
  ASSUME NEW I, NEW e \in Seq(Seq(I))
  PROVE  \E g \in [0..Len(e) -> Seq(I)] : FlattenSteps(g, e)
<1> DEFINE n == Len(e)
           A == Seq(I)
           F == [p \in (1..n) \X A |-> Merge(e[p[1]], p[2])]
           IsIter(f) == f = [s \in SUBSET (1..n) |-> IF s = {} THEN <<>> ELSE Merge(e[Min(s)], f[s \ {Min(s)}])]
<1>0. n \in Nat /\ DOMAIN e = 1..n
  OBVIOUS
<1>1. F \in [(1..n) \X A -> A]
  <2>1. ASSUME NEW p \in (1..n) \X A PROVE Merge(e[p[1]], p[2]) \in A
    <3>1. p[2] \in Seq(I) /\ p[1] \in 1..n /\ e[p[1]] \in Seq(I)
      OBVIOUS
    <3> QED
      BY <3>1, MergeType
  <2> QED
    BY <2>1
<1>2. \A k \in 1..n, a \in A : F[<<k, a>>] = Merge(e[k], a)
  OBVIOUS
<1>3. PICK f \in [SUBSET (1..n) -> A] : RightFold(f, n, <<>>, F)
  <2> HIDE DEF F, A, n
  <2>1. <<>> \in A
    BY DEF A
  <2> QED
    BY <1>0, <1>1, <2>1, RightFoldExists, Zenon
<1>4. IsIter(f)
  <2>1. ASSUME NEW s \in SUBSET (1..n)
        PROVE  f[s] = IF s = {} THEN <<>> ELSE Merge(e[Min(s)], f[s \ {Min(s)}])
    <3>1. CASE s = {}
      BY <1>3, <3>1 DEF RightFold
    <3>2. CASE s # {}
      <4>1. Min(s) \in 1..n /\ s \ {Min(s)} \in SUBSET (1..n)
        BY <1>0, <3>2, MaxMin
      <4>2. f[s \ {Min(s)}] \in A
        BY <4>1
      <4>3. f[s] = F[<<Min(s), f[s \ {Min(s)}]>>]
        BY <1>3, <3>2 DEF RightFold
      <4> HIDE DEF F
      <4> QED
        BY <1>2, <3>2, <4>1, <4>2, <4>3
    <3> QED
      BY <3>1, <3>2
  <2> QED
    BY <2>1
<1> DEFINE iter == CHOOSE h : IsIter(h)
<1>5. IsIter(iter)
  <2> HIDE DEF IsIter
  <2> QED
    BY <1>4
<1>6. Flatten(e) = iter[DOMAIN e]
  BY <1>0, Zenon DEF Flatten, FoldRight, MapThenFoldSet
<1> HIDE DEF iter
<1>7. \A s \in SUBSET (1..n) : iter[s] = IF s = {} THEN <<>> ELSE Merge(e[Min(s)], iter[s \ {Min(s)}])
  BY <1>5
<1>8. iter[(n + 1)..n] = <<>>
  <2>1. (n + 1)..n = {} /\ {} \in SUBSET (1..n)
    BY <1>0
  <2> QED
    BY <1>7, <2>1, Zenon
<1>9. ASSUME NEW k \in 1..n
      PROVE  iter[(n + 1 - k)..n] = Merge(e[n + 1 - k], iter[(n + 1 - (k - 1))..n])
  <2> DEFINE j == n + 1 - k
  <2>1. j \in 1..n /\ j + 1 = n + 1 - (k - 1)
    BY <1>0
  <2> HIDE DEF j
  <2>2. j..n \in SUBSET (1..n) /\ j..n # {} /\ Min(j..n) = j /\ (j..n) \ {j} = (j + 1)..n
    BY <1>0, <2>1, Segments
  <2>3. iter[j..n] = Merge(e[j], iter[(j + 1)..n])
    BY <1>7, <2>2
  <2> QED
    BY <2>1, <2>3 DEF j
<1> DEFINE g == [k \in 0..n |-> iter[(n + 1 - k)..n]]
           T == {k \in 0..n : g[k] \in A}
<1>10. g[0] = <<>> /\ g[n] = Flatten(e)
  <2>1. n + 1 - 0 = n + 1 /\ n + 1 - n = 1 /\ 0 \in 0..n /\ n \in 0..n
    BY <1>0
  <2>2. g[0] = iter[(n + 1)..n] /\ g[n] = iter[1..n]
    BY <2>1
  <2> QED
    BY <1>0, <1>6, <1>8, <2>2
<1>11. \A k \in 1..n : g[k] = Merge(e[n + 1 - k], g[k - 1])
  BY <1>9
<1> HIDE DEF g
<1>12. 0..n \subseteq T
  <2>1. 0 \in T
    <3>1. <<>> \in Seq(I) /\ 0 \in 0..n
      BY <1>0
    <3> QED
      BY <1>10, <3>1
  <2>2. ASSUME NEW k \in 1..n, k - 1 \in T PROVE k \in T
    <3>1. g[k - 1] \in Seq(I) /\ e[n + 1 - k] \in Seq(I)
      BY <2>2
    <3>2. Merge(e[n + 1 - k], g[k - 1]) \in Seq(I)
      BY <3>1, MergeType
    <3>3. g[k] \in A
      BY <1>11, <3>2
    <3> QED
      BY <3>3
  <2> HIDE DEF T
  <2> QED
    BY <1>0, <2>1, <2>2, Induction
<1>13. g \in [0..n -> A]
  BY <1>12 DEF g
<1> HIDE DEF g
<1> QED
  BY <1>10, <1>11, <1>13 DEF FlattenSteps

-----------------------------------------------------------------------------
(* What is in a dict after an update and in the flat dict.                 *)

\* An OrderedDict has each name once.
Unique(d) == \A i, j \in DOMAIN d : d[i].name = d[j].name => i = j

\* An assignment: the names, the item itself, and the others.
LEMMA AssignFacts ==
  ASSUME NEW I, NEW d \in Seq(I), NEW item \in I
  PROVE  /\ NamesOf(Assign(d, item)) = NamesOf(d) \cup {item.name}
         /\ item \in Range(Assign(d, item))
         /\ \A x \in Range(d) : x.name # item.name => x \in Range(Assign(d, item))
         /\ Unique(d) => Unique(Assign(d, item))
<1> DEFINE a == Assign(d, item)
<1>1. CASE item.name \in NamesOf(d)
  <2>1. a = [i \in DOMAIN d |-> IF d[i].name = item.name THEN item ELSE d[i]]
    BY <1>1 DEF Assign
  <2>2. PICK k \in DOMAIN d : d[k].name = item.name
    BY <1>1 DEF NamesOf
  <2>3. DOMAIN a = DOMAIN d /\ \A i \in DOMAIN d : a[i].name = d[i].name
    BY <2>1
  <2>4. a[k] = item /\ \A i \in DOMAIN d : d[i].name # item.name => a[i] = d[i]
    BY <2>1, <2>2
  <2> HIDE DEF a
  <2>5. NamesOf(a) = NamesOf(d) \cup {item.name}
    BY <1>1, <2>3 DEF NamesOf
  <2>6. item \in Range(a) /\ \A x \in Range(d) : x.name # item.name => x \in Range(a)
    BY <2>2, <2>3, <2>4 DEF Range
  <2>7. Unique(d) => Unique(a)
    BY <2>3 DEF Unique
  <2> QED
    BY <2>5, <2>6, <2>7 DEF a
<1>2. CASE item.name \notin NamesOf(d)
  <2>1. a = Append(d, item)
    BY <1>2 DEF Assign
  <2>2. /\ DOMAIN a = DOMAIN d \cup {Len(d) + 1} /\ Len(d) + 1 \notin DOMAIN d
        /\ \A i \in DOMAIN d : a[i] = d[i]
        /\ a[Len(d) + 1] = item
    BY <2>1
  <2> HIDE DEF a
  <2>3. NamesOf(a) = NamesOf(d) \cup {item.name}
    BY <2>2 DEF NamesOf
  <2>4. item \in Range(a) /\ \A x \in Range(d) : x \in Range(a)
    BY <2>2 DEF Range
  <2>5. Unique(d) => Unique(a)
    BY <1>2, <2>2 DEF Unique, NamesOf
  <2> QED
    BY <2>3, <2>4, <2>5 DEF a
<1> QED
  BY <1>1, <1>2

\* d.update(e) has the names of both; what it keeps of d, and that it has all of e.
LEMMA UpdateFacts ==
  ASSUME NEW I, NEW d \in Seq(I), NEW e \in Seq(I)
  PROVE  /\ Update(d, e) \in Seq(I)
         /\ NamesOf(Update(d, e)) = NamesOf(d) \cup NamesOf(e)
         /\ Unique(d) => Unique(Update(d, e))
         /\ \A x \in Range(d) : x.name \notin NamesOf(e) => x \in Range(Update(d, e))
         /\ Unique(e) => Range(e) \subseteq Range(Update(d, e))
<1>0. PICK g \in [0..Len(e) -> Seq(I)] : UpdateSteps(g, d, e)
  BY UpdateFold
<1>1. /\ g[0] = d /\ g[Len(e)] = Update(d, e)
      /\ \A k \in 1..Len(e) : g[k] = Assign(g[k - 1], e[k])
  BY <1>0 DEF UpdateSteps
<1> DEFINE P(k) == /\ NamesOf(g[k]) = NamesOf(d) \cup {e[j].name : j \in 1..k}
                   /\ Unique(d) => Unique(g[k])
                   /\ \A x \in Range(d) : x.name \notin NamesOf(e) => x \in Range(g[k])
                   /\ Unique(e) => \A j \in 1..k : e[j] \in Range(g[k])
           T == {k \in 0..Len(e) : P(k)}
<1>2. Len(e) \in Nat /\ DOMAIN e = 1..Len(e)
  OBVIOUS
<1>3. 0 \in T
  BY <1>1, <1>2
<1>4. ASSUME NEW k \in 1..Len(e), k - 1 \in T PROVE k \in T
  <2>0. k - 1 \in 0..Len(e)
    BY <1>2
  <2>1. g[k - 1] \in Seq(I) /\ e[k] \in I /\ g[k] = Assign(g[k - 1], e[k])
    BY <1>1, <2>0
  <2>2. /\ NamesOf(g[k]) = NamesOf(g[k - 1]) \cup {e[k].name}
        /\ e[k] \in Range(g[k])
        /\ \A x \in Range(g[k - 1]) : x.name # e[k].name => x \in Range(g[k])
        /\ Unique(g[k - 1]) => Unique(g[k])
    BY <2>1, AssignFacts
  <2>3. P(k - 1)
    BY <1>4
  <2>4. NamesOf(g[k]) = NamesOf(d) \cup {e[j].name : j \in 1..k}
    <3>1. 1..k = (1..(k - 1)) \cup {k}
      OBVIOUS
    <3> QED
      BY <2>2, <2>3, <3>1
  <2>5. Unique(d) => Unique(g[k])
    BY <2>2, <2>3
  <2>6. ASSUME NEW x \in Range(d), x.name \notin NamesOf(e) PROVE x \in Range(g[k])
    <3>1. x \in Range(g[k - 1]) /\ x.name # e[k].name
      BY <2>3, <2>6, <1>2 DEF NamesOf
    <3> QED
      BY <2>2, <3>1
  <2>7. ASSUME Unique(e), NEW j \in 1..k PROVE e[j] \in Range(g[k])
    <3>1. CASE j = k
      BY <2>2, <3>1
    <3>2. CASE j # k
      <4>1. j \in 1..(k - 1) /\ j \in DOMAIN e /\ k \in DOMAIN e
        BY <1>2, <3>2
      <4>2. e[j].name # e[k].name
        BY <2>7, <3>2, <4>1 DEF Unique
      <4>3. e[j] \in Range(g[k - 1])
        BY <2>3, <2>7, <4>1
      <4> QED
        BY <2>2, <4>2, <4>3
    <3> QED
      BY <3>1, <3>2
  <2>8. P(k)
    BY <2>4, <2>5, <2>6, <2>7
  <2> HIDE DEF P
  <2> QED
    BY <2>8
<1>5. P(Len(e))
  <2> HIDE DEF P
  <2>1. 0..Len(e) \subseteq T
    <3> HIDE DEF T
    <3> QED
      BY <1>2, <1>3, <1>4, Induction
  <2>2. Len(e) \in 0..Len(e)
    BY <1>2
  <2> QED
    BY <2>1, <2>2
<1>6. {e[j].name : j \in 1..Len(e)} = NamesOf(e)
  BY <1>2 DEF NamesOf
<1>7. g[Len(e)] \in Seq(I)
  BY <1>2
<1>8. Range(e) = {e[j] : j \in 1..Len(e)}
  BY <1>2 DEF Range
<1> QED
  BY <1>1, <1>5, <1>6, <1>7, <1>8

\* Adding an item unless it has been seen.
LEMMA AddFacts ==
  ASSUME NEW I, NEW d \in Seq(I), NEW item \in I
  PROVE  /\ NamesOf(AddUnseen(d, item)) = NamesOf(d) \cup {item.name}
         /\ Unique(d) => Unique(AddUnseen(d, item))
         /\ \A x \in Range(AddUnseen(d, item)) : x \in Range(d) \/ (x = item /\ item.name \notin NamesOf(d))
<1> DEFINE a == AddUnseen(d, item)
<1>1. CASE item.name \in NamesOf(d)
  BY <1>1 DEF AddUnseen
<1>2. CASE item.name \notin NamesOf(d)
  <2>1. a = Append(d, item)
    BY <1>2 DEF AddUnseen
  <2>2. /\ DOMAIN a = DOMAIN d \cup {Len(d) + 1} /\ Len(d) + 1 \notin DOMAIN d
        /\ \A i \in DOMAIN d : a[i] = d[i]
        /\ a[Len(d) + 1] = item
    BY <2>1
  <2> HIDE DEF a
  <2>3. NamesOf(a) = NamesOf(d) \cup {item.name}
    BY <2>2 DEF NamesOf
  <2>4. \A x \in Range(a) : x \in Range(d) \/ x = item
    BY <2>2 DEF Range
  <2>5. Unique(d) => Unique(a)
    BY <1>2, <2>2 DEF Unique, NamesOf
  <2> QED
    BY <1>2, <2>3, <2>4, <2>5 DEF a
<1> QED
  BY <1>1, <1>2

\* One dict under those that were seen: its names, and its items but for those seen.
LEMMA MergeFacts ==
  ASSUME NEW I, NEW d \in Seq(I), NEW e \in Seq(I)
  PROVE  /\ NamesOf(Merge(e, d)) = NamesOf(d) \cup NamesOf(e)
         /\ Unique(d) => Unique(Merge(e, d))
         /\ \A x \in Range(Merge(e, d)) : x \in Range(d) \/ (x \in Range(e) /\ x.name \notin NamesOf(d))
<1>0. PICK g \in [0..Len(e) -> Seq(I)] : MergeSteps(g, d, e)
  BY MergeFold
<1>1. /\ g[0] = d /\ g[Len(e)] = Merge(e, d)
      /\ \A k \in 1..Len(e) : g[k] = AddUnseen(g[k - 1], e[k])
  BY <1>0 DEF MergeSteps
<1> DEFINE P(k) == /\ NamesOf(g[k]) = NamesOf(d) \cup {e[j].name : j \in 1..k}
                   /\ Unique(d) => Unique(g[k])
                   /\ \A x \in Range(g[k]) : x \in Range(d) \/ (x \in Range(e) /\ x.name \notin NamesOf(d))
           T == {k \in 0..Len(e) : P(k)}
<1>2. Len(e) \in Nat /\ DOMAIN e = 1..Len(e)
  OBVIOUS
<1>3. 0 \in T
  BY <1>1, <1>2
<1>4. ASSUME NEW k \in 1..Len(e), k - 1 \in T PROVE k \in T
  <2>1. g[k - 1] \in Seq(I) /\ e[k] \in I /\ g[k] = AddUnseen(g[k - 1], e[k])
    BY <1>1, <1>4
  <2>2. /\ NamesOf(g[k]) = NamesOf(g[k - 1]) \cup {e[k].name}
        /\ Unique(g[k - 1]) => Unique(g[k])
        /\ \A x \in Range(g[k]) : x \in Range(g[k - 1]) \/ (x = e[k] /\ e[k].name \notin NamesOf(g[k - 1]))
    BY <2>1, AddFacts
  <2>3. P(k - 1)
    BY <1>4
  <2>4. NamesOf(g[k]) = NamesOf(d) \cup {e[j].name : j \in 1..k}
    <3>1. 1..k = (1..(k - 1)) \cup {k}
      OBVIOUS
    <3> QED
      BY <2>2, <2>3, <3>1
  <2>5. Unique(d) => Unique(g[k])
    BY <2>2, <2>3
  <2>6. ASSUME NEW x \in Range(g[k])
        PROVE  x \in Range(d) \/ (x \in Range(e) /\ x.name \notin NamesOf(d))
    <3>1. e[k] \in Range(e)
      BY <1>2 DEF Range
    <3> QED
      BY <2>2, <2>3, <3>1
  <2>7. P(k)
    BY <2>4, <2>5, <2>6
  <2> HIDE DEF P
  <2> QED
    BY <2>7
<1>5. P(Len(e))
  <2> HIDE DEF P
  <2>1. 0..Len(e) \subseteq T
    <3> HIDE DEF T
    <3> QED
      BY <1>2, <1>3, <1>4, Induction
  <2>2. Len(e) \in 0..Len(e)
    BY <1>2
  <2> QED
    BY <2>1, <2>2
<1>6. {e[j].name : j \in 1..Len(e)} = NamesOf(e)
  BY <1>2 DEF NamesOf
<1> QED
  BY <1>1, <1>5, <1>6

\* x is what a reader of the dicts from m up gets under its name.
Topmost(s, m, x) ==
  \E j \in m..Len(s) : x \in Range(s[j]) /\ \A k \in j + 1..Len(s) : x.name \notin NamesOf(s[k])

\* The flat dict has each name of the stack once, with the value nearest to the top.
LEMMA FlattenFacts ==
  ASSUME NEW I, NEW s \in Seq(Seq(I))
  PROVE  /\ Flatten(s) \in Seq(I) /\ Unique(Flatten(s))
         /\ NamesOf(Flatten(s)) = UNION {NamesOf(s[j]) : j \in 1..Len(s)}
         /\ \A x \in Range(Flatten(s)) : Topmost(s, 1, x)
<1> DEFINE n == Len(s)
<1>0. PICK g \in [0..n -> Seq(I)] : FlattenSteps(g, s)
  BY FlattenFold
<1>1. /\ g[0] = <<>> /\ g[n] = Flatten(s)
      /\ \A k \in 1..n : g[k] = Merge(s[n + 1 - k], g[k - 1])
  BY <1>0 DEF FlattenSteps
<1> DEFINE P(k) == /\ Unique(g[k])
                   /\ NamesOf(g[k]) = UNION {NamesOf(s[j]) : j \in (n + 1 - k)..n}
                   /\ \A x \in Range(g[k]) : Topmost(s, n + 1 - k, x)
           T == {k \in 0..n : P(k)}
<1>2. n \in Nat /\ DOMAIN s = 1..n
  OBVIOUS
<1>3. 0 \in T
  <2>1. (n + 1 - 0)..n = {} /\ 0 \in 0..n
    BY <1>2
  <2>2. Unique(<<>>) /\ NamesOf(<<>>) = {} /\ Range(<<>>) = {}
    BY DEF Unique, NamesOf, Range
  <2> QED
    BY <1>1, <2>1, <2>2
<1>4. ASSUME NEW k \in 1..n, k - 1 \in T PROVE k \in T
  <2> DEFINE m == n + 1 - k
  <2>0. m \in 1..n /\ n + 1 - (k - 1) = m + 1 /\ m..n = (m + 1..n) \cup {m} /\ m \in Nat
    BY <1>2
  <2> HIDE DEF m
  <2>1. g[k - 1] \in Seq(I) /\ s[m] \in Seq(I) /\ g[k] = Merge(s[m], g[k - 1])
    <3>1. k - 1 \in 0..n
      BY <1>2
    <3>2. g[k - 1] \in Seq(I)
      BY <3>1
    <3>3. s[m] \in Seq(I)
      BY <2>0
    <3>4. g[k] = Merge(s[m], g[k - 1])
      BY <1>1 DEF m
    <3> QED
      BY <3>2, <3>3, <3>4
  <2>2. /\ NamesOf(g[k]) = NamesOf(g[k - 1]) \cup NamesOf(s[m])
        /\ Unique(g[k - 1]) => Unique(g[k])
        /\ \A x \in Range(g[k]) : x \in Range(g[k - 1]) \/ (x \in Range(s[m]) /\ x.name \notin NamesOf(g[k - 1]))
    BY <2>1, MergeFacts
  <2>3. /\ Unique(g[k - 1])
        /\ NamesOf(g[k - 1]) = UNION {NamesOf(s[j]) : j \in m + 1..n}
        /\ \A x \in Range(g[k - 1]) : Topmost(s, m + 1, x)
    BY <1>4, <2>0
  <2>4. NamesOf(g[k]) = UNION {NamesOf(s[j]) : j \in m..n}
    BY <2>0, <2>2, <2>3
  <2>5. Unique(g[k])
    BY <2>2, <2>3
  <2>6. ASSUME NEW x \in Range(g[k]) PROVE Topmost(s, m, x)
    <3>1. CASE x \in Range(g[k - 1])
      <4>1. Topmost(s, m + 1, x)
        BY <2>3, <3>1
      <4> QED
        BY <2>0, <4>1 DEF Topmost
    <3>2. CASE x \in Range(s[m]) /\ x.name \notin NamesOf(g[k - 1])
      <4>1. \A j \in m + 1..n : x.name \notin NamesOf(s[j])
        BY <2>3, <3>2
      <4> QED
        BY <2>0, <3>2, <4>1 DEF Topmost
    <3> QED
      BY <2>2, <3>1, <3>2
  <2>7. P(k)
    BY <2>4, <2>5, <2>6 DEF m
  <2> HIDE DEF P
  <2> QED
    BY <2>7
<1>5. P(n)
  <2> HIDE DEF P
  <2>1. 0..n \subseteq T
    <3> HIDE DEF T, n
    <3> QED
      BY <1>2, <1>3, <1>4, Induction
  <2>2. n \in 0..n
    BY <1>2
  <2> QED
    BY <2>1, <2>2
<1>6. n + 1 - n = 1
  BY <1>2
<1>7. g[n] \in Seq(I)
  BY <1>2
<1> QED
  BY <1>1, <1>5, <1>6, <1>7

\* The same, as FlatIsCurrent says it.
LEMMA FlatFacts ==
  ASSUME NEW I, stack \in Seq(Seq(I)), Flat = Flatten(stack)
  PROVE  FlatIsCurrent /\ Flat \in Seq(I) /\ Unique(Flat)
<1>1. /\ Flat \in Seq(I) /\ Unique(Flat)
      /\ NamesOf(Flat) = UNION {NamesOf(stack[j]) : j \in 1..Len(stack)}
      /\ \A x \in Range(Flat) : Topmost(stack, 1, x)
  BY FlattenFacts
<1>2. DOMAIN stack = 1..Len(stack)
  OBVIOUS
<1>3. UNION {NamesOf(stack[j]) : j \in 1..Len(stack)} = UNION {NamesOf(d) : d \in Range(stack)}
  BY <1>2 DEF Range
<1>4. ASSUME NEW i \in DOMAIN Flat
      PROVE  \E j \in DOMAIN stack :
               /\ Flat[i] \in Range(stack[j])
               /\ \A k \in j + 1..Len(stack) : Flat[i].name \notin NamesOf(stack[k])
  <2>1. Flat[i] \in Range(Flat)
    BY DEF Range
  <2>2. Topmost(stack, 1, Flat[i])
    BY <1>1, <2>1
  <2> QED
    BY <1>2, <2>2 DEF Topmost
<1> QED
  BY <1>1, <1>3, <1>4 DEF FlatIsCurrent

-----------------------------------------------------------------------------
(* Records.                                                                *)

Contents == Values \cup {"job", "global", "call", "id"}
Items == [name : Keys \X Nat, value : Contents]

\* What is in the dicts of a state.
DictsOK ==
  /\ requestId \in {"none", "id"}
  /\ stack \in Seq(Seq(Items)) /\ Flat = Flatten(stack)
  /\ globals \in Seq(Items) /\ Unique(globals)

\* The dict of the call, with what collides renamed, and what it becomes with the
\* context and the process.
OwnOf(extra) == Update(<<>>, Renamed(extra, NamesOf(Flat) \cup NamesOf(globals)))
AllOf(extra) == Update(Update(OwnOf(extra), Renamed(Flat, NamesOf(globals))), globals)

\* A record, by its cases.
LEMMA RecordCases ==
  ASSUME NEW extra
  PROVE  Record(extra) = IF Clash(extra) THEN extra
                         ELSE IF requestId = "none" THEN AllOf(extra)
                         ELSE Assign(AllOf(extra), Item(<<"request_id", 0>>, requestId))
BY DEF Record, AllOf, OwnOf

\* A dict with new names where they are taken.
LEMMA RenamedFacts ==
  ASSUME NEW d \in Seq(Items), NEW taken
  PROVE  /\ Renamed(d, taken) \in Seq(Items)
         /\ DOMAIN Renamed(d, taken) = DOMAIN d
         /\ \A i \in DOMAIN d :
              /\ d[i] \in Items
              /\ d[i].name \in taken => Renamed(d, taken)[i] = Item(Underscored(d[i].name), d[i].value)
              /\ d[i].name \notin taken => Renamed(d, taken)[i] = d[i]
<1> DEFINE R(i) == IF d[i].name \in taken THEN Item(Underscored(d[i].name), d[i].value) ELSE d[i]
<1>1. DOMAIN d = 1..Len(d) /\ Len(d) \in Nat
  OBVIOUS
<1>2. Renamed(d, taken) = [i \in 1..Len(d) |-> R(i)]
  BY <1>1 DEF Renamed
<1>3. ASSUME NEW i \in 1..Len(d) PROVE R(i) \in Items
  <2>1. d[i] \in Items /\ d[i].name \in Keys \X Nat /\ d[i].value \in Contents
    <3>1. d[i] \in Items
      BY <1>1
    <3> QED
      BY <3>1 DEF Items
  <2>2. Underscored(d[i].name) \in Keys \X Nat
    BY <2>1 DEF Underscored
  <2> QED
    BY <2>1, <2>2 DEF Items, Item
<1>4. Renamed(d, taken) \in Seq(Items)
  <2> HIDE DEF R
  <2> QED
    BY <1>1, <1>2, <1>3
<1> QED
  BY <1>1, <1>2, <1>4

\* The parts of a record are dicts; the names of its parts.
LEMMA AllOfFacts ==
  ASSUME DictsOK, NEW extra \in Seq(Items)
  PROVE  /\ OwnOf(extra) \in Seq(Items) /\ AllOf(extra) \in Seq(Items)
         /\ Flat \in Seq(Items) /\ Unique(Flat)
         /\ NamesOf(AllOf(extra)) = NamesOf(Renamed(extra, NamesOf(Flat) \cup NamesOf(globals)))
                                   \cup NamesOf(Renamed(Flat, NamesOf(globals))) \cup NamesOf(globals)
<1>1. Flat \in Seq(Items) /\ Unique(Flat)
  BY FlatFacts DEF DictsOK
<1>2. /\ Renamed(extra, NamesOf(Flat) \cup NamesOf(globals)) \in Seq(Items)
      /\ Renamed(Flat, NamesOf(globals)) \in Seq(Items)
  BY <1>1, RenamedFacts
<1>3. <<>> \in Seq(Items) /\ NamesOf(<<>>) = {}
  BY DEF NamesOf
<1>4. /\ OwnOf(extra) \in Seq(Items)
      /\ NamesOf(OwnOf(extra)) = NamesOf(Renamed(extra, NamesOf(Flat) \cup NamesOf(globals)))
  <2> DEFINE r == Renamed(extra, NamesOf(Flat) \cup NamesOf(globals))
             none == <<>>
  <2>1. r \in Seq(Items) /\ none \in Seq(Items) /\ NamesOf(none) = {} /\ OwnOf(extra) = Update(none, r)
    BY <1>2, <1>3 DEF OwnOf
  <2> HIDE DEF r, none
  <2>2. OwnOf(extra) \in Seq(Items) /\ NamesOf(OwnOf(extra)) = NamesOf(none) \cup NamesOf(r)
    <3>1. Update(none, r) \in Seq(Items) /\ NamesOf(Update(none, r)) = NamesOf(none) \cup NamesOf(r)
      <4>1. none \in Seq(Items) /\ r \in Seq(Items)
        BY <2>1
      <4> QED
        BY <4>1, UpdateFacts
    <3> QED
      BY <2>1, <3>1
  <2> QED
    BY <2>1, <2>2 DEF r
<1> DEFINE u == Update(OwnOf(extra), Renamed(Flat, NamesOf(globals)))
<1>5. /\ u \in Seq(Items)
      /\ NamesOf(u) = NamesOf(OwnOf(extra)) \cup NamesOf(Renamed(Flat, NamesOf(globals)))
  BY <1>2, <1>4, UpdateFacts
<1>6. AllOf(extra) = Update(u, globals) /\ globals \in Seq(Items)
  BY DEF AllOf, DictsOK
<1> HIDE DEF u
<1>7. AllOf(extra) \in Seq(Items) /\ NamesOf(AllOf(extra)) = NamesOf(u) \cup NamesOf(globals)
  BY <1>5, <1>6, UpdateFacts
<1> QED
  BY <1>1, <1>4, <1>5, <1>7

\* The item of the request id is one of a dict, and its name is fit.
LEMMA RequestIdFacts ==
  ASSUME requestId \in {"none", "id"}, requestId # "none"
  PROVE  /\ Item(<<"request_id", 0>>, requestId) \in Items
         /\ Item(<<"request_id", 0>>, requestId).name = <<"request_id", 0>>
         /\ "request_id" \notin Unfit
BY LogAssumption DEF Item, Items, Contents

-----------------------------------------------------------------------------
(* Collisions.                                                             *)

\* The plain names.
PlainNames == (Keys \ ({"request_id"} \cup Unfit)) \X {0}

\* A plain name has no underscore, and with one it is the name of no other.
LEMMA PlainFacts ==
  /\ PlainNames \subseteq Keys \X Nat
  /\ \A n \in PlainNames : n # <<"request_id", 0>> /\ Underscored(n) # <<"request_id", 0>>
  /\ \A n, m \in PlainNames : Underscored(n) # m /\ (Underscored(n) = Underscored(m) => n = m)
BY DEF PlainNames, Underscored

\* The dicts of calls.
LEMMA ExtrasAreDicts ==
  ASSUME NEW extra \in Extras
  PROVE  extra \in Seq(Items) /\ Unique(extra)
<1>0. \A k \in Keys, i \in {0, 1} : Item(<<k, i>>, "call") \in Items
  BY DEF Item, Items, Contents
<1>1. CASE extra = <<>>
  BY <1>1 DEF Unique
<1>2. CASE extra \in Singles({"call"})
  <2>1. PICK n \in Names : extra = <<Item(n, "call")>>
    BY <1>2 DEF Singles
  <2>2. PICK k \in Keys, i \in {0, 1} : n = <<k, i>>
    BY LogAssumption DEF Names
  <2>3. Item(n, "call") \in Items
    BY <1>0, <2>2
  <2> QED
    BY <2>1, <2>3 DEF Unique
<1>3. CASE extra \in {<<Item(<<k, i>>, "call"), Item(<<k, 1 - i>>, "call")>> : k \in Keys \ Unfit, i \in {0, 1}}
  <2>1. PICK k \in Keys, i \in {0, 1} : extra = <<Item(<<k, i>>, "call"), Item(<<k, 1 - i>>, "call")>>
    BY <1>3
  <2> DEFINE a == Item(<<k, i>>, "call")
             b == Item(<<k, 1 - i>>, "call")
  <2>2. 1 - i \in {0, 1} /\ i # 1 - i
    OBVIOUS
  <2>3. a \in Items /\ b \in Items
    BY <1>0, <2>2
  <2>4. a.name # b.name
    BY <2>2 DEF Item
  <2>5. extra = <<a, b>>
    BY <2>1
  <2> HIDE DEF a, b
  <2> QED
    BY <2>3, <2>4, <2>5 DEF Unique
<1> QED
  BY <1>1, <1>2, <1>3 DEF Extras

\* Renaming plain names that are taken: no two names become the same, and each
\* item is there under its name or with an underscore more.
LEMMA RenamedPlain ==
  ASSUME NEW d \in Seq(Items), Unique(d), NamesOf(d) \subseteq PlainNames, NEW taken
  PROVE  /\ Renamed(d, taken) \in Seq(Items) /\ Unique(Renamed(d, taken))
         /\ \A i \in DOMAIN d :
              /\ d[i].name \notin taken => d[i] \in Range(Renamed(d, taken))
              /\ d[i].name \in taken => Item(Underscored(d[i].name), d[i].value) \in Range(Renamed(d, taken))
         /\ \A n \in NamesOf(Renamed(d, taken)) :
              \/ n \in NamesOf(d) \ taken
              \/ \E m \in NamesOf(d) \cap taken : n = Underscored(m)
<1> DEFINE r == Renamed(d, taken)
<1>1. /\ r \in Seq(Items) /\ DOMAIN r = DOMAIN d
      /\ \A i \in DOMAIN d :
           /\ d[i].name \in taken => r[i] = Item(Underscored(d[i].name), d[i].value)
           /\ d[i].name \notin taken => r[i] = d[i]
  BY RenamedFacts
<1> HIDE DEF r
<1>2. \A i \in DOMAIN d : d[i].name \in NamesOf(d) /\ d[i].name \in PlainNames
  BY DEF NamesOf
<1>3. \A i \in DOMAIN d :
        /\ d[i].name \in taken => r[i].name = Underscored(d[i].name)
        /\ d[i].name \notin taken => r[i].name = d[i].name
  BY <1>1 DEF Item
<1>4. Unique(r)
  <2>1. ASSUME NEW i \in DOMAIN d, NEW j \in DOMAIN d, r[i].name = r[j].name
        PROVE  d[i].name = d[j].name
    BY <1>2, <1>3, <2>1, PlainFacts
  <2> QED
    BY <1>1, <2>1 DEF Unique
<1>5. \A i \in DOMAIN d : r[i] \in Range(r)
  BY <1>1 DEF Range
<1>6. ASSUME NEW n \in NamesOf(r)
      PROVE  n \in NamesOf(d) \ taken \/ \E m \in NamesOf(d) \cap taken : n = Underscored(m)
  <2>1. PICK i \in DOMAIN d : n = r[i].name
    BY <1>1 DEF NamesOf
  <2> QED
    BY <1>2, <1>3, <2>1
<1> QED
  BY <1>1, <1>4, <1>5, <1>6 DEF r

\* Without a clash, what the dicts become is in the record, but for what has the
\* name of the request id.
LEMMA RecordKeeps ==
  ASSUME DictsOK, NEW extra \in Seq(Items), ~Clash(extra),
         NEW y \in Range(AllOf(extra)), y.name # <<"request_id", 0>>
  PROVE  y \in Range(Record(extra))
<1>1. CASE requestId = "none"
  BY <1>1, RecordCases
<1>2. CASE requestId # "none"
  <2> DEFINE item == Item(<<"request_id", 0>>, requestId)
  <2>1. item \in Items /\ item.name = <<"request_id", 0>>
    BY <1>2, RequestIdFacts DEF DictsOK
  <2>2. Record(extra) = Assign(AllOf(extra), item)
    BY <1>2, RecordCases
  <2> HIDE DEF item
  <2>3. AllOf(extra) \in Seq(Items)
    BY AllOfFacts
  <2>4. y \in Range(Assign(AllOf(extra), item))
    BY <2>1, <2>3, AssignFacts
  <2> QED
    BY <2>2, <2>4
<1> QED
  BY <1>1, <1>2

\* The items of the process are in the record as they are; those of the call and
\* the context unless a later dict has the name.
LEMMA AllOfKeeps ==
  ASSUME DictsOK, NEW extra \in Seq(Items)
  PROVE  /\ Range(globals) \subseteq Range(AllOf(extra))
         /\ LET rf == Renamed(Flat, NamesOf(globals))
                re == Renamed(extra, NamesOf(Flat) \cup NamesOf(globals))
            IN  /\ \A y \in Range(rf) :
                     Unique(rf) /\ y.name \notin NamesOf(globals) => y \in Range(AllOf(extra))
                /\ \A y \in Range(re) :
                     Unique(re) /\ y.name \notin NamesOf(globals) \cup NamesOf(rf) => y \in Range(AllOf(extra))
<1> DEFINE rf == Renamed(Flat, NamesOf(globals))
           re == Renamed(extra, NamesOf(Flat) \cup NamesOf(globals))
           own == OwnOf(extra)
           u == Update(own, rf)
           none == <<>>
<1>1. Flat \in Seq(Items) /\ own \in Seq(Items) /\ none \in Seq(Items)
  BY AllOfFacts
<1>2. rf \in Seq(Items) /\ re \in Seq(Items) /\ globals \in Seq(Items) /\ Unique(globals)
  BY <1>1, RenamedFacts DEF DictsOK
<1>3. own = Update(none, re) /\ AllOf(extra) = Update(u, globals)
  BY DEF OwnOf, AllOf
<1> HIDE DEF rf, re, own, none
<1>4. Unique(re) => Range(re) \subseteq Range(own)
  <2>1. Unique(re) => Range(re) \subseteq Range(Update(none, re))
    BY <1>1, <1>2, UpdateFacts
  <2> QED
    BY <1>3, <2>1
<1>5. /\ u \in Seq(Items)
      /\ \A y \in Range(own) : y.name \notin NamesOf(rf) => y \in Range(u)
      /\ Unique(rf) => Range(rf) \subseteq Range(u)
  BY <1>1, <1>2, UpdateFacts
<1> HIDE DEF u
<1>6. /\ \A y \in Range(u) : y.name \notin NamesOf(globals) => y \in Range(AllOf(extra))
      /\ Range(globals) \subseteq Range(AllOf(extra))
  <2>1. /\ \A y \in Range(u) : y.name \notin NamesOf(globals) => y \in Range(Update(u, globals))
        /\ Range(globals) \subseteq Range(Update(u, globals))
    BY <1>2, <1>5, UpdateFacts
  <2> QED
    BY <1>3, <2>1
<1> QED
  BY <1>4, <1>5, <1>6 DEF rf, re

\* Plain names do not clash.
LEMMA PlainIsNoClash ==
  ASSUME NEW extra, Plain(extra)
  PROVE  /\ NamesOf(extra) \subseteq PlainNames /\ NamesOf(Flat) \subseteq PlainNames
         /\ NamesOf(globals) \subseteq PlainNames
         /\ ~Clash(extra)
<1>1. /\ NamesOf(extra) \subseteq PlainNames /\ NamesOf(Flat) \subseteq PlainNames
      /\ NamesOf(globals) \subseteq PlainNames
  BY DEF Plain, Sources, PlainNames
<1>2. ASSUME NEW name \in Unfit \X {0}
      PROVE  {d \in {1, 2, 3} : name \in NamesOf(<<extra, Flat, globals>>[d])} = {}
  <2>1. name \notin PlainNames
    BY DEF PlainNames
  <2>2. \A d \in {1, 2, 3} : NamesOf(<<extra, Flat, globals>>[d]) \subseteq PlainNames
    BY <1>1
  <2> QED
    BY <2>1, <2>2
<1>3. Cardinality({}) = 0
  BY FS_EmptySet
<1>4. ASSUME NEW name \in Unfit \X {0}
      PROVE  ~(Cardinality({d \in {1, 2, 3} : name \in NamesOf(<<extra, Flat, globals>>[d])}) > 1)
  BY <1>2, <1>3
<1>5. ~Clash(extra)
  BY <1>4, Zenon DEF Clash
<1> QED
  BY <1>1, <1>5

\* What collides is in the record: of the call, the context and the process in turn.
LEMMA CollisionsAreKept ==
  ASSUME DictsOK
  PROVE  CollisionsKept
<1> SUFFICES ASSUME NEW extra \in Extras
             PROVE  /\ Plain(extra) /\ NamesOf(extra) \cap NamesOf(Flat) \cap NamesOf(globals) = {} => AllKept(extra)
                    /\ \A i \in DOMAIN globals :
                         globals[i].name # <<"request_id", 0>> /\ ~Clash(extra) => globals[i] \in Range(Record(extra))
  BY DEF CollisionsKept
<1> DEFINE taken == NamesOf(Flat) \cup NamesOf(globals)
           re == Renamed(extra, taken)
           rf == Renamed(Flat, NamesOf(globals))
<1>1. extra \in Seq(Items) /\ Unique(extra)
  BY ExtrasAreDicts
<1>2. Flat \in Seq(Items) /\ Unique(Flat) /\ globals \in Seq(Items) /\ Unique(globals)
  BY <1>1, AllOfFacts DEF DictsOK
<1>3. /\ Range(globals) \subseteq Range(AllOf(extra))
      /\ \A y \in Range(rf) :
           Unique(rf) /\ y.name \notin NamesOf(globals) => y \in Range(AllOf(extra))
      /\ \A y \in Range(re) :
           Unique(re) /\ y.name \notin NamesOf(globals) \cup NamesOf(rf) => y \in Range(AllOf(extra))
  BY <1>1, AllOfKeeps
<1>4. ASSUME NEW i \in DOMAIN globals, globals[i].name # <<"request_id", 0>>, ~Clash(extra)
      PROVE  globals[i] \in Range(Record(extra))
  <2>1. globals[i] \in Range(AllOf(extra))
    BY <1>3 DEF Range
  <2> QED
    BY <1>1, <1>4, <2>1, RecordKeeps
<1>5. ASSUME Plain(extra), NamesOf(extra) \cap NamesOf(Flat) \cap NamesOf(globals) = {}
      PROVE  AllKept(extra)
  <2>1. /\ NamesOf(extra) \subseteq PlainNames /\ NamesOf(Flat) \subseteq PlainNames
        /\ NamesOf(globals) \subseteq PlainNames
        /\ ~Clash(extra)
    BY <1>5, PlainIsNoClash
  <2>2. ASSUME NEW x, NEW y \in Range(AllOf(extra)), x.name \in PlainNames,
               y.name \in {x.name, Underscored(x.name)}, y.value = x.value
        PROVE  Kept(x, Record(extra))
    <3>1. y.name # <<"request_id", 0>>
      BY <2>2, PlainFacts
    <3>2. y \in Range(Record(extra))
      BY <1>1, <2>1, <3>1, RecordKeeps
    <3> QED
      BY <2>2, <3>2 DEF Kept, Range
  <2>3. /\ Unique(re)
        /\ \A i \in DOMAIN extra :
             /\ extra[i].name \notin taken => extra[i] \in Range(re)
             /\ extra[i].name \in taken => Item(Underscored(extra[i].name), extra[i].value) \in Range(re)
    <3> HIDE DEF taken
    <3> QED
      BY <1>1, <2>1, RenamedPlain
  <2>4. /\ Unique(rf)
        /\ \A i \in DOMAIN Flat :
             /\ Flat[i].name \notin NamesOf(globals) => Flat[i] \in Range(rf)
             /\ Flat[i].name \in NamesOf(globals) => Item(Underscored(Flat[i].name), Flat[i].value) \in Range(rf)
        /\ \A n \in NamesOf(rf) :
              \/ n \in NamesOf(Flat) \ NamesOf(globals)
              \/ \E m \in NamesOf(Flat) \cap NamesOf(globals) : n = Underscored(m)
    BY <1>2, <2>1, RenamedPlain
  <2> HIDE DEF re, rf
  <2>5. ASSUME NEW i \in DOMAIN extra PROVE Kept(extra[i], Record(extra))
    <3>1. extra[i].name \in NamesOf(extra) /\ extra[i].name \in PlainNames
      BY <2>1 DEF NamesOf
    <3>2. CASE extra[i].name \notin taken
      <4>1. extra[i].name \notin NamesOf(globals) \cup NamesOf(rf)
        BY <2>1, <2>4, <3>1, <3>2, PlainFacts
      <4> QED
        BY <1>3, <2>2, <2>3, <3>1, <3>2, <4>1
    <3>3. CASE extra[i].name \in taken
      <4> DEFINE y == Item(Underscored(extra[i].name), extra[i].value)
      <4>1. y.name = Underscored(extra[i].name) /\ y.value = extra[i].value
        BY DEF Item
      <4>2. y \in Range(re)
        BY <2>3, <3>3
      <4> HIDE DEF y
      <4>3. y.name \notin NamesOf(globals)
        BY <2>1, <3>1, <4>1, PlainFacts
      <4>4. y.name \notin NamesOf(rf)
        <5>1. ASSUME NEW m \in NamesOf(Flat) \cap NamesOf(globals), y.name = Underscored(m)
              PROVE  FALSE
          <6>1. m = extra[i].name
            BY <2>1, <3>1, <4>1, <5>1, PlainFacts
          <6> QED
            BY <1>5, <3>1, <6>1
        <5>2. y.name \notin NamesOf(Flat)
          BY <2>1, <3>1, <4>1, PlainFacts
        <5> QED
          BY <2>4, <5>1, <5>2
      <4>5. y \in Range(AllOf(extra))
        BY <1>3, <2>3, <4>2, <4>3, <4>4
      <4> QED
        BY <2>2, <3>1, <4>1, <4>5
    <3> QED
      BY <3>2, <3>3
  <2>6. ASSUME NEW i \in DOMAIN Flat PROVE Kept(Flat[i], Record(extra))
    <3>1. Flat[i].name \in NamesOf(Flat) /\ Flat[i].name \in PlainNames
      BY <2>1 DEF NamesOf
    <3>2. CASE Flat[i].name \notin NamesOf(globals)
      <4>1. Flat[i] \in Range(AllOf(extra))
        BY <1>3, <2>4, <3>2
      <4> QED
        BY <2>2, <3>1, <4>1
    <3>3. CASE Flat[i].name \in NamesOf(globals)
      <4> DEFINE y == Item(Underscored(Flat[i].name), Flat[i].value)
      <4>1. y.name = Underscored(Flat[i].name) /\ y.value = Flat[i].value
        BY DEF Item
      <4>2. y \in Range(rf)
        BY <2>4, <3>3
      <4> HIDE DEF y
      <4>3. y.name \notin NamesOf(globals)
        BY <2>1, <3>1, <4>1, PlainFacts
      <4>4. y \in Range(AllOf(extra))
        BY <1>3, <2>4, <4>2, <4>3
      <4> QED
        BY <2>2, <3>1, <4>1, <4>4
    <3> QED
      BY <3>2, <3>3
  <2>7. ASSUME NEW i \in DOMAIN globals PROVE Kept(globals[i], Record(extra))
    <3>1. globals[i].name \in PlainNames
      BY <2>1 DEF NamesOf
    <3>2. globals[i] \in Range(AllOf(extra))
      BY <1>3 DEF Range
    <3> QED
      BY <2>2, <3>1, <3>2
  <2> QED
    BY <2>5, <2>6, <2>7 DEF AllKept, Sources
<1> QED
  BY <1>4, <1>5

-----------------------------------------------------------------------------
(* What is on the stack, and who has put it there.                         *)

\* The open with-blocks and the pushes of each task, numbered.
Entry == {"block", "push"} \X Tasks \X Nat
Slots(b, p) == {e \in Entry : e[3] \in DOMAIN (IF e[1] = "block" THEN b[e[2]] ELSE p[e[2]])}
Depth(b, p, e) == IF e[1] = "block" THEN b[e[2]][e[3]] ELSE p[e[2]][e[3]]

\* What unwinding to the i-th push of a task leaves and takes away with it: all
\* that began below its depth, its own pushes up to this one.
Below(b, p, t, i) ==
  {e \in Slots(b, p) : IF e[1] = "push" /\ e[2] = t THEN e[3] <= i ELSE Depth(b, p, e) < p[t][i]}

Depths == [Tasks -> Seq(Nat)]

\* g is f with a depth more of t.
IsAppended(f, t, x, g) ==
  /\ g \in Depths
  /\ DOMAIN g[t] = DOMAIN f[t] \cup {Len(f[t]) + 1} /\ Len(f[t]) + 1 \in Nat
  /\ Len(f[t]) + 1 \notin DOMAIN f[t] /\ \A i \in DOMAIN f[t] : i < Len(f[t]) + 1
  /\ g[t][Len(f[t]) + 1] = x /\ \A i \in DOMAIN f[t] : g[t][i] = f[t][i]
  /\ \A u \in Tasks \ {t} : g[u] = f[u]

\* A sequence of depths gets longer,
LEMMA Appended ==
  ASSUME NEW f \in Depths, NEW t \in Tasks, NEW x \in Nat,
         NEW g, g = [f EXCEPT ![t] = Append(@, x)]
  PROVE  IsAppended(f, t, x, g)
<1>1. f[t] \in Seq(Nat) /\ g[t] = Append(f[t], x) /\ \A u \in Tasks \ {t} : g[u] = f[u]
  BY DEF Depths
<1>2. g \in Depths
  BY DEF Depths
<1> DEFINE q == f[t]
<1>3. q \in Seq(Nat) /\ g[t] = Append(q, x)
  BY <1>1
<1> HIDE DEF q
<1>4. /\ DOMAIN Append(q, x) = DOMAIN q \cup {Len(q) + 1} /\ Len(q) + 1 \in Nat
      /\ Len(q) + 1 \notin DOMAIN q /\ \A i \in DOMAIN q : i < Len(q) + 1
      /\ Append(q, x)[Len(q) + 1] = x /\ \A i \in DOMAIN q : Append(q, x)[i] = q[i]
  BY <1>3
<1> QED
  BY <1>1, <1>2, <1>3, <1>4 DEF q, IsAppended

\* g is f without the last depth of t.
IsShortened(f, t, g) ==
  /\ g \in Depths
  /\ Len(f[t]) \in Nat /\ \A i : i \in DOMAIN f[t] <=> i \in DOMAIN g[t] \/ i = Len(f[t])
  /\ Len(f[t]) \notin DOMAIN g[t]
  /\ \A i \in DOMAIN g[t] : g[t][i] = f[t][i]
  /\ \A u \in Tasks \ {t} : g[u] = f[u]

\* and shorter.
LEMMA Shortened ==
  ASSUME NEW f \in Depths, NEW t \in Tasks, f[t] # <<>>,
         NEW g, g = [f EXCEPT ![t] = Front(@)]
  PROVE  IsShortened(f, t, g)
<1> DEFINE q == f[t]
<1>1. q \in Seq(Nat) /\ q # <<>> /\ g[t] = Front(q) /\ \A u \in Tasks \ {t} : g[u] = f[u]
  BY DEF Depths
<1> HIDE DEF q
<1>2. Len(q) \in Nat \ {0} /\ Len(q) - 1 \in Nat /\ DOMAIN q = 1..Len(q)
  BY <1>1
<1>3. Front(q) = [i \in 1..(Len(q) - 1) |-> q[i]]
  BY <1>1, <1>2 DEF Front
<1>4. Front(q) \in Seq(Nat) /\ DOMAIN Front(q) = 1..(Len(q) - 1) /\ \A i \in DOMAIN Front(q) : Front(q)[i] = q[i]
  BY <1>1, <1>2, <1>3
<1>5. DOMAIN q = DOMAIN Front(q) \cup {Len(q)} /\ Len(q) \notin DOMAIN Front(q)
      /\ \A i \in DOMAIN Front(q) : i < Len(q)
  BY <1>2, <1>4
<1>6. g \in Depths
  BY <1>1, <1>4 DEF Depths
<1> QED
  BY <1>1, <1>2, <1>4, <1>5, <1>6 DEF q, IsShortened

\* An entry is added or taken away; the others and their depths stay.
SlotAdded(b, p, c, q, e, x) ==
  /\ Slots(c, q) = Slots(b, p) \cup {e} /\ e \notin Slots(b, p) /\ Depth(c, q, e) = x
  /\ \A y \in Slots(b, p) : Depth(c, q, y) = Depth(b, p, y)

SlotTaken(b, p, c, q, e) ==
  /\ Slots(c, q) = Slots(b, p) \ {e} /\ e \in Slots(b, p)
  /\ \A y \in Slots(c, q) : Depth(c, q, y) = Depth(b, p, y)

\* A with-block is entered,
LEMMA BlockAdded ==
  ASSUME NEW b \in Depths, NEW p \in Depths, NEW t \in Tasks, NEW x \in Nat,
         NEW c, c = [b EXCEPT ![t] = Append(@, x)]
  PROVE  SlotAdded(b, p, c, p, <<"block", t, Len(b[t]) + 1>>, x)
<1>1. IsAppended(b, t, x, c)
  BY Appended
<1> QED
  BY <1>1 DEF SlotAdded, IsAppended, Slots, Depth, Entry

\* a dict is pushed,
LEMMA PushAdded ==
  ASSUME NEW b \in Depths, NEW p \in Depths, NEW t \in Tasks, NEW x \in Nat,
         NEW c, c = [p EXCEPT ![t] = Append(@, x)]
  PROVE  SlotAdded(b, p, b, c, <<"push", t, Len(p[t]) + 1>>, x)
<1>1. IsAppended(p, t, x, c)
  BY Appended
<1> QED
  BY <1>1 DEF SlotAdded, IsAppended, Slots, Depth, Entry

\* a with-block ends,
LEMMA BlockTaken ==
  ASSUME NEW b \in Depths, NEW p \in Depths, NEW t \in Tasks, b[t] # <<>>,
         NEW c, c = [b EXCEPT ![t] = Front(@)]
  PROVE  SlotTaken(b, p, c, p, <<"block", t, Len(b[t])>>)
<1>0. IsShortened(b, t, c)
  BY Shortened
<1>1. /\ c \in Depths
      /\ Len(b[t]) \in Nat /\ \A i : i \in DOMAIN b[t] <=> i \in DOMAIN c[t] \/ i = Len(b[t])
      /\ Len(b[t]) \notin DOMAIN c[t]
      /\ \A i \in DOMAIN c[t] : c[t][i] = b[t][i]
      /\ \A u \in Tasks \ {t} : c[u] = b[u]
  BY <1>0 DEF IsShortened
<1>2. ASSUME NEW e \in Entry
      PROVE  e \in Slots(c, p) <=> e \in Slots(b, p) /\ e # <<"block", t, Len(b[t])>>
  <2>1. CASE e[1] = "block" /\ e[2] = t
    BY <1>1, <2>1 DEF Slots, Entry
  <2>2. CASE ~(e[1] = "block" /\ e[2] = t)
    BY <1>1, <2>2 DEF Slots, Entry
  <2> QED
    BY <2>1, <2>2
<1>3. <<"block", t, Len(b[t])>> \in Slots(b, p)
  BY <1>1 DEF Slots, Entry
<1>4. ASSUME NEW e \in Slots(c, p) PROVE Depth(c, p, e) = Depth(b, p, e)
  BY <1>1 DEF Slots, Depth, Entry
<1>5. Slots(c, p) \subseteq Entry /\ Slots(b, p) \subseteq Entry
  BY DEF Slots
<1> QED
  BY <1>2, <1>3, <1>4, <1>5 DEF SlotTaken

\* and a push is taken back.
LEMMA PushTaken ==
  ASSUME NEW b \in Depths, NEW p \in Depths, NEW t \in Tasks, p[t] # <<>>,
         NEW c, c = [p EXCEPT ![t] = Front(@)]
  PROVE  SlotTaken(b, p, b, c, <<"push", t, Len(p[t])>>)
<1>0. IsShortened(p, t, c)
  BY Shortened
<1>1. /\ c \in Depths
      /\ Len(p[t]) \in Nat /\ \A i : i \in DOMAIN p[t] <=> i \in DOMAIN c[t] \/ i = Len(p[t])
      /\ Len(p[t]) \notin DOMAIN c[t]
      /\ \A i \in DOMAIN c[t] : c[t][i] = p[t][i]
      /\ \A u \in Tasks \ {t} : c[u] = p[u]
  BY <1>0 DEF IsShortened
<1>2. ASSUME NEW e \in Entry
      PROVE  e \in Slots(b, c) <=> e \in Slots(b, p) /\ e # <<"push", t, Len(p[t])>>
  <2>1. CASE e[1] = "push" /\ e[2] = t
    BY <1>1, <2>1 DEF Slots, Entry
  <2>2. CASE ~(e[1] = "push" /\ e[2] = t)
    BY <1>1, <2>2 DEF Slots, Entry
  <2> QED
    BY <2>1, <2>2
<1>3. <<"push", t, Len(p[t])>> \in Slots(b, p)
  BY <1>1 DEF Slots, Entry
<1>4. ASSUME NEW e \in Slots(b, c) PROVE Depth(b, c, e) = Depth(b, p, e)
  BY <1>1 DEF Slots, Depth, Entry
<1>5. Slots(b, c) \subseteq Entry /\ Slots(b, p) \subseteq Entry
  BY DEF Slots
<1> QED
  BY <1>2, <1>3, <1>4, <1>5 DEF SlotTaken

-----------------------------------------------------------------------------
(* The inductive invariant.                                                *)

\* What the tasks have begun is on the stack above the job: one dict for each; and
\* no more was begun below a push than unwinding to it leaves.
Covered(b, p, n) ==
  /\ IsFiniteSet(Slots(b, p)) /\ Cardinality(Slots(b, p)) + 1 <= n
  /\ \A t \in Tasks : \A i \in DOMAIN p[t] : Cardinality(Below(b, p, t, i)) <= p[t][i]

\* The dicts have dicts' items, and the cache is of the stack.
DictInv ==
  /\ requestId \in {"none", "id"}
  /\ globals \in Seq(Items) /\ Unique(globals)
  /\ stack \in Seq(Seq(Items))
  /\ flat \in {NotCached, Flatten(stack)}

StackInv ==
  /\ blocks \in Depths /\ pushed \in Depths
  /\ JobStays /\ Covered(blocks, pushed, Len(stack))

LogInv == DictInv /\ StackInv

\* A dict is pushed at the depth n.
LEMMA CoveredAdded ==
  ASSUME NEW b \in Depths, NEW p \in Depths, NEW c \in Depths, NEW q \in Depths,
         NEW n \in Nat, Covered(b, p, n), NEW e, SlotAdded(b, p, c, q, e, n),
         \A u \in Tasks : \A i \in DOMAIN q[u] :
           \/ q[u][i] = n
           \/ i \in DOMAIN p[u] /\ q[u][i] = p[u][i] /\ ~(e[1] = "push" /\ e[2] = u /\ e[3] <= i)
  PROVE  Covered(c, q, n + 1)
<1>1. /\ IsFiniteSet(Slots(b, p)) /\ Cardinality(Slots(b, p)) \in Nat
      /\ Cardinality(Slots(b, p)) + 1 <= n
  BY FS_CardinalityType DEF Covered
<1>2. IsFiniteSet(Slots(c, q)) /\ Cardinality(Slots(c, q)) = Cardinality(Slots(b, p)) + 1
  BY <1>1, FS_AddElement DEF SlotAdded
<1>3. ASSUME NEW u \in Tasks, NEW i \in DOMAIN q[u]
      PROVE  Cardinality(Below(c, q, u, i)) <= q[u][i]
  <2>1. Below(c, q, u, i) \subseteq Slots(c, q)
    BY DEF Below
  <2>2. Cardinality(Below(c, q, u, i)) <= n /\ Cardinality(Below(c, q, u, i)) \in Nat
    BY <1>1, <1>2, <2>1, FS_Subset, FS_CardinalityType
  <2>3. CASE q[u][i] = n
    BY <2>2, <2>3
  <2>4. CASE i \in DOMAIN p[u] /\ q[u][i] = p[u][i] /\ ~(e[1] = "push" /\ e[2] = u /\ e[3] <= i)
    <3>0. p[u][i] \in Nat
      BY <2>4 DEF Depths
    <3>1. CASE n < p[u][i]
      BY <2>2, <2>4, <3>0, <3>1
    <3>2. CASE ~(n < p[u][i])
      <4>1. Below(c, q, u, i) \subseteq Below(b, p, u, i)
        BY <2>4, <3>2 DEF Below, SlotAdded
      <4>2. Below(b, p, u, i) \subseteq Slots(b, p)
        BY DEF Below
      <4>3. IsFiniteSet(Below(b, p, u, i)) /\ Cardinality(Below(b, p, u, i)) \in Nat
        BY <1>1, <4>2, FS_Subset, FS_CardinalityType
      <4>4. Cardinality(Below(c, q, u, i)) <= Cardinality(Below(b, p, u, i))
        BY <4>1, <4>3, FS_Subset
      <4>5. Cardinality(Below(b, p, u, i)) <= p[u][i]
        BY <2>4 DEF Covered
      <4> QED
        BY <2>2, <2>4, <3>0, <4>3, <4>4, <4>5
    <3> QED
      BY <3>1, <3>2
  <2> QED
    BY <2>3, <2>4
<1> QED
  BY <1>1, <1>2, <1>3 DEF Covered

\* Something ends, and the stack has a depth that still covers the others.
LEMMA CoveredTaken ==
  ASSUME NEW b \in Depths, NEW p \in Depths, NEW c \in Depths, NEW q \in Depths,
         NEW n \in Nat, Covered(b, p, n), NEW e, SlotTaken(b, p, c, q, e),
         \A u \in Tasks : \A i \in DOMAIN q[u] : i \in DOMAIN p[u] /\ q[u][i] = p[u][i],
         NEW m \in Nat, Cardinality(Slots(b, p)) <= m
  PROVE  Covered(c, q, m)
<1>1. /\ IsFiniteSet(Slots(b, p)) /\ Cardinality(Slots(b, p)) \in Nat
  BY FS_CardinalityType DEF Covered
<1>2. IsFiniteSet(Slots(c, q)) /\ Cardinality(Slots(c, q)) = Cardinality(Slots(b, p)) - 1
  BY <1>1, FS_RemoveElement DEF SlotTaken
<1>3. ASSUME NEW u \in Tasks, NEW i \in DOMAIN q[u]
      PROVE  Cardinality(Below(c, q, u, i)) <= q[u][i]
  <2>0. i \in DOMAIN p[u] /\ q[u][i] = p[u][i] /\ p[u][i] \in Nat
    <3>1. i \in DOMAIN p[u] /\ q[u][i] = p[u][i]
      OBVIOUS
    <3> QED
      BY <3>1 DEF Depths
  <2>1. Below(c, q, u, i) \subseteq Below(b, p, u, i)
    BY <2>0 DEF Below, SlotTaken
  <2>2. Below(b, p, u, i) \subseteq Slots(b, p)
    BY DEF Below
  <2>3. IsFiniteSet(Below(b, p, u, i)) /\ Cardinality(Below(b, p, u, i)) \in Nat
    BY <1>1, <2>2, FS_Subset, FS_CardinalityType
  <2>4. Cardinality(Below(c, q, u, i)) <= Cardinality(Below(b, p, u, i)) /\ IsFiniteSet(Below(c, q, u, i))
    BY <2>1, <2>3, FS_Subset
  <2>5. Cardinality(Below(b, p, u, i)) <= p[u][i]
    BY <2>0 DEF Covered
  <2>6. Cardinality(Below(c, q, u, i)) \in Nat
    BY <2>4, FS_CardinalityType
  <2> QED
    BY <2>0, <2>3, <2>4, <2>5, <2>6
<1>4. Cardinality(Slots(c, q)) + 1 <= m
  BY <1>1, <1>2
<1> QED
  BY <1>2, <1>3, <1>4 DEF Covered

\* A stack that gets shorter, but not empty, keeps what is at the bottom.
LEMMA Shorter ==
  ASSUME NEW s \in Seq(Seq(Items)), s # <<>>
  PROVE  /\ Drop(s) \in Seq(Seq(Items)) /\ Len(Drop(s)) = Len(s) - 1
         /\ Len(s) > 1 => Drop(s) # <<>> /\ Drop(s)[1] = s[1]
         /\ \A m \in 1..Len(s) :
              /\ SubSeq(s, 1, m) \in Seq(Seq(Items)) /\ Len(SubSeq(s, 1, m)) = m
              /\ SubSeq(s, 1, m) # <<>> /\ SubSeq(s, 1, m)[1] = s[1]
<1>1. Len(s) \in Nat \ {0} /\ DOMAIN s = 1..Len(s)
  OBVIOUS
<1>2. Drop(s) = [i \in 1..(Len(s) - 1) |-> s[i]]
  BY <1>1 DEF Drop, Front
<1>3. Drop(s) \in Seq(Seq(Items)) /\ Len(Drop(s)) = Len(s) - 1 /\ (Len(s) > 1 => Drop(s)[1] = s[1])
  BY <1>1, <1>2
<1>4. ASSUME NEW m \in 1..Len(s)
      PROVE  /\ SubSeq(s, 1, m) \in Seq(Seq(Items)) /\ Len(SubSeq(s, 1, m)) = m
             /\ SubSeq(s, 1, m) # <<>> /\ SubSeq(s, 1, m)[1] = s[1]
  <2>1. SubSeq(s, 1, m) = [i \in 1..m |-> s[i]]
    BY <1>1
  <2>2. SubSeq(s, 1, m) \in Seq(Seq(Items)) /\ Len(SubSeq(s, 1, m)) = m /\ SubSeq(s, 1, m)[1] = s[1]
    BY <1>1, <2>1
  <2>3. m # 0
    OBVIOUS
  <2> QED
    BY <2>2, <2>3
<1> QED
  BY <1>1, <1>3, <1>4

\* The dicts that are pushed, and those of the process.
LEMMA SinglesAreDicts ==
  ASSUME NEW V, V \subseteq Contents, NEW d \in Singles(V)
  PROVE  d \in Seq(Items)
<1>1. PICK n \in Names, v \in V : d = <<Item(n, v)>>
  BY DEF Singles
<1>2. n \in Keys \X Nat
  BY LogAssumption DEF Names
<1>3. Item(n, v) \in Items
  BY <1>2 DEF Item, Items
<1> QED
  BY <1>1, <1>3

\* At the start nothing is begun, and the stack has only the job.
LEMMA InitLogInv == LogInit => LogInv
<1> SUFFICES ASSUME LogInit PROVE LogInv
  OBVIOUS
<1> USE DEF LogInit
<1>1. Job \in Seq(Items)
  BY LogAssumption DEF Job, Item, Items, Contents
<1>2. DictInv
  <2>1. stack \in Seq(Seq(Items))
    BY <1>1
  <2>2. globals \in Seq(Items) /\ Unique(globals)
    BY DEF Unique
  <2> QED
    BY <2>1, <2>2 DEF DictInv
<1>3. blocks \in Depths /\ pushed \in Depths /\ \A t \in Tasks : pushed[t] = <<>>
  BY DEF Depths
<1>4. Slots(blocks, pushed) = {}
  BY DEF Slots, Entry
<1>5. JobStays /\ Len(stack) = 1
  BY DEF JobStays
<1>6. Covered(blocks, pushed, Len(stack))
  <2>1. IsFiniteSet({}) /\ Cardinality({}) = 0
    BY FS_EmptySet
  <2>2. \A t \in Tasks : DOMAIN pushed[t] = {}
    BY <1>3
  <2>3. Cardinality(Slots(blocks, pushed)) + 1 <= Len(stack)
    <3> HIDE DEF LogInit
    <3>1. Cardinality(Slots(blocks, pushed)) = 0
      BY <1>4, <2>1, Zenon
    <3> QED
      BY <1>5, <3>1
  <2>4. IsFiniteSet(Slots(blocks, pushed))
    BY <1>4, <2>1
  <2>5. \A t \in Tasks : \A i \in DOMAIN pushed[t] : Cardinality(Below(blocks, pushed, t, i)) <= pushed[t][i]
    BY <2>2
  <2> QED
    BY <2>3, <2>4, <2>5 DEF Covered
<1> QED
  BY <1>2, <1>3, <1>5, <1>6 DEF LogInv, StackInv

\* The dicts are dicts after each step, and the cache is kept only with the stack.
LEMMA NextDictInv == LogInv /\ [LogNext]_logVars => DictInv'
<1> SUFFICES ASSUME LogInv, [LogNext]_logVars PROVE DictInv'
  OBVIOUS
<1>0. DictInv
  BY DEF LogInv
<1>1. ASSUME NEW e \in Singles({"global"}), SetGlobalExtra(e) PROVE DictInv'
  <2>1. globals \in Seq(Items) /\ Unique(globals) /\ e \in Seq(Items)
    BY <1>0, SinglesAreDicts DEF DictInv, Contents
  <2>2. Update(globals, e) \in Seq(Items) /\ Unique(Update(globals, e))
    BY <2>1, UpdateFacts
  <2> QED
    BY <1>0, <1>1, <2>2 DEF DictInv, SetGlobalExtra
<1>2. CASE Log
  BY <1>0, <1>2 DEF DictInv, Log, Flat
<1>3. ASSUME NEW t \in Tasks, NEW d \in Singles(Values), Push(t, d) \/ Enter(t, d) PROVE DictInv'
  <2>1. d \in Seq(Items)
    BY SinglesAreDicts DEF Contents
  <2>2. Append(stack, d) \in Seq(Seq(Items))
    BY <1>0, <2>1 DEF DictInv
  <2> QED
    BY <1>0, <1>3, <2>2 DEF DictInv, Push, Enter, Change
<1>4. ASSUME NEW t \in Tasks, Pop(t) \/ Exit(t) PROVE DictInv'
  <2>1. stack \in Seq(Seq(Items)) /\ stack # <<>>
    BY <1>0 DEF LogInv, DictInv, StackInv, JobStays
  <2>2. Drop(stack) \in Seq(Seq(Items))
    BY <2>1, Shorter
  <2> QED
    BY <1>0, <1>4, <2>2 DEF DictInv, Pop, Exit, Change
<1>5. ASSUME NEW t \in Tasks, Unwind(t) PROVE DictInv'
  <2> DEFINE level == Last(pushed[t])
             m == IF level < Len(stack) THEN level ELSE Len(stack)
  <2>1. stack \in Seq(Seq(Items))
    BY <1>0 DEF DictInv
  <2>2. stack' = SubSeq(stack, 1, m) /\ flat' = NotCached /\ UNCHANGED <<requestId, globals>>
    BY <1>5 DEF Unwind, Change
  <2>3. m \in Int
    <3>1. pushed[t] \in Seq(Nat) /\ pushed[t] # <<>>
      BY <1>5 DEF LogInv, StackInv, Depths, Unwind
    <3>2. level \in Nat
      BY <3>1 DEF Last
    <3> QED
      BY <2>1, <3>2
  <2>4. m <= Len(stack)
    BY <2>1, <2>3
  <2> HIDE DEF m
  <2>5. SubSeq(stack, 1, m) \in Seq(Seq(Items))
    BY <2>1, <2>3, <2>4
  <2> QED
    BY <1>0, <2>2, <2>5 DEF DictInv
<1>6. ASSUME NEW t \in Tasks, Raise(t) PROVE DictInv'
  BY <1>0, <1>6 DEF DictInv, Raise
<1>7. CASE UNCHANGED logVars
  BY <1>0, <1>7 DEF DictInv, logVars
<1> QED
  BY <1>1, <1>2, <1>3, <1>4, <1>5, <1>6, <1>7 DEF LogNext

\* The stack covers what the tasks have begun after each step.
LEMMA NextStackInv == LogInv /\ [LogNext]_logVars => StackInv'
<1> SUFFICES ASSUME LogInv, [LogNext]_logVars PROVE StackInv'
  OBVIOUS
<1>0. /\ blocks \in Depths /\ pushed \in Depths
      /\ stack \in Seq(Seq(Items)) /\ stack # <<>> /\ stack[1] = Job
      /\ Covered(blocks, pushed, Len(stack)) /\ Len(stack) \in Nat /\ Len(stack) > 0
  <2>1. stack \in Seq(Seq(Items)) /\ stack # <<>> /\ stack[1] = Job
    BY DEF LogInv, DictInv, StackInv, JobStays
  <2>2. Len(stack) \in Nat /\ Len(stack) > 0
    BY <2>1
  <2> QED
    BY <2>1, <2>2 DEF LogInv, StackInv
<1>1. /\ Cardinality(Slots(blocks, pushed)) \in Nat /\ IsFiniteSet(Slots(blocks, pushed))
      /\ Cardinality(Slots(blocks, pushed)) + 1 <= Len(stack)
  BY <1>0, FS_CardinalityType DEF Covered
\* With something that is begun there is more than the job on the stack.
<1>2. ASSUME NEW e \in Slots(blocks, pushed) PROVE Len(stack) > 1
  <2>1. Cardinality(Slots(blocks, pushed)) # 0
    BY <1>1, FS_EmptySet
  <2> QED
    BY <1>0, <1>1, <2>1
\* Each action that changes the stack leaves the job at its bottom.
<1>3. ASSUME NEW t \in Tasks, NEW d \in Singles(Values), Push(t, d) PROVE StackInv'
  <2> DEFINE e == <<"push", t, Len(pushed[t]) + 1>>
  <2>1. stack' = Append(stack, d) /\ blocks' = blocks /\ pushed' = [pushed EXCEPT ![t] = Append(@, Len(stack))]
    BY <1>3 DEF Push, Change
  <2>0. IsAppended(pushed, t, Len(stack), pushed')
    BY <1>0, <2>1, Appended
  <2>2. /\ pushed' \in Depths /\ e[3] \notin DOMAIN pushed[t] /\ \A i \in DOMAIN pushed[t] : i < e[3]
        /\ DOMAIN pushed'[t] = DOMAIN pushed[t] \cup {e[3]}
        /\ pushed'[t][e[3]] = Len(stack) /\ \A i \in DOMAIN pushed[t] : pushed'[t][i] = pushed[t][i]
        /\ \A u \in Tasks \ {t} : pushed'[u] = pushed[u]
    BY <2>0 DEF IsAppended
  <2>3. SlotAdded(blocks, pushed, blocks, pushed', e, Len(stack))
    BY <1>0, <2>1, PushAdded
  <2>4. ASSUME NEW u \in Tasks, NEW i \in DOMAIN pushed'[u]
        PROVE  \/ pushed'[u][i] = Len(stack)
               \/ i \in DOMAIN pushed[u] /\ pushed'[u][i] = pushed[u][i] /\ ~(e[1] = "push" /\ e[2] = u /\ e[3] <= i)
    <3>1. CASE u = t
      <4>1. \A j \in DOMAIN pushed[t] : j \in Nat
        BY <1>0 DEF Depths
      <4> QED
        BY <2>2, <3>1, <4>1
    <3>2. CASE u # t
      BY <2>2, <3>2
    <3> QED
      BY <3>1, <3>2
  <2> HIDE DEF e
  <2>5. Covered(blocks, pushed', Len(stack) + 1)
    BY <1>0, <2>2, <2>3, <2>4, CoveredAdded
  <2>6. Len(stack') = Len(stack) + 1 /\ stack' # <<>> /\ stack'[1] = Job
    <3>1. d \in Seq(Items)
      BY SinglesAreDicts DEF Contents
    <3> QED
      BY <1>0, <2>1, <3>1
  <2> QED
    BY <1>0, <2>1, <2>2, <2>5, <2>6 DEF StackInv, JobStays
<1>4. ASSUME NEW t \in Tasks, NEW d \in Singles(Values), Enter(t, d) PROVE StackInv'
  <2> DEFINE e == <<"block", t, Len(blocks[t]) + 1>>
  <2>1. stack' = Append(stack, d) /\ pushed' = pushed /\ blocks' = [blocks EXCEPT ![t] = Append(@, Len(stack))]
    BY <1>4 DEF Enter, Change
  <2>0. IsAppended(blocks, t, Len(stack), blocks')
    BY <1>0, <2>1, Appended
  <2>2. blocks' \in Depths
    BY <2>0 DEF IsAppended
  <2>3. SlotAdded(blocks, pushed, blocks', pushed, e, Len(stack))
    BY <1>0, <2>1, BlockAdded
  <2>4. e[1] # "push"
    OBVIOUS
  <2> HIDE DEF e
  <2>5. Covered(blocks', pushed, Len(stack) + 1)
    BY <1>0, <2>2, <2>3, <2>4, CoveredAdded
  <2>6. Len(stack') = Len(stack) + 1 /\ stack' # <<>> /\ stack'[1] = Job
    <3>1. d \in Seq(Items)
      BY SinglesAreDicts DEF Contents
    <3> QED
      BY <1>0, <2>1, <3>1
  <2> QED
    BY <1>0, <2>1, <2>2, <2>5, <2>6 DEF StackInv, JobStays
<1>5. ASSUME NEW t \in Tasks, Pop(t) PROVE StackInv'
  <2> DEFINE e == <<"push", t, Len(pushed[t])>>
  <2>1. /\ pushed[t] # <<>> /\ stack' = Drop(stack)
        /\ blocks' = blocks /\ pushed' = [pushed EXCEPT ![t] = Front(@)]
    BY <1>5 DEF Pop, Change
  <2>2. IsShortened(pushed, t, pushed')
    BY <1>0, <2>1, Shortened
  <2>3. pushed' \in Depths /\ \A u \in Tasks : \A i \in DOMAIN pushed'[u] : i \in DOMAIN pushed[u] /\ pushed'[u][i] = pushed[u][i]
    BY <2>2 DEF IsShortened
  <2>4. SlotTaken(blocks, pushed, blocks, pushed', e)
    BY <1>0, <2>1, PushTaken
  <2> HIDE DEF e
  <2>5. Len(stack) > 1 /\ Len(stack) - 1 \in Nat /\ Cardinality(Slots(blocks, pushed)) <= Len(stack) - 1
    BY <1>0, <1>1, <1>2, <2>4 DEF SlotTaken
  <2>6. Covered(blocks, pushed', Len(stack) - 1)
    BY <1>0, <2>3, <2>4, <2>5, CoveredTaken
  <2>7. Len(stack') = Len(stack) - 1 /\ stack' # <<>> /\ stack'[1] = Job
    BY <1>0, <2>1, <2>5, Shorter
  <2> QED
    BY <1>0, <2>1, <2>3, <2>6, <2>7 DEF StackInv, JobStays
<1>6. ASSUME NEW t \in Tasks, Unwind(t) PROVE StackInv'
  <2> DEFINE n == Len(pushed[t])
             e == <<"push", t, n>>
             level == Last(pushed[t])
             m == IF level < Len(stack) THEN level ELSE Len(stack)
  <2>1. /\ pushed[t] # <<>> /\ stack' = SubSeq(stack, 1, m)
        /\ blocks' = blocks /\ pushed' = [pushed EXCEPT ![t] = Front(@)]
        /\ \A u \in Tasks : \A i \in DOMAIN blocks[u] : blocks[u][i] < level
        /\ \A u \in Tasks \ {t} : \A i \in DOMAIN pushed[u] : pushed[u][i] < level
    BY <1>6 DEF Unwind, Change
  <2>2. IsShortened(pushed, t, pushed')
    BY <1>0, <2>1, Shortened
  <2>3. pushed' \in Depths /\ \A u \in Tasks : \A i \in DOMAIN pushed'[u] : i \in DOMAIN pushed[u] /\ pushed'[u][i] = pushed[u][i]
    BY <2>2 DEF IsShortened
  <2>4. SlotTaken(blocks, pushed, blocks, pushed', e)
    BY <1>0, <2>1, PushTaken
  <2>5. n \in DOMAIN pushed[t] /\ pushed[t][n] = level /\ level \in Nat /\ \A i \in DOMAIN pushed[t] : i <= n
    <3>1. pushed[t] \in Seq(Nat)
      BY <1>0 DEF Depths
    <3> QED
      BY <2>1, <3>1 DEF Last
  <2>6. Slots(blocks, pushed) \subseteq Below(blocks, pushed, t, n)
    <3>1. ASSUME NEW x \in Slots(blocks, pushed)
          PROVE  IF x[1] = "push" /\ x[2] = t THEN x[3] <= n ELSE Depth(blocks, pushed, x) < level
      <4>1. x[1] \in {"block", "push"} /\ x[2] \in Tasks
        BY DEF Slots, Entry
      <4>2. CASE x[1] = "block"
        <5>1. x[3] \in DOMAIN blocks[x[2]]
          BY <4>2 DEF Slots
        <5> QED
          BY <2>1, <4>1, <4>2, <5>1 DEF Depth
      <4>3. CASE x[1] = "push" /\ x[2] = t
        BY <2>5, <4>3 DEF Slots
      <4>4. CASE x[1] = "push" /\ x[2] # t
        <5>1. x[3] \in DOMAIN pushed[x[2]]
          BY <4>4 DEF Slots
        <5> QED
          BY <2>1, <4>1, <4>4, <5>1 DEF Depth
      <4> QED
        BY <4>1, <4>2, <4>3, <4>4
    <3> HIDE DEF n, level
    <3> QED
      BY <2>5, <3>1 DEF Below
  <2>7. Cardinality(Slots(blocks, pushed)) <= level
    <3>1. Below(blocks, pushed, t, n) = Slots(blocks, pushed)
      BY <2>6 DEF Below
    <3>2. Cardinality(Below(blocks, pushed, t, n)) <= pushed[t][n]
      BY <1>0, <2>5 DEF Covered
    <3> QED
      BY <2>5, <3>1, <3>2
  <2>8. level # 0
    <3>1. Cardinality(Slots(blocks, pushed)) # 0
      BY <1>1, <2>4, FS_EmptySet DEF SlotTaken
    <3> QED
      BY <1>1, <2>5, <2>7, <3>1
  <2> HIDE DEF level, n, e
  <2>9. m \in 1..Len(stack) /\ m \in Nat /\ Cardinality(Slots(blocks, pushed)) <= m
    BY <1>0, <1>1, <2>5, <2>7, <2>8
  <2> HIDE DEF m
  <2>10. Covered(blocks, pushed', m)
    BY <1>0, <2>3, <2>4, <2>9, CoveredTaken
  <2>11. Len(stack') = m /\ stack' # <<>> /\ stack'[1] = Job
    BY <1>0, <2>1, <2>9, Shorter
  <2> QED
    BY <1>0, <2>1, <2>3, <2>10, <2>11 DEF StackInv, JobStays
<1>7. ASSUME NEW t \in Tasks, Exit(t) \/ Raise(t) PROVE StackInv'
  <2> DEFINE e == <<"block", t, Len(blocks[t])>>
  <2>1. blocks[t] # <<>> /\ pushed' = pushed /\ blocks' = [blocks EXCEPT ![t] = Front(@)]
    BY <1>7 DEF Exit, Raise
  <2>2. IsShortened(blocks, t, blocks')
    BY <1>0, <2>1, Shortened
  <2>3. blocks' \in Depths
    BY <2>2 DEF IsShortened
  <2>4. SlotTaken(blocks, pushed, blocks', pushed, e)
    BY <1>0, <2>1, BlockTaken
  <2> HIDE DEF e
  <2>5. /\ Len(stack) > 1 /\ Len(stack) - 1 \in Nat
        /\ Cardinality(Slots(blocks, pushed)) <= Len(stack) - 1 /\ Cardinality(Slots(blocks, pushed)) <= Len(stack)
    BY <1>0, <1>1, <1>2, <2>4 DEF SlotTaken
  <2>6. Covered(blocks', pushed, Len(stack) - 1) /\ Covered(blocks', pushed, Len(stack))
    BY <1>0, <2>3, <2>4, <2>5, CoveredTaken
  <2>7. CASE Exit(t)
    <3>1. stack' = Drop(stack)
      BY <2>7 DEF Exit, Change
    <3>2. Len(stack') = Len(stack) - 1 /\ stack' # <<>> /\ stack'[1] = Job
      BY <1>0, <2>5, <3>1, Shorter
    <3> QED
      BY <1>0, <2>1, <2>3, <2>6, <3>2 DEF StackInv, JobStays
  <2>8. CASE Raise(t)
    <3>1. stack' = stack
      BY <2>8 DEF Raise
    <3> QED
      BY <1>0, <2>1, <2>3, <2>6, <3>1 DEF StackInv, JobStays
  <2> QED
    BY <1>7, <2>7, <2>8
<1>8. CASE Log \/ (\E e \in Singles({"global"}) : SetGlobalExtra(e)) \/ UNCHANGED logVars
  <2>1. stack' = stack /\ blocks' = blocks /\ pushed' = pushed
    BY <1>8 DEF Log, SetGlobalExtra, logVars
  <2> QED
    BY <1>0, <2>1 DEF StackInv, JobStays
<1> QED
  BY <1>3, <1>4, <1>5, <1>6, <1>7, <1>8 DEF LogNext

\* The dicts are dicts with the items that the code puts there, each name once; the
\* cache is of the stack; and the stack covers all that was begun.
THEOREM ContextInvariance == LogSpec => []LogInv
<1>1. LogInit => LogInv
  BY InitLogInv
<1>2. LogInv /\ [LogNext]_logVars => LogInv'
  BY NextDictInv, NextStackInv DEF LogInv
<1> QED
  BY <1>1, <1>2, PTL DEF LogSpec

\* The invariant gives what the lemmas about dicts and records need.
LEMMA LogInvDicts == LogInv => DictsOK
BY DEF LogInv, DictInv, DictsOK, Flat

\* A reader gets what is nearest to the top of the stack under each name
\* (ContextStack.flat, context.py:146): push, pop and unwind reset the cache.
THEOREM FlatStaysCurrent == LogSpec => []FlatIsCurrent
<1>1. LogInv => FlatIsCurrent
  <2>1. DictsOK => FlatIsCurrent
    BY FlatFacts DEF DictsOK
  <2> QED
    BY <2>1, LogInvDicts
<1> QED
  BY <1>1, ContextInvariance, PTL

\* What task_prerun has pushed stays at the bottom of the stack, however tasks push,
\* pop, unwind, enter blocks and raise in them (context.py:161-190).
THEOREM JobIsKept == LogSpec => []JobStays
<1>1. LogInv => JobStays
  BY DEF LogInv, StackInv
<1> QED
  BY <1>1, ContextInvariance, PTL

\* Renaming what collides loses nothing (makeRecord in logs.py), with any extras,
\* stacks and global extras of plain names.
THEOREM NothingIsLost == LogSpec => []CollisionsKept
<1>1. LogInv => CollisionsKept
  BY LogInvDicts, CollisionsAreKept
<1> QED
  BY <1>1, ContextInvariance, PTL

=============================================================================
