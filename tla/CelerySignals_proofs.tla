------------------------ MODULE CelerySignals_proofs ------------------------
(***************************************************************************)
(* Proofs about CelerySignals: that each run is measured once, and that    *)
(* request ids are handed on and not mixed up, for any number of tasks,    *)
(* messages and runs.                                                      *)
(***************************************************************************)
EXTENDS CelerySignals, SequenceTheorems, TLAPS

USE CeleryAssumption

RunRecords ==
  [task : Tasks, message : Messages \cup {None}, state : {"open", "over"}, nested : BOOLEAN]

\* The first run on the stack has a message, which is taken, and no other has;
\* a run with others above it has run one in it.
StackInv ==
  /\ \A i \in 1..Len(runs) : runs[i].message = None <=> i # 1
  /\ Len(runs) > 1 => Root.nested
  /\ runs # <<>> => messages[Root.message].state = "taken"

\* A message that is published has a task.
MessageInv == \A m \in Messages : messages[m].state # "new" => messages[m].task \in Tasks

\* A timestamp is that of a task with a run on the stack.
TimestampInv ==
  \A t \in Tasks : timestamp[t] # None => \E i \in 1..Len(runs) : runs[i].task = t

IInv == TypeOK /\ StackInv /\ MessageInv /\ TimestampInv

-----------------------------------------------------------------------------
(* The stack.                                                              *)

\* A stack of runs that is not empty has an innermost and a first one.
LEMMA RunFacts ==
  ASSUME TypeOK, StackInv, runs # <<>>
  PROVE  /\ Len(runs) \in Nat \ {0}
         /\ Run \in RunRecords /\ Root \in RunRecords
         /\ Root.message \in Messages
         /\ Run.message # None => Len(runs) = 1 /\ Run = Root
<1>1. runs \in Seq(RunRecords)
  BY DEF TypeOK, RunRecords
<1>2. Len(runs) \in Nat \ {0}
  BY <1>1, EmptySeq
<1>3. Run \in RunRecords /\ Root \in RunRecords
  BY <1>1, <1>2, ElementOfSeq DEF Run, Root
<1>4. Root.message # None
  BY <1>2 DEF StackInv, Root
<1>5. Run.message # None => Len(runs) = 1
  <2>1. Len(runs) \in 1..Len(runs)
    BY <1>2
  <2> QED
    BY <2>1 DEF StackInv, Run
<1> QED
  BY <1>2, <1>3, <1>4, <1>5 DEF RunRecords, Run, Root

\* What a counter does to the metrics keeps their types.
LEMMA CountTypes ==
  ASSUME TypeOK, NEW kind \in Kinds, NEW t \in Tasks, Count(kind, t)
  PROVE  /\ counted' \in [Kinds -> [Tasks -> Nat]]
         /\ marked' \in [Tasks -> SUBSET Protected]
<1>1. CASE kind \in marked[t]
  BY <1>1 DEF TypeOK, Count
<1>2. CASE kind \notin marked[t]
  <2>1. counted' = Add(counted, kind, t) /\ marked' = [marked EXCEPT ![t] = @ \cup ({kind} \cap Protected)]
    BY <1>2 DEF Count
  <2>2. counted[kind][t] + 1 \in Nat
    BY DEF TypeOK
  <2>3. counted' \in [Kinds -> [Tasks -> Nat]]
    BY <2>1, <2>2 DEF TypeOK, Add
  <2>4. marked' \in [Tasks -> SUBSET Protected]
    BY <2>1 DEF TypeOK
  <2> QED
    BY <2>3, <2>4
<1> QED
  BY <1>1, <1>2

\* So does the signal that makes it count.
LEMMA SignalTypes ==
  ASSUME TypeOK, NEW kind \in Kinds, NEW t \in Tasks, Signal(kind, t)
  PROVE  /\ counted' \in [Kinds -> [Tasks -> Nat]]
         /\ marked' \in [Tasks -> SUBSET Protected]
         /\ signals' \in [Kinds -> [Tasks -> Nat]]
         /\ UNCHANGED <<timestamp, latency, starts, killed>>
<1>1. Count(kind, t)
  BY DEF Signal
<1>2. signals' \in [Kinds -> [Tasks -> Nat]]
  BY DEF TypeOK, Signal, Add
<1> QED
  BY <1>1, <1>2, CountTypes DEF Signal

\* A run that starts gets the next number, and keeps the types.
LEMMA StartTypes ==
  ASSUME TypeOK, NEW t \in Tasks, NEW eager \in BOOLEAN, NEW id \in Ids \cup {None},
         StartRun(t, eager, id)
  PROVE  /\ starts' = starts + 1 /\ starts' \in 1..MaxStarts
         /\ context' = NewContext(id) /\ context' \in [exists : BOOLEAN, id : Ids \cup {None}]
         /\ timestamp' = [timestamp EXCEPT ![t] = starts + 1]
         /\ timestamp' \in [Tasks -> 1..starts' \cup {None}]
         /\ counted' \in [Kinds -> [Tasks -> Nat]]
         /\ marked' \in [Tasks -> SUBSET Protected]
         /\ latency' \in [1..MaxStarts -> Nat]
<1>1. starts' = starts + 1 /\ starts' \in 1..MaxStarts
  BY DEF TypeOK, StartRun
<1>2. context' = NewContext(id) /\ context' \in [exists : BOOLEAN, id : Ids \cup {None}]
  BY DEF StartRun, RunContext, NewContext
<1>3. timestamp' = [timestamp EXCEPT ![t] = starts + 1]
  BY <1>1 DEF StartRun
<1>4. timestamp' \in [Tasks -> 1..starts' \cup {None}]
  BY <1>1, <1>3 DEF TypeOK
<1>5. CASE timestamp[t] # None /\ eager
  <2>1. Count("retry", t) /\ Observe(timestamp[t])
    BY <1>5 DEF StartRun
  <2>2. latency' \in [1..MaxStarts -> Nat]
    <3>1. timestamp[t] \in 1..MaxStarts
      BY <1>5 DEF TypeOK
    <3> QED
      BY <2>1, <3>1 DEF TypeOK, Observe
  <2>3. "retry" \in Kinds
    BY DEF Kinds
  <2> QED
    BY <1>1, <1>2, <1>3, <1>4, <2>1, <2>2, <2>3, CountTypes
<1>6. CASE ~(timestamp[t] # None /\ eager)
  <2>1. UNCHANGED <<counted, marked, latency>>
    BY <1>6 DEF StartRun
  <2> QED
    BY <1>1, <1>2, <1>3, <1>4, <2>1 DEF TypeOK
<1> QED
  BY <1>5, <1>6

MessageRecords == [state : MessageStates, task : Tasks \cup {None}, id : Ids \cup {None}]
OriginRecords == [id : Ids \cup {None}, intact : BOOLEAN]

\* A run publishes a message that is new, with the id of the context or, in a
\* retry, that of the message before it; no other message changes, in
\* particular not that of the run.
LEMMA PublishFacts ==
  ASSUME TypeOK, StackInv, runs # <<>>, NEW m \in Messages, NEW t \in Tasks,
         NEW old \in Ids \cup {None}, Publish(m, t, old)
  PROVE  /\ messages[m].state = "new" /\ m # Root.message
         /\ messages' \in [Messages -> MessageRecords] /\ origin' \in [Messages -> OriginRecords]
         /\ messages'[m].state = "queued" /\ messages'[m].task = t
         /\ messages'[m].id \in Header(context.id, old)
         /\ origin'[m].id = origin[Root.message].id
         /\ origin'[m].intact => origin[Root.message].intact /\ Len(runs) = 1 /\ ~Root.nested
         /\ \A q \in Messages \ {m} : messages'[q] = messages[q] /\ origin'[q] = origin[q]
<1>1. messages[m].state = "new" /\ m # Root.message /\ Root.message \in Messages
  BY RunFacts DEF Publish, StackInv
<1>2. PICK header \in Header(context.id, old) :
        messages' = [messages EXCEPT ![m] = [state |-> "queued", task |-> t, id |-> header]]
  BY DEF Publish
<1>3. header \in Ids \cup {None}
  BY DEF TypeOK, Header
<1>4. messages' \in [Messages -> MessageRecords]
  BY <1>2, <1>3 DEF TypeOK, MessageRecords, MessageStates
<1>5. /\ messages'[m] = [state |-> "queued", task |-> t, id |-> header]
      /\ \A q \in Messages \ {m} : messages'[q] = messages[q]
  BY <1>2 DEF TypeOK
<1> DEFINE keeps == origin[Root.message].intact /\ Len(runs) = 1 /\ ~Root.nested
<1>6. origin' = [origin EXCEPT ![m] = [id |-> origin[Root.message].id, intact |-> keeps]]
  BY DEF Publish
<1>7. keeps \in BOOLEAN
  OBVIOUS
<1> HIDE DEF keeps
<1>8. /\ origin' \in [Messages -> OriginRecords]
      /\ origin'[m].id = origin[Root.message].id /\ origin'[m].intact = keeps
      /\ \A q \in Messages \ {m} : origin'[q] = origin[q]
  BY <1>1, <1>6, <1>7 DEF TypeOK, OriginRecords
<1> QED
  BY <1>1, <1>2, <1>4, <1>5, <1>8 DEF keeps

\* So does a publisher outside, with its own id.
LEMMA OutsideFacts ==
  ASSUME TypeOK, NEW m \in Messages, NEW t \in Tasks, NEW id \in Ids \cup {None},
         PublishOutside(m, t, id)
  PROVE  /\ messages[m].state = "new"
         /\ messages' \in [Messages -> MessageRecords] /\ origin' \in [Messages -> OriginRecords]
         /\ messages'[m].state = "queued" /\ messages'[m].task = t
         /\ messages'[m].id = id /\ origin'[m].id = id
         /\ \A q \in Messages \ {m} : messages'[q] = messages[q] /\ origin'[q] = origin[q]
         /\ UNCHANGED <<runs, context, metrics, history>>
<1>1. messages' = [messages EXCEPT ![m] = [state |-> "queued", task |-> t, id |-> id]]
  BY DEF PublishOutside, Header
<1>2. origin' = [origin EXCEPT ![m] = [id |-> id, intact |-> TRUE]]
  BY DEF PublishOutside
<1> QED
  BY <1>1, <1>2 DEF PublishOutside, TypeOK, MessageRecords, OriginRecords, MessageStates

\* One step of a message from one state to another keeps the rest of it.
LEMMA MessageMoves ==
  ASSUME TypeOK, NEW m \in Messages, NEW s \in MessageStates,
         messages' = [messages EXCEPT ![m].state = s]
  PROVE  /\ messages' \in [Messages -> MessageRecords]
         /\ messages'[m].state = s
         /\ messages'[m].id = messages[m].id /\ messages'[m].task = messages[m].task
         /\ \A q \in Messages \ {m} : messages'[q] = messages[q]
<1>1. messages \in [Messages -> MessageRecords]
  BY DEF TypeOK, MessageRecords
<1>2. messages' = [messages EXCEPT ![m] = [messages[m] EXCEPT !.state = s]]
  OBVIOUS
<1>3. [messages[m] EXCEPT !.state = s] \in MessageRecords
  BY <1>1 DEF MessageRecords
<1>4. messages'[m] = [messages[m] EXCEPT !.state = s]
  BY <1>1, <1>2
<1>5. messages'[m].state = s /\ messages'[m].id = messages[m].id /\ messages'[m].task = messages[m].task
  BY <1>1, <1>4 DEF MessageRecords
<1> QED
  BY <1>1, <1>2, <1>3, <1>5

\* The innermost run changes its state and nothing else.
LEMMA RunOver ==
  ASSUME TypeOK, StackInv, runs # <<>>, runs' = [runs EXCEPT ![Len(runs)].state = "over"]
  PROVE  /\ runs' \in Seq(RunRecords) /\ Len(runs') = Len(runs) /\ runs' # <<>>
         /\ \A i \in 1..Len(runs) : /\ runs'[i].message = runs[i].message
                                    /\ runs'[i].task = runs[i].task
                                    /\ runs'[i].nested = runs[i].nested
<1>1. runs \in Seq(RunRecords) /\ Len(runs) \in Nat \ {0}
  BY RunFacts DEF TypeOK, RunRecords
<1>2. \A i \in 1..Len(runs) : runs[i] \in RunRecords
  BY <1>1
<1>3. /\ DOMAIN runs' = 1..Len(runs)
      /\ \A i \in 1..Len(runs) :
           runs'[i] = IF i = Len(runs) THEN [runs[i] EXCEPT !.state = "over"] ELSE runs[i]
  BY <1>1
<1>4. \A i \in 1..Len(runs) : /\ runs'[i].message = runs[i].message
                              /\ runs'[i].task = runs[i].task
                              /\ runs'[i].nested = runs[i].nested
                              /\ runs'[i] \in RunRecords
  BY <1>2, <1>3 DEF RunRecords
<1>5. runs' \in [1..Len(runs) -> RunRecords]
  <2>1. runs \in [1..Len(runs) -> RunRecords]
    BY <1>1, SeqDef
  <2>2. [runs[Len(runs)] EXCEPT !.state = "over"] \in RunRecords
    BY <1>1, <1>2 DEF RunRecords
  <2> QED
    BY <1>1, <2>1, <2>2
<1>6. runs' \in Seq(RunRecords) /\ Len(runs') = Len(runs)
  BY <1>1, <1>5, SeqDef
<1> QED
  BY <1>1, <1>4, <1>6, EmptySeq

\* A run is put on the stack, in which the one below is now nested.
LEMMA RunPushed ==
  ASSUME TypeOK, StackInv, runs # <<>>, NEW t \in Tasks,
         runs' = Append([runs EXCEPT ![Len(runs)].nested = TRUE],
                        [task |-> t, message |-> None, state |-> "open", nested |-> FALSE])
  PROVE  /\ runs' \in Seq(RunRecords) /\ Len(runs') = Len(runs) + 1 /\ runs' # <<>>
         /\ runs'[Len(runs) + 1].message = None /\ runs'[Len(runs) + 1].task = t
         /\ runs'[Len(runs)].nested
         /\ \A i \in 1..Len(runs) : /\ runs'[i].message = runs[i].message
                                    /\ runs'[i].task = runs[i].task
                                    /\ i # Len(runs) => runs'[i].nested = runs[i].nested
<1> DEFINE below == [runs EXCEPT ![Len(runs)].nested = TRUE]
           new == [task |-> t, message |-> None, state |-> "open", nested |-> FALSE]
<1>1. runs \in Seq(RunRecords) /\ Len(runs) \in Nat \ {0}
  BY RunFacts DEF TypeOK, RunRecords
<1>2. runs \in [1..Len(runs) -> RunRecords]
  BY <1>1, SeqDef
<1> DEFINE last == runs[Len(runs)]
           nesting == [last EXCEPT !.nested = TRUE]
<1>3. /\ last \in RunRecords
      /\ nesting \in RunRecords
      /\ nesting.nested /\ nesting.message = last.message /\ nesting.task = last.task
  <2>1. last \in RunRecords
    BY <1>1, <1>2
  <2> HIDE DEF last
  <2> QED
    BY <2>1 DEF RunRecords
<1>4. below \in [1..Len(runs) -> RunRecords]
  BY <1>1, <1>2, <1>3
<1>5. below \in Seq(RunRecords) /\ Len(below) = Len(runs)
  BY <1>1, <1>4, SeqDef
<1>6. Len(runs) \in 1..Len(runs)
  BY <1>1
<1>7. below[Len(runs)] = nesting
  BY <1>2, <1>6
<1>8. \A i \in 1..Len(runs) : i # Len(runs) => below[i] = runs[i]
  BY <1>1, <1>2
<1>9. new \in RunRecords
  BY DEF RunRecords
<1>10. runs' = Append(below, new)
  OBVIOUS
<1> HIDE DEF below, new
<1>11. /\ runs' \in Seq(RunRecords) /\ Len(runs') = Len(runs) + 1
       /\ runs'[Len(runs) + 1] = new
       /\ \A i \in 1..Len(runs) : runs'[i] = below[i]
  <2>1. /\ Append(below, new) \in Seq(RunRecords) /\ Len(Append(below, new)) = Len(below) + 1
        /\ Append(below, new)[Len(below) + 1] = new
        /\ \A i \in 1..Len(below) : Append(below, new)[i] = below[i]
    BY <1>5, <1>9, AppendProperties
  <2> QED
    BY <1>5, <1>10, <2>1
<1>12. new.message = None /\ new.task = t
  BY DEF new
<1>13. runs' # <<>>
  BY <1>1, <1>11, EmptySeq
<1> HIDE DEF nesting
<1> QED
  BY <1>3, <1>6, <1>7, <1>8, <1>11, <1>12, <1>13

\* A run is taken off the stack.
LEMMA RunPopped ==
  ASSUME TypeOK, StackInv, runs # <<>>, runs' = SubSeq(runs, 1, Len(runs) - 1)
  PROVE  /\ runs' \in Seq(RunRecords) /\ Len(runs') = Len(runs) - 1
         /\ runs' = <<>> <=> Len(runs) = 1
         /\ \A i \in 1..Len(runs) - 1 : runs'[i] = runs[i]
<1>1. runs \in Seq(RunRecords) /\ Len(runs) \in Nat \ {0}
  BY RunFacts DEF TypeOK, RunRecords
<1>2. /\ runs' \in Seq(RunRecords) /\ Len(runs') = Len(runs) - 1
      /\ \A i \in 1..Len(runs) - 1 : runs'[i] = runs[i]
  <2> DEFINE n == Len(runs) - 1
  <2>1. n \in Nat /\ 1 \in Int /\ n \in Int /\ \A i \in 1..n : runs[i] \in RunRecords
    BY <1>1
  <2>2. runs' = SubSeq(runs, 1, n)
    OBVIOUS
  <2> HIDE DEF n
  <2>3. /\ SubSeq(runs, 1, n) \in Seq(RunRecords)
        /\ Len(SubSeq(runs, 1, n)) = IF 1 <= n THEN n - 1 + 1 ELSE 0
        /\ \A i \in 1..n - 1 + 1 : SubSeq(runs, 1, n)[i] = runs[1 + i - 1]
    BY ONLY <2>1, SubSeqProperties
  <2>4. Len(runs') = n /\ \A i \in 1..n : runs'[i] = runs[i]
    BY <2>1, <2>2, <2>3
  <2> QED
    BY <2>2, <2>3, <2>4 DEF n
<1>3. runs' = <<>> <=> Len(runs') = 0
  BY <1>2, EmptySeq
<1> QED
  BY <1>1, <1>2, <1>3

\* The first run starts.
LEMMA RunFirst ==
  ASSUME NEW m \in Messages, NEW t \in Tasks,
         runs' = <<[task |-> t, message |-> m, state |-> "open", nested |-> FALSE]>>
  PROVE  /\ runs' \in Seq(RunRecords) /\ Len(runs') = 1 /\ runs' # <<>>
         /\ runs'[1].message = m /\ runs'[1].task = t /\ ~runs'[1].nested
BY DEF RunRecords

-----------------------------------------------------------------------------
(* Types and the stack.                                                    *)

\* The initial state has them.
LEMMA InitInv == Init => IInv
<1> SUFFICES ASSUME Init PROVE IInv
  OBVIOUS
<1>1. runs = <<>> /\ runs \in Seq(RunRecords) /\ Len(runs) = 0
  BY DEF Init
<1>2. TypeOK
  BY <1>1 DEF Init, TypeOK, MessageStates, NoContext, NoTally, RunRecords
<1>3. StackInv /\ MessageInv /\ TimestampInv
  BY <1>1 DEF Init, StackInv, MessageInv, TimestampInv
<1> QED
  BY <1>2, <1>3 DEF IInv

\* Each step of each action keeps types and stack.
LEMMA Step == IInv /\ [Next]_vars => IInv'
<1> SUFFICES ASSUME IInv, [Next]_vars PROVE IInv'
  OBVIOUS
<1> USE DEF IInv
<1>1. ASSUME NEW m \in Messages, NEW t \in Tasks, NEW id \in Ids \cup {None},
             PublishOutside(m, t, id)
      PROVE  IInv'
  <2>0. /\ messages' \in [Messages -> MessageRecords] /\ origin' \in [Messages -> OriginRecords]
        /\ UNCHANGED <<runs, context, metrics, history>>
    BY <1>1, OutsideFacts
  <2>1. TypeOK'
    BY <2>0 DEF TypeOK, MessageRecords, OriginRecords, metrics, history
  <2>2. StackInv'
    BY <1>1, OutsideFacts, RunFacts DEF StackInv, Root
  <2>3. MessageInv' /\ TimestampInv'
    BY <1>1, OutsideFacts DEF MessageInv, TimestampInv, metrics
  <2> QED
    BY <2>1, <2>2, <2>3
<1>2. ASSUME NEW m \in Messages, NEW t \in Tasks, PublishInRun(m, t)
      PROVE  IInv'
  <2>1. runs # <<>> /\ Publish(m, t, None) /\ UNCHANGED <<runs, context, metrics, history>>
    BY <1>2 DEF PublishInRun
  <2>2. TypeOK'
    BY <2>1, PublishFacts DEF TypeOK, MessageRecords, OriginRecords, RunRecords, metrics, history
  <2>3. StackInv'
    BY <2>1, PublishFacts, RunFacts DEF StackInv, Root
  <2>4. MessageInv' /\ TimestampInv'
    BY <2>1, PublishFacts DEF MessageInv, TimestampInv, metrics
  <2> QED
    BY <2>2, <2>3, <2>4
<1>3. ASSUME NEW m \in Messages, Prerun(m)
      PROVE  IInv'
  <2> DEFINE t == messages[m].task
  <2>1. /\ runs = <<>> /\ messages[m].state = "queued"
        /\ messages' = [messages EXCEPT ![m].state = "taken"]
        /\ runs' = <<[task |-> t, message |-> m, state |-> "open", nested |-> FALSE]>>
        /\ StartRun(t, FALSE, messages[m].id)
        /\ UNCHANGED <<origin, killed, signals>>
    BY <1>3 DEF Prerun
  <2>2. t \in Tasks /\ messages[m].id \in Ids \cup {None}
    BY <2>1 DEF MessageInv, TypeOK
  <2> HIDE DEF t
  <2>3. /\ messages' \in [Messages -> MessageRecords]
        /\ messages'[m].state = "taken" /\ messages'[m].task = messages[m].task
        /\ \A q \in Messages \ {m} : messages'[q] = messages[q]
    BY <2>1, MessageMoves DEF MessageStates
  <2>4. /\ runs' \in Seq(RunRecords) /\ Len(runs') = 1
        /\ runs'[1].message = m /\ runs'[1].task = t
    BY <2>1, <2>2, RunFirst
  <2>10. /\ starts' = starts + 1 /\ starts' \in 1..MaxStarts
         /\ context' \in [exists : BOOLEAN, id : Ids \cup {None}]
         /\ timestamp' = [timestamp EXCEPT ![t] = starts + 1]
         /\ timestamp' \in [Tasks -> 1..starts' \cup {None}]
         /\ counted' \in [Kinds -> [Tasks -> Nat]]
         /\ marked' \in [Tasks -> SUBSET Protected]
         /\ latency' \in [1..MaxStarts -> Nat]
    BY <2>1, <2>2, StartTypes, Zenon
  <2>5. TypeOK'
    BY <2>1, <2>3, <2>4, <2>10 DEF TypeOK, MessageRecords, OriginRecords, RunRecords
  <2>6. StackInv'
    BY <2>3, <2>4 DEF StackInv, Root
  <2>7. MessageInv'
    BY <2>2, <2>3 DEF MessageInv, t
  <2>8. TimestampInv'
    <3>1. \A u \in Tasks : timestamp[u] = None
      BY <2>1 DEF TimestampInv
    <3>2. \A u \in Tasks \ {t} : timestamp'[u] = None
      BY <2>10, <3>1 DEF TypeOK
    <3> QED
      BY <2>4, <3>2 DEF TimestampInv
  <2> QED
    BY <2>5, <2>6, <2>7, <2>8
<1>4. ASSUME NEW t \in Tasks, EagerPrerun(t)
      PROVE  IInv'
  <2>1. /\ runs # <<>> /\ UNCHANGED <<messages, origin, killed, signals>>
        /\ runs' = Append([runs EXCEPT ![Len(runs)].nested = TRUE],
                          [task |-> t, message |-> None, state |-> "open", nested |-> FALSE])
        /\ StartRun(t, TRUE, None)
    BY <1>4 DEF EagerPrerun, broker
  <2>2. /\ runs' \in Seq(RunRecords) /\ Len(runs') = Len(runs) + 1 /\ runs' # <<>>
        /\ runs'[Len(runs) + 1].message = None /\ runs'[Len(runs) + 1].task = t
        /\ runs'[Len(runs)].nested
        /\ \A i \in 1..Len(runs) : /\ runs'[i].message = runs[i].message
                                   /\ runs'[i].task = runs[i].task
                                   /\ i # Len(runs) => runs'[i].nested = runs[i].nested
    BY <2>1, RunPushed
  <2>3. Len(runs) \in Nat \ {0}
    BY <2>1, RunFacts
  <2>10. /\ starts' = starts + 1 /\ starts' \in 1..MaxStarts
         /\ context' \in [exists : BOOLEAN, id : Ids \cup {None}]
         /\ timestamp' = [timestamp EXCEPT ![t] = starts + 1]
         /\ timestamp' \in [Tasks -> 1..starts' \cup {None}]
         /\ counted' \in [Kinds -> [Tasks -> Nat]]
         /\ marked' \in [Tasks -> SUBSET Protected]
         /\ latency' \in [1..MaxStarts -> Nat]
    BY <2>1, StartTypes, Zenon
  <2>4. TypeOK'
    BY <2>1, <2>2, <2>10 DEF TypeOK, MessageRecords, OriginRecords, RunRecords
  <2>5. StackInv'
    <3>1. \A i \in 1..Len(runs') : runs'[i].message = None <=> i # 1
      BY <2>2, <2>3 DEF StackInv
    <3>2. runs'[1].message = runs[1].message
      BY <2>2, <2>3
    <3>3. runs'[1].nested
      BY <2>2, <2>3 DEF StackInv, Root
    <3> QED
      BY <2>1, <3>1, <3>2, <3>3 DEF StackInv, Root
  <2>6. TimestampInv'
    <3>1. \A u \in Tasks \ {t} : timestamp'[u] = timestamp[u]
      BY <2>10 DEF TypeOK
    <3> QED
      BY <2>2, <2>3, <3>1 DEF TimestampInv
  <2> QED
    BY <2>1, <2>4, <2>5, <2>6 DEF MessageInv
<1>5. ASSUME NEW kind \in {"success", "failure"}, RunEnds(kind)
      PROVE  IInv'
  <2>1. /\ runs # <<>> /\ runs' = [runs EXCEPT ![Len(runs)].state = "over"]
        /\ Signal(kind, Run.task) /\ UNCHANGED <<messages, origin, context>>
    BY <1>5 DEF RunEnds, broker
  <2>2. kind \in Kinds /\ Run.task \in Tasks
    BY <2>1, RunFacts DEF Kinds, Protected, RunRecords
  <2>3. TypeOK'
    BY <2>1, <2>2, SignalTypes, RunOver DEF TypeOK, MessageRecords, OriginRecords, RunRecords
  <2>4. StackInv'
    BY <2>1, RunOver, RunFacts DEF StackInv, Root
  <2>5. MessageInv'
    BY <2>1 DEF MessageInv
  <2>6. TimestampInv'
    <3>1. UNCHANGED timestamp /\ Len(runs') = Len(runs)
          /\ \A i \in 1..Len(runs) : runs'[i].task = runs[i].task
      BY <2>1, <2>2, RunOver, SignalTypes
    <3> QED
      BY <3>1 DEF TimestampInv
  <2> QED
    BY <2>3, <2>4, <2>5, <2>6
<1>6. ASSUME NEW m \in Messages, RunRetries(m)
      PROVE  IInv'
  <2>1. /\ runs # <<>> /\ runs' = [runs EXCEPT ![Len(runs)].state = "over"]
        /\ Run.message # None /\ Publish(m, Run.task, messages[Run.message].id)
        /\ Signal("retry", Run.task) /\ UNCHANGED context
    BY <1>6 DEF RunRetries
  <2>2. /\ "retry" \in Kinds /\ Run.task \in Tasks
        /\ messages[Run.message].id \in Ids \cup {None}
    BY <2>1, RunFacts DEF Kinds, RunRecords, TypeOK
  <2>7. /\ messages' \in [Messages -> MessageRecords] /\ origin' \in [Messages -> OriginRecords]
        /\ messages'[m].task = Run.task
        /\ \A q \in Messages \ {m} : messages'[q] = messages[q]
    BY <2>1, <2>2, PublishFacts
  <2>8. /\ counted' \in [Kinds -> [Tasks -> Nat]]
        /\ marked' \in [Tasks -> SUBSET Protected]
        /\ signals' \in [Kinds -> [Tasks -> Nat]]
        /\ UNCHANGED <<timestamp, latency, starts, killed>>
    BY <2>1, <2>2, SignalTypes
  <2>9. runs' \in Seq(RunRecords)
    BY <2>1, RunOver
  <2>3. TypeOK'
    BY <2>1, <2>7, <2>8, <2>9 DEF TypeOK, MessageRecords, OriginRecords, RunRecords
  <2>4. StackInv'
    BY <2>1, <2>2, RunOver, RunFacts, PublishFacts DEF StackInv, Root
  <2>5. MessageInv'
    BY <2>2, <2>7 DEF MessageInv
  <2>6. TimestampInv'
    <3>1. UNCHANGED timestamp /\ Len(runs') = Len(runs)
          /\ \A i \in 1..Len(runs) : runs'[i].task = runs[i].task
      BY <2>1, <2>2, RunOver, SignalTypes
    <3> QED
      BY <3>1 DEF TimestampInv
  <2> QED
    BY <2>3, <2>4, <2>5, <2>6
<1>7. CASE Postrun
  <2> DEFINE t == Run.task
  <2>1. /\ runs # <<>> /\ FinishRun(t) /\ runs' = SubSeq(runs, 1, Len(runs) - 1)
        /\ messages' = IF Run.message = None THEN messages
                       ELSE [messages EXCEPT ![Run.message].state = "done"]
        /\ UNCHANGED <<origin, marked, counted, history>>
    BY <1>7 DEF Postrun
  <2>2. t \in Tasks /\ Len(runs) \in Nat \ {0}
    BY <2>1, RunFacts DEF RunRecords
  <2>3. /\ runs' \in Seq(RunRecords) /\ Len(runs') = Len(runs) - 1
        /\ runs' = <<>> <=> Len(runs) = 1
        /\ \A i \in 1..Len(runs) - 1 : runs'[i] = runs[i]
    BY <2>1, RunPopped
  <2>4. /\ messages' \in [Messages -> MessageRecords]
        /\ \A q \in Messages : messages[q].state # "new" <=> messages'[q].state # "new"
        /\ \A q \in Messages : messages'[q].task = messages[q].task
        /\ Run.message = None => messages' = messages
    <3>1. CASE Run.message = None
      BY <2>1, <3>1 DEF TypeOK, MessageRecords
    <3>2. CASE Run.message # None
      <4>1. Run.message \in Messages /\ messages[Run.message].state = "taken"
        BY <2>1, <3>2, RunFacts DEF StackInv
      <4> QED
        BY <2>1, <3>2, <4>1, MessageMoves DEF MessageStates
    <3> QED
      BY <3>1, <3>2
  <2>5. /\ timestamp' = [timestamp EXCEPT ![t] = None] /\ context' = NoContext
        /\ latency' \in [1..MaxStarts -> Nat]
    <3>1. CASE timestamp[t] # None
      <4>1. timestamp[t] \in 1..MaxStarts
        BY <2>2, <3>1 DEF TypeOK
      <4> QED
        BY <2>1, <3>1, <4>1 DEF TypeOK, FinishRun, Observe
    <3>2. CASE timestamp[t] = None
      BY <2>1, <3>2 DEF TypeOK, FinishRun
    <3> QED
      BY <3>1, <3>2
  <2> HIDE DEF t
  <2>6. TypeOK'
    BY <2>1, <2>2, <2>3, <2>4, <2>5 DEF TypeOK, MessageRecords, OriginRecords, RunRecords, history, NoContext
  <2>7. StackInv'
    <3>1. CASE Len(runs) = 1
      BY <2>3, <3>1 DEF StackInv
    <3>2. CASE Len(runs) # 1
      <4>1. Run.message = None
        BY <2>1, <2>2, <3>2, RunFacts
      <4>2. messages' = messages /\ runs'[1] = runs[1]
        BY <2>2, <2>3, <2>4, <3>2, <4>1
      <4>3. \A i \in 1..Len(runs') : runs'[i].message = None <=> i # 1
        <5>1. \A i \in 1..Len(runs) : runs[i].message = None <=> i # 1
          BY DEF StackInv
        <5>2. \A i \in 1..Len(runs') : i \in 1..Len(runs) /\ runs'[i] = runs[i]
          BY <2>2, <2>3
        <5> QED
          BY <5>1, <5>2
      <4>4. runs'[1].nested
        <5>1. Len(runs) > 1
          <6>1. \A n \in Nat \ {0} : n # 1 => n > 1
            OBVIOUS
          <6> QED
            BY <2>2, <3>2, <6>1
        <5> QED
          BY <4>2, <5>1, Zenon DEF StackInv, Root
      <4> QED
        BY <2>1, <4>2, <4>3, <4>4 DEF StackInv, Root
    <3> QED
      BY <3>1, <3>2
  <2>8. MessageInv'
    BY <2>4 DEF MessageInv
  <2>9. TimestampInv'
    <3> SUFFICES ASSUME NEW u \in Tasks, timestamp'[u] # None
                 PROVE  \E i \in 1..Len(runs') : runs'[i].task = u
      BY DEF TimestampInv
    <3>1. u # t /\ timestamp'[u] = timestamp[u]
      BY <2>2, <2>5 DEF TypeOK
    <3>2. PICK i \in 1..Len(runs) : runs[i].task = u
      BY <3>1 DEF TimestampInv
    <3>3. i # Len(runs)
      BY <3>1, <3>2 DEF t, Run
    <3> QED
      BY <2>2, <2>3, <3>2, <3>3
  <2> QED
    BY <2>6, <2>7, <2>8, <2>9
<1>8. ASSUME NEW m \in Messages, Revoke(m)
      PROVE  IInv'
  <2>1. /\ messages[m].state = "queued" /\ messages' = [messages EXCEPT ![m].state = "done"]
        /\ Signal("revoked", messages[m].task) /\ UNCHANGED <<origin, runs, context>>
    BY <1>8 DEF Revoke
  <2>2. "revoked" \in Kinds /\ messages[m].task \in Tasks
    BY <2>1 DEF Kinds, Protected, MessageInv
  <2>3. /\ messages' \in [Messages -> MessageRecords]
        /\ messages'[m].task = messages[m].task
        /\ \A q \in Messages \ {m} : messages'[q] = messages[q]
    BY <2>1, MessageMoves DEF MessageStates
  <2>4. TypeOK'
    BY <2>1, <2>2, <2>3, SignalTypes DEF TypeOK, MessageRecords, OriginRecords, RunRecords
  <2>5. StackInv'
    BY <2>1, <2>3, RunFacts DEF StackInv, Root
  <2>6. MessageInv' /\ TimestampInv'
    BY <2>1, <2>2, <2>3, SignalTypes DEF MessageInv, TimestampInv
  <2> QED
    BY <2>4, <2>5, <2>6
<1>9. CASE Kill
  <2>1. /\ runs # <<>> /\ runs' = <<>> /\ context' = NoContext
        /\ timestamp' = [t \in Tasks |-> None]
        /\ marked' = [t \in Tasks |-> marked[t] \cap {"revoked"}]
        /\ killed' = killed \cup ({timestamp[t] : t \in Tasks} \ {None})
        /\ UNCHANGED <<origin, counted, latency, starts, signals>>
    BY <1>9 DEF Kill
  <2>2. PICK s \in {"queued", "done"} : messages' = [messages EXCEPT ![Root.message].state = s]
    BY <1>9 DEF Kill
  <2>3. Root.message \in Messages /\ messages[Root.message].state = "taken"
    BY <2>1, RunFacts DEF StackInv
  <2>4. /\ messages' \in [Messages -> MessageRecords]
        /\ \A q \in Messages : messages[q].state # "new" <=> messages'[q].state # "new"
        /\ \A q \in Messages : messages'[q].task = messages[q].task
    BY <2>2, <2>3, MessageMoves DEF MessageStates
  <2>5. TypeOK'
    <3>1. killed' \subseteq 1..starts
      <4>1. \A t \in Tasks : timestamp[t] \in 1..starts \cup {None}
        BY DEF TypeOK
      <4>2. {timestamp[t] : t \in Tasks} \ {None} \subseteq 1..starts
        BY <4>1
      <4> QED
        BY <2>1, <4>2 DEF TypeOK
    <3>2. timestamp' \in [Tasks -> 1..starts \cup {None}] /\ marked' \in [Tasks -> SUBSET Protected]
      BY <2>1 DEF TypeOK
    <3>3. context' \in [exists : BOOLEAN, id : Ids \cup {None}]
      BY <2>1 DEF NoContext
    <3>4. runs' \in Seq(RunRecords)
      BY <2>1
    <3> QED
      BY <2>1, <2>4, <3>1, <3>2, <3>3, <3>4 DEF TypeOK, MessageRecords, OriginRecords, RunRecords
  <2>6. StackInv' /\ MessageInv' /\ TimestampInv'
    BY <2>1, <2>4 DEF StackInv, MessageInv, TimestampInv
  <2> QED
    BY <2>5, <2>6
<1>10. CASE UNCHANGED vars
  BY <1>10 DEF vars, broker, metrics, history, TypeOK, StackInv, MessageInv, TimestampInv, Root
<1> QED
  BY <1>1, <1>2, <1>3, <1>4, <1>5, <1>6, <1>7, <1>8, <1>9, <1>10 DEF Next

-----------------------------------------------------------------------------
(* Each run is measured once.                                              *)

\* A run that has a timestamp, or was killed, is not measured yet; a run that is
\* neither is; and a run that has not started is not.
Measured ==
  /\ \A t \in Tasks : timestamp[t] # None => latency[timestamp[t]] = 0 /\ timestamp[t] \notin killed
  /\ \A n \in killed : latency[n] = 0
  /\ \A n \in 1..starts : latency[n] = 1 \/ n \in killed \/ \E t \in Tasks : timestamp[t] = n
  /\ \A n \in 1..MaxStarts : n > starts => latency[n] = 0
  /\ \A t, u \in Tasks : timestamp[t] = timestamp[u] /\ t # u => timestamp[t] = None

\* What is measured of each run, as MeasuredOnce says it.
LEMMA MeasuredImplies == TypeOK /\ Measured => MeasuredOnce
<1> SUFFICES ASSUME TypeOK, Measured PROVE MeasuredOnce
  OBVIOUS
<1>1. ASSUME NEW n \in 1..starts
      PROVE  latency[n] = IF n \in Waiting \cup killed THEN 0 ELSE 1
  <2>1. n # None
    OBVIOUS
  <2>2. CASE \E t \in Tasks : timestamp[t] = n
    <3>1. n \in Waiting /\ latency[n] = 0
      BY <2>1, <2>2 DEF Measured, Waiting
    <3> QED
      BY <3>1
  <2>3. CASE n \in killed
    BY <2>3 DEF Measured
  <2>4. CASE n \notin killed /\ ~\E t \in Tasks : timestamp[t] = n
    <3>1. n \notin Waiting /\ latency[n] = 1
      BY <2>4 DEF Measured, Waiting
    <3> QED
      BY <2>4, <3>1
  <2> QED
    BY <2>2, <2>3, <2>4
<1>2. Waiting \cap killed = {}
  BY DEF Measured, Waiting
<1> QED
  BY <1>1, <1>2 DEF MeasuredOnce, Measured

\* A task gets the timestamp of a run that starts, and the one it had, if any, is
\* observed.
LEMMA MeasuredStart ==
  ASSUME TypeOK, Measured, NEW t \in Tasks,
         starts' = starts + 1, starts' \in 1..MaxStarts, killed' = killed,
         timestamp' = [timestamp EXCEPT ![t] = starts + 1],
         IF timestamp[t] = None THEN latency' = latency ELSE Observe(timestamp[t])
  PROVE  Measured'
<1>1. /\ starts \in Nat /\ starts + 1 \in 1..MaxStarts /\ starts + 1 # None
      /\ timestamp'[t] = starts + 1
      /\ \A u \in Tasks \ {t} : timestamp'[u] = timestamp[u]
      /\ \A u \in Tasks : timestamp[u] # None => timestamp[u] \in 1..starts
      /\ killed \subseteq 1..starts
  BY DEF TypeOK
<1>2. /\ timestamp[t] # None => latency'[timestamp[t]] = 1
      /\ \A n \in 1..MaxStarts : n # timestamp[t] => latency'[n] = latency[n]
  <2>1. CASE timestamp[t] = None
    BY <2>1
  <2>2. CASE timestamp[t] # None
    <3>1. timestamp[t] \in 1..MaxStarts /\ latency[timestamp[t]] = 0
      BY <1>1, <2>2 DEF Measured
    <3> QED
      BY <2>2, <3>1 DEF Observe, TypeOK
  <2> QED
    BY <2>1, <2>2
<1>3. \A u \in Tasks : timestamp'[u] # None =>
         latency'[timestamp'[u]] = 0 /\ timestamp'[u] \notin killed
  <2>1. latency'[starts + 1] = 0 /\ starts + 1 \notin killed
    BY <1>1, <1>2 DEF Measured
  <2>2. \A u \in Tasks \ {t} : timestamp[u] # None =>
          latency'[timestamp[u]] = 0 /\ timestamp[u] \notin killed
    <3> SUFFICES ASSUME NEW u \in Tasks \ {t}, timestamp[u] # None
                 PROVE  latency'[timestamp[u]] = 0 /\ timestamp[u] \notin killed
      OBVIOUS
    <3>1. timestamp[u] # timestamp[t]
      BY DEF Measured
    <3>2. timestamp[u] \in 1..MaxStarts
      BY <1>1
    <3> QED
      BY <1>2, <3>1, <3>2 DEF Measured
  <2> QED
    BY <1>1, <2>1, <2>2
<1>4. \A n \in killed : latency'[n] = 0
  <2> SUFFICES ASSUME NEW n \in killed PROVE latency'[n] = 0
    OBVIOUS
  <2>1. n \in 1..MaxStarts /\ n # None /\ n # timestamp[t]
    BY <1>1 DEF Measured
  <2> QED
    BY <1>2, <2>1 DEF Measured
<1>5. \A n \in 1..starts' : latency'[n] = 1 \/ n \in killed \/ \E u \in Tasks : timestamp'[u] = n
  <2> SUFFICES ASSUME NEW n \in 1..starts', n \notin killed, ~\E u \in Tasks : timestamp'[u] = n
               PROVE  latency'[n] = 1
    OBVIOUS
  <2>1. n \in 1..starts /\ n \in 1..MaxStarts
    BY <1>1
  <2>2. CASE n = timestamp[t]
    BY <1>2, <2>1, <2>2
  <2>3. CASE n # timestamp[t]
    <3>1. ~\E u \in Tasks : timestamp[u] = n
      BY <1>1, <2>3
    <3> QED
      BY <1>2, <2>1, <2>3, <3>1 DEF Measured
  <2> QED
    BY <2>2, <2>3
<1>6. \A n \in 1..MaxStarts : n > starts' => latency'[n] = 0
  BY <1>1, <1>2 DEF Measured
<1>7. \A u, v \in Tasks : timestamp'[u] = timestamp'[v] /\ u # v => timestamp'[u] = None
  BY <1>1 DEF Measured
<1> QED
  BY <1>3, <1>4, <1>5, <1>6, <1>7 DEF Measured

\* A task loses its timestamp, which is observed.
LEMMA MeasuredFinish ==
  ASSUME TypeOK, Measured, NEW t \in Tasks, starts' = starts, killed' = killed,
         timestamp' = [timestamp EXCEPT ![t] = None],
         IF timestamp[t] = None THEN latency' = latency ELSE Observe(timestamp[t])
  PROVE  Measured'
<1>1. /\ starts \in Nat /\ starts <= MaxStarts
      /\ timestamp'[t] = None
      /\ \A u \in Tasks \ {t} : timestamp'[u] = timestamp[u]
      /\ \A u \in Tasks : timestamp[u] # None => timestamp[u] \in 1..starts
      /\ killed \subseteq 1..starts
  BY DEF TypeOK
<1>2. /\ timestamp[t] # None => latency'[timestamp[t]] = 1
      /\ \A n \in 1..MaxStarts : n # timestamp[t] => latency'[n] = latency[n]
  <2>1. CASE timestamp[t] = None
    BY <2>1
  <2>2. CASE timestamp[t] # None
    <3>1. timestamp[t] \in 1..MaxStarts /\ latency[timestamp[t]] = 0
      BY <1>1, <2>2 DEF Measured
    <3> QED
      BY <2>2, <3>1 DEF Observe, TypeOK
  <2> QED
    BY <2>1, <2>2
<1>3. \A u \in Tasks : timestamp'[u] # None =>
         latency'[timestamp'[u]] = 0 /\ timestamp'[u] \notin killed
  <2> SUFFICES ASSUME NEW u \in Tasks \ {t}, timestamp[u] # None
               PROVE  latency'[timestamp[u]] = 0 /\ timestamp[u] \notin killed
    BY <1>1
  <2>1. timestamp[u] # timestamp[t]
    BY DEF Measured
  <2>2. timestamp[u] \in 1..MaxStarts
    BY <1>1
  <2> QED
    BY <1>2, <2>1, <2>2 DEF Measured
<1>4. \A n \in killed : latency'[n] = 0
  <2> SUFFICES ASSUME NEW n \in killed PROVE latency'[n] = 0
    OBVIOUS
  <2>1. n \in 1..MaxStarts /\ n # None /\ n # timestamp[t]
    BY <1>1 DEF Measured
  <2> QED
    BY <1>2, <2>1 DEF Measured
<1>5. \A n \in 1..starts : latency'[n] = 1 \/ n \in killed \/ \E u \in Tasks : timestamp'[u] = n
  <2> SUFFICES ASSUME NEW n \in 1..starts, n \notin killed, ~\E u \in Tasks : timestamp'[u] = n
               PROVE  latency'[n] = 1
    OBVIOUS
  <2>1. n \in 1..MaxStarts /\ n # None
    BY <1>1
  <2>2. CASE n = timestamp[t]
    BY <1>2, <2>1, <2>2
  <2>3. CASE n # timestamp[t]
    <3>1. ~\E u \in Tasks : timestamp[u] = n
      BY <1>1, <2>3
    <3> QED
      BY <1>2, <2>1, <2>3, <3>1 DEF Measured
  <2> QED
    BY <2>2, <2>3
<1>6. \A n \in 1..MaxStarts : n > starts => latency'[n] = 0
  <2> SUFFICES ASSUME NEW n \in 1..MaxStarts, n > starts PROVE latency'[n] = 0
    OBVIOUS
  <2>1. n # timestamp[t]
    BY <1>1
  <2> QED
    BY <1>2, <2>1 DEF Measured
<1>7. \A u, v \in Tasks : timestamp'[u] = timestamp'[v] /\ u # v => timestamp'[u] = None
  BY <1>1 DEF Measured
<1> QED
  BY <1>3, <1>4, <1>5, <1>6, <1>7 DEF Measured

\* What is measured of each run after each step.
LEMMA MeasuredStep == IInv /\ Measured /\ [Next]_vars => Measured'
<1> SUFFICES ASSUME IInv, Measured, [Next]_vars PROVE Measured'
  OBVIOUS
<1> USE DEF IInv
<1>1. ASSUME UNCHANGED <<timestamp, latency, starts, killed>> PROVE Measured'
  BY <1>1 DEF Measured
<1>2. ASSUME NEW kind \in Kinds, NEW t \in Tasks, Signal(kind, t) PROVE Measured'
  BY <1>1, <1>2, SignalTypes
<1>3. ASSUME NEW m \in Messages, Prerun(m) PROVE Measured'
  <2> DEFINE t == messages[m].task
  <2>1. /\ messages[m].state = "queued" /\ runs = <<>> /\ killed' = killed
        /\ StartRun(t, FALSE, messages[m].id)
    BY <1>3 DEF Prerun
  <2>2. t \in Tasks
    BY <2>1 DEF MessageInv
  <2>3. timestamp[t] = None
    BY <2>1, <2>2 DEF TimestampInv
  <2> HIDE DEF t
  <2>4. /\ starts' = starts + 1 /\ starts' \in 1..MaxStarts
        /\ timestamp' = [timestamp EXCEPT ![t] = starts + 1] /\ latency' = latency
    BY <2>1, <2>3 DEF StartRun, TypeOK
  <2> QED
    BY <2>1, <2>2, <2>3, <2>4, MeasuredStart
<1>4. ASSUME NEW t \in Tasks, EagerPrerun(t) PROVE Measured'
  <2>1. StartRun(t, TRUE, None) /\ killed' = killed
    BY <1>4 DEF EagerPrerun
  <2>2. /\ starts' = starts + 1 /\ starts' \in 1..MaxStarts
        /\ timestamp' = [timestamp EXCEPT ![t] = starts + 1]
        /\ IF timestamp[t] = None THEN latency' = latency ELSE Observe(timestamp[t])
    BY <2>1 DEF StartRun, TypeOK
  <2> QED
    BY <2>1, <2>2, MeasuredStart
<1>5. CASE Postrun
  <2>1. runs # <<>> /\ FinishRun(Run.task) /\ starts' = starts /\ killed' = killed
    BY <1>5 DEF Postrun, history
  <2>2. Run.task \in Tasks
    BY <2>1, RunFacts DEF RunRecords
  <2>3. /\ timestamp' = [timestamp EXCEPT ![Run.task] = None]
        /\ IF timestamp[Run.task] = None THEN latency' = latency ELSE Observe(timestamp[Run.task])
    BY <2>1 DEF FinishRun
  <2> QED
    BY <2>1, <2>2, <2>3, MeasuredFinish
<1>6. CASE Kill
  <2>1. /\ timestamp' = [t \in Tasks |-> None]
        /\ killed' = killed \cup ({timestamp[t] : t \in Tasks} \ {None})
        /\ UNCHANGED <<latency, starts>>
    BY <1>6 DEF Kill
  <2>2. \A n \in killed' : latency'[n] = 0
    BY <2>1 DEF Measured
  <2>3. \A n \in 1..starts : n # None
    OBVIOUS
  <2>4. \A n \in 1..starts' : latency'[n] = 1 \/ n \in killed'
    BY <2>1, <2>3 DEF Measured
  <2> QED
    BY <2>1, <2>2, <2>4 DEF Measured
<1>7. ASSUME NEW m \in Messages, NEW t \in Tasks, NEW id \in Ids \cup {None},
             PublishOutside(m, t, id)
      PROVE  Measured'
  BY <1>1, <1>7 DEF PublishOutside, metrics, history
<1>8. ASSUME NEW m \in Messages, NEW t \in Tasks, PublishInRun(m, t) PROVE Measured'
  BY <1>1, <1>8 DEF PublishInRun, metrics, history
<1>9. ASSUME NEW kind \in {"success", "failure"}, RunEnds(kind) PROVE Measured'
  BY <1>2, <1>9, RunFacts DEF RunEnds, Kinds, Protected, RunRecords
<1>10. ASSUME NEW m \in Messages, RunRetries(m) PROVE Measured'
  BY <1>2, <1>10, RunFacts DEF RunRetries, Kinds, RunRecords
<1>11. ASSUME NEW m \in Messages, Revoke(m) PROVE Measured'
  BY <1>2, <1>11 DEF Revoke, Kinds, Protected, MessageInv
<1>12. CASE UNCHANGED vars
  BY <1>1, <1>12 DEF vars, metrics, history
<1> QED
  BY <1>3, <1>4, <1>5, <1>6, <1>7, <1>8, <1>9, <1>10, <1>11, <1>12 DEF Next

-----------------------------------------------------------------------------
(* Request ids.                                                            *)

\* Nobody has the id of another request.
IdInv ==
  /\ runs = <<>> => context = NoContext
  /\ runs # <<>> => context.id \in {None, origin[Root.message].id}
  /\ \A m \in Messages : messages[m].id \in {None, origin[m].id}

\* A message that is published in a run has the id of the request the run goes back
\* to, or none; and if nothing was run in the run, and all was in order until then,
\* it has what the run has.
LEMMA PublishKeepsIds ==
  ASSUME TypeOK, StackInv, IdInv, IdHandedOn, runs # <<>>, NEW m \in Messages, NEW t \in Tasks,
         NEW old \in {None, messages[Root.message].id}, Publish(m, t, old)
  PROVE  /\ \A q \in Messages : messages'[q].id \in {None, origin'[q].id}
         /\ \A q \in Messages : origin'[q].intact => messages'[q].id = origin'[q].id
         /\ origin'[Root.message] = origin[Root.message]
<1>1. Root.message \in Messages
  BY RunFacts
<1>2. old \in {None, origin[Root.message].id} /\ old \in Ids \cup {None}
  BY <1>1 DEF IdInv, TypeOK
<1>3. /\ m # Root.message
      /\ messages'[m].id \in Header(context.id, old)
      /\ origin'[m].id = origin[Root.message].id
      /\ origin'[m].intact => origin[Root.message].intact /\ Len(runs) = 1 /\ ~Root.nested
      /\ \A q \in Messages \ {m} : messages'[q] = messages[q] /\ origin'[q] = origin[q]
  BY <1>2, PublishFacts
<1>4. messages'[m].id \in {None, origin'[m].id}
  BY <1>2, <1>3 DEF Header, IdInv
<1>5. ASSUME origin'[m].intact PROVE messages'[m].id = origin'[m].id
  <2>1. context.id = origin[Root.message].id
    BY <1>3, <1>5 DEF IdHandedOn, NewContext
  <2> QED
    BY <1>2, <1>3, <2>1 DEF Header
<1> QED
  BY <1>1, <1>3, <1>4, <1>5 DEF IdInv, IdHandedOn

\* The ids and the measurements at the start.
LEMMA InitIds == Init => IdInv /\ IdHandedOn /\ Measured
BY DEF Init, IdInv, IdHandedOn, Measured, NoContext

\* Each step of each action keeps the ids apart, and hands them on.
LEMMA IdStep == IInv /\ IdInv /\ IdHandedOn /\ [Next]_vars => IdInv' /\ IdHandedOn'
<1> SUFFICES ASSUME IInv, IdInv, IdHandedOn, [Next]_vars PROVE IdInv' /\ IdHandedOn'
  OBVIOUS
<1> USE DEF IInv
<1>1. ASSUME NEW m \in Messages, NEW t \in Tasks, NEW id \in Ids \cup {None},
             PublishOutside(m, t, id)
      PROVE  IdInv' /\ IdHandedOn'
  <2>1. /\ messages'[m].id = origin'[m].id
        /\ \A q \in Messages \ {m} : messages'[q] = messages[q] /\ origin'[q] = origin[q]
        /\ UNCHANGED <<runs, context>> /\ messages[m].state = "new"
    BY <1>1, OutsideFacts
  <2>2. runs # <<>> => Root.message \in Messages \ {m}
    BY <2>1, RunFacts DEF StackInv
  <2> QED
    BY <2>1, <2>2 DEF IdInv, IdHandedOn, Root
<1>2. ASSUME NEW m \in Messages, NEW t \in Tasks, PublishInRun(m, t)
      PROVE  IdInv' /\ IdHandedOn'
  <2>1. runs # <<>> /\ Publish(m, t, None) /\ UNCHANGED <<runs, context>>
    BY <1>2 DEF PublishInRun
  <2>2. /\ \A q \in Messages : messages'[q].id \in {None, origin'[q].id}
        /\ \A q \in Messages : origin'[q].intact => messages'[q].id = origin'[q].id
        /\ origin'[Root.message] = origin[Root.message]
    BY <2>1, PublishKeepsIds
  <2> QED
    BY <2>1, <2>2 DEF IdInv, IdHandedOn, Root
<1>3. ASSUME NEW m \in Messages, Prerun(m)
      PROVE  IdInv' /\ IdHandedOn'
  <2>1. /\ messages[m].state = "queued" /\ messages' = [messages EXCEPT ![m].state = "taken"]
        /\ runs' = <<[task |-> messages[m].task, message |-> m, state |-> "open", nested |-> FALSE]>>
        /\ StartRun(messages[m].task, FALSE, messages[m].id)
        /\ origin' = origin
    BY <1>3 DEF Prerun
  <2>2. \A q \in Messages : messages'[q].id = messages[q].id
    BY <2>1, MessageMoves DEF MessageStates
  <2>3. context' = NewContext(messages[m].id)
    BY <2>1 DEF StartRun, RunContext
  <2>4. messages[m].task \in Tasks
    BY <2>1 DEF MessageInv
  <2>5. runs' # <<>> /\ runs'[1].message = m
    BY <2>1, <2>4, RunFirst
  <2> QED
    BY <2>1, <2>2, <2>3, <2>5 DEF IdInv, IdHandedOn, Root, NewContext
<1>4. ASSUME NEW t \in Tasks, EagerPrerun(t)
      PROVE  IdInv' /\ IdHandedOn'
  <2>1. /\ runs # <<>> /\ UNCHANGED <<messages, origin>>
        /\ runs' = Append([runs EXCEPT ![Len(runs)].nested = TRUE],
                          [task |-> t, message |-> None, state |-> "open", nested |-> FALSE])
        /\ context' = NewContext(None)
    BY <1>4 DEF EagerPrerun, broker, StartRun, RunContext
  <2>2. /\ runs' # <<>> /\ runs'[Len(runs)].nested
        /\ \A i \in 1..Len(runs) : /\ runs'[i].message = runs[i].message
                                   /\ i # Len(runs) => runs'[i].nested = runs[i].nested
    BY <2>1, RunPushed
  <2>3. Len(runs) \in Nat \ {0}
    BY <2>1, RunFacts
  <2>4. runs'[1].nested
    BY <2>2, <2>3 DEF StackInv, Root
  <2> QED
    BY <2>1, <2>2, <2>4 DEF IdInv, IdHandedOn, Root, NewContext
<1>5. ASSUME NEW kind \in {"success", "failure"}, RunEnds(kind)
      PROVE  IdInv' /\ IdHandedOn'
  <2>1. /\ runs # <<>> /\ runs' = [runs EXCEPT ![Len(runs)].state = "over"]
        /\ UNCHANGED <<messages, origin, context>>
    BY <1>5 DEF RunEnds, broker
  <2>2. /\ runs' # <<>> /\ runs'[1].message = runs[1].message /\ runs'[1].nested = runs[1].nested
    <3>1. 1 \in 1..Len(runs)
      BY <2>1, RunFacts
    <3> QED
      BY <2>1, <3>1, RunOver
  <2> QED
    BY <2>1, <2>2 DEF IdInv, IdHandedOn, Root
<1>6. ASSUME NEW m \in Messages, RunRetries(m)
      PROVE  IdInv' /\ IdHandedOn'
  <2>1. /\ runs # <<>> /\ runs' = [runs EXCEPT ![Len(runs)].state = "over"]
        /\ Run.message # None /\ Publish(m, Run.task, messages[Run.message].id)
        /\ context' = context
    BY <1>6 DEF RunRetries
  <2>2. Run = Root /\ Run.task \in Tasks
    BY <2>1, RunFacts DEF RunRecords
  <2>3. /\ \A q \in Messages : messages'[q].id \in {None, origin'[q].id}
        /\ \A q \in Messages : origin'[q].intact => messages'[q].id = origin'[q].id
        /\ origin'[Root.message] = origin[Root.message]
    BY <2>1, <2>2, PublishKeepsIds
  <2>4. /\ runs' # <<>> /\ runs'[1].message = runs[1].message /\ runs'[1].nested = runs[1].nested
    <3>1. 1 \in 1..Len(runs)
      BY <2>1, RunFacts
    <3> QED
      BY <2>1, <3>1, RunOver
  <2> QED
    BY <2>1, <2>3, <2>4 DEF IdInv, IdHandedOn, Root
<1>7. CASE Postrun
  <2>1. /\ runs # <<>> /\ context' = NoContext /\ runs' = SubSeq(runs, 1, Len(runs) - 1)
        /\ messages' = IF Run.message = None THEN messages
                       ELSE [messages EXCEPT ![Run.message].state = "done"]
        /\ origin' = origin
    BY <1>7 DEF Postrun, FinishRun
  <2>2. \A q \in Messages : messages'[q].id = messages[q].id
    <3>1. CASE Run.message = None
      BY <2>1, <3>1
    <3>2. CASE Run.message # None
      <4>1. Run.message \in Messages
        BY <2>1, <3>2, RunFacts
      <4> QED
        BY <2>1, <3>2, <4>1, MessageMoves DEF MessageStates
    <3> QED
      BY <3>1, <3>2
  <2>3. /\ Len(runs) \in Nat \ {0} /\ (runs' = <<>> <=> Len(runs) = 1)
        /\ \A i \in 1..Len(runs) - 1 : runs'[i] = runs[i]
    BY <2>1, RunPopped, RunFacts
  <2>4. ASSUME runs' # <<>> PROVE runs'[1].nested
    <3>1. Len(runs) > 1 /\ 1 \in 1..Len(runs) - 1
      <4>1. Len(runs) \in Nat \ {0} /\ Len(runs) # 1
        BY <2>3, <2>4, Zenon
      <4>2. \A n \in Nat \ {0} : n # 1 => n > 1 /\ 1 \in 1..n - 1
        OBVIOUS
      <4> QED
        BY <4>1, <4>2, Zenon
    <3>2. runs'[1] = runs[1]
      BY <2>3, <3>1, Zenon
    <3> QED
      BY <3>1, <3>2, Zenon DEF StackInv, Root
  <2> QED
    BY <2>1, <2>2, <2>4 DEF IdInv, IdHandedOn, Root, NoContext
<1>8. ASSUME NEW m \in Messages, Revoke(m)
      PROVE  IdInv' /\ IdHandedOn'
  <2>1. messages' = [messages EXCEPT ![m].state = "done"] /\ UNCHANGED <<origin, runs, context>>
    BY <1>8 DEF Revoke
  <2>2. \A q \in Messages : messages'[q].id = messages[q].id
    BY <2>1, MessageMoves DEF MessageStates
  <2> QED
    BY <2>1, <2>2 DEF IdInv, IdHandedOn, Root
<1>9. CASE Kill
  <2>1. runs # <<>> /\ runs' = <<>> /\ context' = NoContext /\ origin' = origin
    BY <1>9 DEF Kill
  <2>2. PICK s \in {"queued", "done"} : messages' = [messages EXCEPT ![Root.message].state = s]
    BY <1>9 DEF Kill
  <2>3. \A q \in Messages : messages'[q].id = messages[q].id
    BY <2>1, <2>2, MessageMoves, RunFacts DEF MessageStates
  <2> QED
    BY <2>1, <2>3 DEF IdInv, IdHandedOn
<1>10. CASE UNCHANGED vars
  BY <1>10 DEF vars, broker, IdInv, IdHandedOn, Root
<1> QED
  BY <1>1, <1>2, <1>3, <1>4, <1>5, <1>6, <1>7, <1>8, <1>9, <1>10 DEF Next

-----------------------------------------------------------------------------
(* The theorems.                                                           *)

\* All that the theorems need, in each state.
LEMMA Invariance == Spec => [](IInv /\ Measured /\ IdInv /\ IdHandedOn)
BY InitInv, InitIds, Step, MeasuredStep, IdStep, PTL DEF Spec

\* The model is type correct: no message, no run and no counter is ever anything
\* else than what the handlers make of it.
THEOREM TypeCorrect == Spec => []TypeOK
<1>1. IInv => TypeOK
  BY DEF IInv
<1> QED
  BY <1>1, Invariance, PTL

\* For any number of tasks, messages and runs inside of each other, and whatever is
\* killed, send_run_metric is called once for each run of a task.
THEOREM EachRunMeasured == Spec => []MeasuredOnce
<1>1. IInv /\ Measured => MeasuredOnce
  BY MeasuredImplies DEF IInv
<1> QED
  BY <1>1, Invariance, PTL

\* A job never logs or hands on the request id of another job: task_postrun clears
\* the context in time.
THEOREM IdsAreOwn == Spec => []IdIsOwn
<1>1. IdInv => IdIsOwn
  BY DEF IdInv, IdIsOwn, NoContext
<1> QED
  BY <1>1, Invariance, PTL

\* The request id follows a job through the broker, its retries and the messages it
\* publishes, as long as no run is made in another.
THEOREM IdsAreHandedOn == Spec => []IdHandedOn
BY Invariance, PTL

=============================================================================
