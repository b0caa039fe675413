---------------------------- MODULE CelerySignals ----------------------------
(***************************************************************************)
(* Talisker's handlers for the signals of celery (talisker/celery.py), as  *)
(* one process of a worker sends them: it takes one message after the      *)
(* other, and a run may run further tasks eagerly, inside of it.  Celery   *)
(* is the environment; its processes are killed and replaced.              *)
(***************************************************************************)
EXTENDS Naturals, Sequences

CONSTANTS Tasks,      \* the task objects
          Messages,   \* task messages that are published in a behaviour
          Ids,        \* the request ids of publishers
          None,       \* None, and an attribute or a context that does not exist
          MaxStarts,  \* bound: runs that are started
          MaxDepth    \* bound: runs inside of each other

ASSUME CeleryAssumption ==
  /\ None \notin Ids \cup Messages \cup Nat
  /\ MaxStarts \in Nat /\ MaxDepth \in Nat \ {0}

VARIABLES
  messages,   \* for each message: is it queued, its task, its request id header
  origin,     \* (history) the id of the request a message goes back to, and whether
              \* each run on the way published it before it ran anything eagerly
  runs,       \* the runs in the process, the innermost last
  context,    \* the request id of the current context, with a flag that there is one
  timestamp,  \* task.talisker_timestamp: the run that set it
  marked,     \* the protected counters that a task object is marked with
  counted,    \* the counters of each task
  latency,    \* how often celery_latency_run was observed for each run
  starts,     \* runs so far
  killed,     \* (history) runs whose timestamp went away with their process
  signals     \* (history) the signals sent for each task

broker == <<messages, origin>>
metrics == <<timestamp, marked, counted, latency>>
history == <<starts, killed, signals>>
vars == <<broker, runs, context, metrics, history>>

Protected == {"success", "failure", "revoked"}
Kinds == Protected \cup {"retry"}

NoContext == [exists |-> FALSE, id |-> None]
NewContext(id) == [exists |-> TRUE, id |-> id]

MessageStates == {"new", "queued", "taken", "done"}

TypeOK ==
  /\ messages \in [Messages -> [state : MessageStates, task : Tasks \cup {None}, id : Ids \cup {None}]]
  /\ origin \in [Messages -> [id : Ids \cup {None}, intact : BOOLEAN]]
  /\ runs \in Seq([task : Tasks, message : Messages \cup {None}, state : {"open", "over"},
                   nested : BOOLEAN])
  /\ context \in [exists : BOOLEAN, id : Ids \cup {None}]
  /\ timestamp \in [Tasks -> 1..starts \cup {None}]
  /\ marked \in [Tasks -> SUBSET Protected]
  /\ counted \in [Kinds -> [Tasks -> Nat]]
  /\ latency \in [1..MaxStarts -> Nat]
  /\ starts \in 0..MaxStarts
  /\ killed \subseteq 1..starts
  /\ signals \in [Kinds -> [Tasks -> Nat]]

NoTally == [k \in Kinds |-> [t \in Tasks |-> 0]]

Init ==
  /\ messages = [m \in Messages |-> [state |-> "new", task |-> None, id |-> None]]
  /\ origin = [m \in Messages |-> [id |-> None, intact |-> FALSE]]
  /\ runs = <<>>
  /\ context = NoContext
  /\ timestamp = [t \in Tasks |-> None]
  /\ marked = [t \in Tasks |-> {}]
  /\ counted = NoTally
  /\ latency = [n \in 1..MaxStarts |-> 0]
  /\ starts = 0 /\ killed = {}
  /\ signals = NoTally

Run == runs[Len(runs)]
Root == runs[1]

-----------------------------------------------------------------------------
(* What the handlers are made of.                                          *)

Add(tally, kind, t) == [tally EXCEPT ![kind][t] = @ + 1]

\* The handlers of _counter and _protected_counter.
Count(kind, t) ==
  IF kind \in marked[t]
  THEN UNCHANGED <<counted, marked>>
  ELSE /\ counted' = Add(counted, kind, t)
       /\ marked' = [marked EXCEPT ![t] = @ \cup ({kind} \cap Protected)]

\* send_run_metric
Observe(n) == latency' = [latency EXCEPT ![n] = @ + 1]

\* (mutant) The context is made after the request id has been set.
RunContextSwapped(id) == NewContext(None)

\* Context.new() and then the request id: the context of a run whose message has the given header.
RunContext(id) == NewContext(id)

\* (mutant) The id is kept only in a header that is already there.
HeaderKept(id, old) == IF old = None THEN {None} ELSE {id}

\* The header of a message published in the current context.  The message of a
\* retry may come with the headers of the one before it.
Header(id, old) == IF id = None THEN {None, old} ELSE {id}

-----------------------------------------------------------------------------
(* Signals.                                                                *)

\* before_task_publish in another process, in a request or not.
PublishOutside(m, t, id) ==
  /\ messages[m].state = "new"
  /\ \E header \in Header(id, None) :
       messages' = [messages EXCEPT ![m] = [state |-> "queued", task |-> t, id |-> header]]
  /\ origin' = [origin EXCEPT ![m] = [id |-> id, intact |-> TRUE]]
  /\ UNCHANGED <<runs, context, metrics, history>>

\* before_task_publish in a run.
Publish(m, t, old) ==
  /\ messages[m].state = "new"
  /\ \E header \in Header(context.id, old) :
       messages' = [messages EXCEPT ![m] = [state |-> "queued", task |-> t, id |-> header]]
  /\ origin' = [origin EXCEPT ![m] =
       [id |-> origin[Root.message].id,
        intact |-> origin[Root.message].intact /\ Len(runs) = 1 /\ ~Root.nested]]

PublishInRun(m, t) ==
  /\ runs # <<>> /\ Run.state = "open"
  /\ Publish(m, t, None)
  /\ UNCHANGED <<runs, context, metrics, history>>

\* (mutant) A run inside a run of the same task is not told from it.
StartRunOver(t, eager, id) ==
  /\ context' = RunContext(id)
  /\ starts < MaxStarts /\ starts' = starts + 1
  /\ timestamp' = [timestamp EXCEPT ![t] = starts']
  /\ UNCHANGED <<counted, marked, latency>>

\* task_prerun.  In an eager run a timestamp is taken for that of a run that is
\* being retried: celery 4 runs the retry inside of it.
StartRun(t, eager, id) ==
  /\ context' = RunContext(id)
  /\ starts < MaxStarts /\ starts' = starts + 1
  /\ timestamp' = [timestamp EXCEPT ![t] = starts']
  /\ IF timestamp[t] # None /\ eager
     THEN Count("retry", t) /\ Observe(timestamp[t])
     ELSE UNCHANGED <<counted, marked, latency>>

Prerun(m) ==
  /\ runs = <<>> /\ messages[m].state = "queued"
  /\ messages' = [messages EXCEPT ![m].state = "taken"]
  /\ LET t == messages[m].task
     IN  /\ runs' = <<[task |-> t, message |-> m, state |-> "open", nested |-> FALSE]>>
         /\ StartRun(t, FALSE, messages[m].id)
  /\ UNCHANGED <<origin, killed, signals>>

\* A run applies a task: another one, or its own again for a retry.  The run
\* inside has no message and no headers.
EagerPrerun(t) ==
  /\ runs # <<>> /\ Run.state = "open" /\ Len(runs) < MaxDepth
  /\ runs' = Append([runs EXCEPT ![Len(runs)].nested = TRUE],
                    [task |-> t, message |-> None, state |-> "open", nested |-> FALSE])
  /\ StartRun(t, TRUE, None)
  /\ UNCHANGED <<broker, killed, signals>>

Signal(kind, t) ==
  /\ Count(kind, t)
  /\ signals' = Add(signals, kind, t)
  /\ UNCHANGED <<timestamp, latency, starts, killed>>

\* A run returns or raises: task_success or task_failure.
RunEnds(kind) ==
  /\ runs # <<>> /\ Run.state = "open"
  /\ runs' = [runs EXCEPT ![Len(runs)].state = "over"]
  /\ Signal(kind, Run.task)
  /\ UNCHANGED <<broker, context>>

\* A run asks for a retry, for which a message is published, and ends with
\* task_retry.
RunRetries(m) ==
  /\ runs # <<>> /\ Run.state = "open" /\ Run.message # None
  /\ Publish(m, Run.task, messages[Run.message].id)
  /\ runs' = [runs EXCEPT ![Len(runs)].state = "over"]
  /\ Signal("retry", Run.task)
  /\ UNCHANGED context

\* (mutant) The timestamp stays on the task.
FinishRunKeeps(t) ==
  /\ IF timestamp[t] # None THEN Observe(timestamp[t]) ELSE UNCHANGED latency
  /\ UNCHANGED timestamp
  /\ context' = NoContext

\* (mutant) The context stays.
FinishRunInContext(t) ==
  /\ IF timestamp[t] # None THEN Observe(timestamp[t]) ELSE UNCHANGED latency
  /\ timestamp' = [timestamp EXCEPT ![t] = None]
  /\ UNCHANGED context

\* task_postrun
FinishRun(t) ==
  /\ IF timestamp[t] # None THEN Observe(timestamp[t]) ELSE UNCHANGED latency
  /\ timestamp' = [timestamp EXCEPT ![t] = None]
  /\ context' = NoContext

Postrun ==
  /\ runs # <<>> /\ Run.state = "over"
  /\ FinishRun(Run.task)
  /\ runs' = SubSeq(runs, 1, Len(runs) - 1)
  /\ messages' = IF Run.message = None THEN messages
                 ELSE [messages EXCEPT ![Run.message].state = "done"]
  /\ UNCHANGED <<origin, marked, counted, history>>

\* A message is revoked before it runs, which the parent process signals with a
\* task object of its own.
Revoke(m) ==
  /\ messages[m].state = "queued"
  /\ messages' = [messages EXCEPT ![m].state = "done"]
  /\ Signal("revoked", messages[m].task)
  /\ UNCHANGED <<origin, runs, context>>

\* The process is killed in a run and another takes its place.  The message is
\* delivered again or not.
Kill ==
  /\ runs # <<>>
  /\ runs' = <<>>
  /\ context' = NoContext
  /\ timestamp' = [t \in Tasks |-> None]
  /\ marked' = [t \in Tasks |-> marked[t] \cap {"revoked"}]
  /\ killed' = killed \cup ({timestamp[t] : t \in Tasks} \ {None})
  /\ \E s \in {"queued", "done"} : messages' = [messages EXCEPT ![Root.message].state = s]
  /\ UNCHANGED <<origin, counted, latency, starts, signals>>

Next ==
  \/ \E m \in Messages :
       \/ \E t \in Tasks, id \in Ids \cup {None} : PublishOutside(m, t, id)
       \/ \E t \in Tasks : PublishInRun(m, t)
       \/ Prerun(m)
       \/ RunRetries(m)
       \/ Revoke(m)
  \/ \E t \in Tasks : EagerPrerun(t)
  \/ \E kind \in {"success", "failure"} : RunEnds(kind)
  \/ Postrun
  \/ Kill

Spec == Init /\ [][Next]_vars

-----------------------------------------------------------------------------
(* Properties.                                                             *)

\* The runs whose end is waited for with a timestamp.
Waiting == {timestamp[t] : t \in Tasks} \ {None}

\* However runs nest and whatever is killed, the time of each run that has
\* started is measured once, or still is to be, or was lost with the process.
MeasuredOnce ==
  /\ \A n \in 1..starts : latency[n] = IF n \in Waiting \cup killed THEN 0 ELSE 1
  /\ Waiting \cap killed = {}
  /\ \A t, u \in Tasks : timestamp[t] = timestamp[u] /\ t # u => timestamp[t] = None

\* A process between two messages has no context, and in a run no id of a request
\* the run does not go back to; nor has any message it publishes.
IdIsOwn ==
  /\ runs = <<>> => ~context.exists
  /\ runs # <<>> => context.id \in {None, origin[Root.message].id}
  /\ \A m \in Messages : messages[m].id \in {None, origin[m].id}

\* From publisher to run, and from there to its retries and the messages it
\* publishes, the id of the request is handed on, until a run runs another in it.
IdHandedOn ==
  /\ runs # <<>> /\ ~Root.nested /\ origin[Root.message].intact =>
       context = NewContext(origin[Root.message].id)
  /\ \A m \in Messages : origin[m].intact => messages[m].id = origin[m].id

\* (fails) "number of successful tasks" (docs/celery.rst:46): each success is
\* counted.
SuccessesCounted == \A t \in Tasks : counted["success"][t] = signals["success"][t]

=============================================================================
