--------------------------- MODULE WorkerRequests ---------------------------
(***************************************************************************)
(* The requests of one worker with several tasks (greenlets, threads or    *)
(* asyncio tasks): the table of requests in flight, REQUESTS (wsgi.py),    *)
(* and the table of contexts, CONTEXT_MAP, with a ContextId variable for   *)
(* every task (context.py).  Tasks interleave between any two accesses to  *)
(* the tables.  At its exit the worker logs what is in REQUESTS, from its  *)
(* main task (gunicorn.py): a sync worker serves all requests in that task *)
(* and exits between two of them, the others serve none in it.             *)
(*                                                                         *)
(* What a response does until it is finished is in WsgiResponse; here a    *)
(* request runs and is finished, and what its context holds (the request   *)
(* id, the operations tracked, the logging extras) is told by whose it is. *)
(***************************************************************************)
EXTENDS Naturals, Sequences, FiniteSets

CONSTANTS Requests,    \* the requests the worker gets
          Tasks,       \* the tasks that serve them
          RequestIds,  \* the values of the request id header
          NoOne        \* no request, no task, no context

ASSUME WorkerAssumption ==
  /\ NoOne \notin Requests \cup Tasks \cup RequestIds
  /\ Requests \cap Tasks = {}

\* Context.new() makes a fresh id: that of the request it is made for, or of
\* the task, in which at most one celery job runs at a time.
Contexts == Requests \cup Tasks

VARIABLES
  main,         \* the main task, chosen once, or NoOne if it serves no requests
  phase,        \* of a request, see TypeOK
  rid,          \* environ['REQUEST_ID']
  task,         \* the task that serves the request
  contextId,    \* ContextId, the context variable, in every task
  contexts,     \* the keys of CONTEXT_MAP
  requests,     \* REQUESTS
  children,     \* the tasks that the application started
  logs,         \* the access log records of a request
  exit,         \* gunicorn_worker_exit: "no", "loop", "stopped", "failed"
  pending,      \* the request ids it still has to look up
  jobs,         \* (history) requests whose context a celery job replaced
  outstanding,  \* (history) the requests in REQUESTS when the exit began
  orphans       \* (history) the contexts that were current in a task as it ended

tables == <<contextId, contexts>>
history == <<jobs, outstanding, orphans>>
vars == <<main, phase, rid, task, tables, requests, children, logs, exit, pending, history>>

Records == [context : Contexts \cup {NoOne}, exit : BOOLEAN]

TypeOK ==
  /\ main \in Tasks \cup {NoOne}
  /\ phase \in [Requests -> {"new", "absent", "running", "logged", "finished", "abandoned"}]
  /\ rid \in [Requests -> RequestIds \cup {NoOne}]
  /\ task \in [Requests -> Tasks \cup {NoOne}]
  /\ contextId \in [Tasks -> Contexts \cup {NoOne}]
  /\ contexts \subseteq Contexts
  /\ requests \in [RequestIds -> Requests \cup {NoOne}]
  /\ children \subseteq Tasks
  /\ logs \in [Requests -> Seq(Records)]
  /\ exit \in {"no", "loop", "stopped", "failed"}
  /\ pending \subseteq RequestIds
  /\ jobs \subseteq Requests
  /\ outstanding \subseteq Requests
  /\ orphans \subseteq Contexts

Init ==
  /\ main \in Tasks \cup {NoOne}
  /\ phase = [r \in Requests |-> "new"]
  /\ rid = [r \in Requests |-> NoOne]
  /\ task = [r \in Requests |-> NoOne]
  /\ contextId = [t \in Tasks |-> NoOne]
  /\ contexts = {}
  /\ requests = [id \in RequestIds |-> NoOne]
  /\ children = {}
  /\ logs = [r \in Requests |-> <<>>]
  /\ exit = "no"
  /\ pending = {}
  /\ jobs = {} /\ outstanding = {} /\ orphans = {}

-----------------------------------------------------------------------------
(* Tasks and contexts.                                                     *)

Alive == exit \in {"no", "loop"}

Serving(t) == {r \in Requests : task[r] = t /\ phase[r] \in {"absent", "running", "logged"}}
Idle(t) == Serving(t) = {} /\ t \notin children
AppRuns(t) == t \in children \/ \E r \in Serving(t) : phase[r] = "running"
InJob(t) == contextId[t] = t
Serves(t) == main = NoOne \/ (t = main /\ exit = "no")

\* (mutant) Context.new() without the clear(): it makes one if there is none.
NewContextIfNone(t, c) ==
  IF contextId[t] \in contexts
  THEN UNCHANGED tables
  ELSE /\ contextId' = [contextId EXCEPT ![t] = c]
       /\ contexts' = contexts \cup {c}

\* Context.new() in task t: clear(), and a context of its own.
NewContext(t, c) ==
  /\ contextId' = [contextId EXCEPT ![t] = c]
  /\ contexts' = (contexts \ {contextId[t]}) \cup {c}

\* (mutant) Context.clear() resets the variable and leaves CONTEXT_MAP alone.
ClearVariable(t) ==
  /\ contextId' = [contextId EXCEPT ![t] = NoOne]
  /\ UNCHANGED contexts

\* Context.clear() in task t.
ClearContext(t) ==
  /\ contextId' = [contextId EXCEPT ![t] = NoOne]
  /\ contexts' = contexts \ {contextId[t]}

\* The application starts a new task, which inherits its ContextId, or such a
\* task ends.  (Not during a job: a job's context is named after its task.)
StartChild(t, u) ==
  /\ Alive /\ AppRuns(t) /\ ~InJob(t)
  /\ u # main /\ Idle(u) /\ contextId[u] = NoOne
  /\ children' = children \cup {u}
  /\ contextId' = [contextId EXCEPT ![u] = contextId[t]]
  /\ UNCHANGED <<main, phase, rid, task, contexts, requests, logs, exit, pending, history>>

EndChild(t) ==
  /\ Alive /\ t \in children /\ ~InJob(t)
  /\ children' = children \ {t}
  /\ contextId' = [contextId EXCEPT ![t] = NoOne]
  /\ UNCHANGED <<main, phase, rid, task, contexts, requests, logs, exit, pending, history>>

\* A greenlet or a thread ends, with whatever context is its current one: a
\* finished request has cleared its own, an abandoned one has not.
TaskEnds(t) ==
  /\ Alive /\ t # main /\ Idle(t) /\ ~InJob(t) /\ contextId[t] # NoOne
  /\ contextId' = [contextId EXCEPT ![t] = NoOne]
  /\ orphans' = orphans \cup {contextId[t]}
  /\ UNCHANGED <<main, phase, rid, task, contexts, requests, children, logs, exit, pending, jobs,
                 outstanding>>

\* An eager celery job in task t: task_prerun makes a context, and so deletes
\* the one it finds; task_postrun clears its own.
JobPrerun(t) ==
  /\ Alive /\ AppRuns(t) /\ ~InJob(t)
  /\ NewContext(t, t)
  /\ jobs' = jobs \cup (Requests \cap {contextId[t]})
  /\ UNCHANGED <<main, phase, rid, task, requests, children, logs, exit, pending, outstanding,
                 orphans>>

JobPostrun(t) ==
  /\ Alive /\ InJob(t)
  /\ ClearContext(t)
  /\ UNCHANGED <<main, phase, rid, task, requests, children, logs, exit, pending, history>>

-----------------------------------------------------------------------------
(* A request: __call__, and finish_request.                                *)

\* __call__ makes the context, and looks the request's id up in REQUESTS.  An
\* id that is in use already is logged, and the request goes on untracked.
Call(r, t, id) ==
  /\ Alive /\ phase[r] = "new" /\ Serves(t) /\ Idle(t)
  /\ NewContext(t, r)
  /\ rid' = [rid EXCEPT ![r] = id]
  /\ task' = [task EXCEPT ![r] = t]
  /\ phase' = [phase EXCEPT ![r] = IF requests[id] = NoOne THEN "absent" ELSE "running"]
  /\ UNCHANGED <<main, requests, children, logs, exit, pending, history>>

\* It then puts the request in REQUESTS.
Register(r) ==
  /\ Alive /\ phase[r] = "absent"
  /\ requests' = [requests EXCEPT ![rid[r]] = r]
  /\ phase' = [phase EXCEPT ![r] = "running"]
  /\ UNCHANGED <<main, rid, task, tables, children, logs, exit, pending, history>>

\* A record carries the context of the task that writes it, if it has one.
Record(c, atExit) == [context |-> IF c \in contexts THEN c ELSE NoOne, exit |-> atExit]

\* (mutant) finish_request clears the context before it logs.
FinishLogCleared(r) ==
  /\ Alive /\ phase[r] = "running" /\ ~InJob(task[r])
  /\ logs' = [logs EXCEPT ![r] = Append(@, Record(NoOne, FALSE))]
  /\ phase' = [phase EXCEPT ![r] = "logged"]
  /\ UNCHANGED <<main, rid, task, tables, requests, children, exit, pending, history>>

\* finish_request logs the request with the metadata of the current context.
FinishLog(r) ==
  /\ Alive /\ phase[r] = "running" /\ ~InJob(task[r])
  /\ logs' = [logs EXCEPT ![r] = Append(@, Record(contextId[task[r]], FALSE))]
  /\ phase' = [phase EXCEPT ![r] = "logged"]
  /\ UNCHANGED <<main, rid, task, tables, requests, children, exit, pending, history>>

\* It clears the context and removes whatever has the request's id.
FinishPop(r) ==
  /\ Alive /\ phase[r] = "logged"
  /\ ClearContext(task[r])
  /\ requests' = [requests EXCEPT ![rid[r]] = NoOne]
  /\ phase' = [phase EXCEPT ![r] = "finished"]
  /\ UNCHANGED <<main, rid, task, children, logs, exit, pending, history>>

\* (mutant) __call__ removes the request from REQUESTS as the exception leaves.
AbandonForgets(r) ==
  /\ Alive /\ phase[r] = "running" /\ ~InJob(task[r])
  /\ phase' = [phase EXCEPT ![r] = "abandoned"]
  /\ requests' = [requests EXCEPT ![rid[r]] = NoOne]
  /\ UNCHANGED <<main, rid, task, tables, children, logs, exit, pending, history>>

\* The request ends unfinished: wrap_response raises, or the application exits
\* with code 0.  Its context and its REQUESTS entry stay.
Abandon(r) ==
  /\ Alive /\ phase[r] = "running" /\ ~InJob(task[r])
  /\ phase' = [phase EXCEPT ![r] = "abandoned"]
  /\ UNCHANGED <<main, rid, task, tables, requests, children, logs, exit, pending, history>>

-----------------------------------------------------------------------------
(* gunicorn_worker_exit, in the main task.  If that serves no requests it  *)
(* has no context; in a sync worker it has one if the exit ended a request.*)

\* It goes through a copy of the ids.
ExitBegin ==
  /\ exit = "no"
  /\ main \in Tasks => Idle(main)
  /\ exit' = "loop"
  /\ pending' = {id \in RequestIds : requests[id] # NoOne}
  /\ outstanding' = {requests[id] : id \in pending'}
  /\ UNCHANGED <<main, phase, rid, task, tables, requests, children, logs, jobs, orphans>>

\* It finishes the request that has the id by now, in the context it runs in.
ExitFinish(id) ==
  /\ exit = "loop" /\ id \in pending /\ requests[id] # NoOne
  /\ pending' = pending \ {id}
  /\ LET r == requests[id]
         l == Record(IF main \in Tasks THEN contextId[main] ELSE NoOne, TRUE) IN
     /\ logs' = [logs EXCEPT ![r] = Append(@, l)]
     /\ requests' = [requests EXCEPT ![rid[r]] = NoOne]
  /\ IF main \in Tasks THEN ClearContext(main) ELSE UNCHANGED tables
  /\ UNCHANGED <<main, phase, rid, task, children, exit, history>>

\* The id is gone: KeyError ends the loop.
ExitKeyError(id) ==
  /\ exit = "loop" /\ id \in pending /\ requests[id] = NoOne
  /\ exit' = "failed"
  /\ UNCHANGED <<main, phase, rid, task, tables, requests, children, logs, pending, history>>

ExitEnd ==
  /\ exit = "loop" /\ pending = {}
  /\ exit' = "stopped"
  /\ UNCHANGED <<main, phase, rid, task, tables, requests, children, logs, pending, history>>

-----------------------------------------------------------------------------
RequestStep(r) ==
  \/ \E t \in Tasks, id \in RequestIds : Call(r, t, id)
  \/ Register(r)
  \/ FinishLog(r)
  \/ FinishPop(r)
  \/ Abandon(r)

TaskStep(t) ==
  \/ \E u \in Tasks : StartChild(t, u)
  \/ EndChild(t)
  \/ TaskEnds(t)
  \/ JobPrerun(t)
  \/ JobPostrun(t)

ExitStep ==
  \/ ExitBegin
  \/ \E id \in RequestIds : ExitFinish(id) \/ ExitKeyError(id)
  \/ ExitEnd

Next ==
  \/ \E r \in Requests : RequestStep(r)
  \/ \E t \in Tasks : TaskStep(t)
  \/ ExitStep

Spec == Init /\ [][Next]_vars

-----------------------------------------------------------------------------
(* Properties.                                                             *)

\* No other request had the same id.
UniqueId(r) == \A q \in Requests \ {r} : rid[q] # rid[r]

\* A request in progress has the context made for it, and no other request or
\* task but the ones it started uses that, unless a job took its place.
OwnContext ==
  \A r \in Requests :
    /\ phase[r] \in {"absent", "running", "logged"} /\ r \notin jobs =>
         r \in contexts /\ contextId[task[r]] = r
    /\ \A q \in Requests \ {r} : phase[q] \in {"absent", "running", "logged"} =>
         contextId[task[q]] # r

\* CONTEXT_MAP does not grow but for abandoned requests: each of its contexts is
\* some task's current one, or that of an abandoned request whose task has ended
\* before it served another.
OnlyAbandonedLeak ==
  \A c \in contexts :
    \/ \E t \in Tasks : contextId[t] = c
    \/ c \in orphans /\ c \in Requests /\ phase[c] = "abandoned"

\* The access log record finish_request writes when a request ends never has
\* the context of another, and has its own if no job took its place.
LogsOwnContext ==
  \A r \in Requests : \A i \in DOMAIN logs[r] : LET l == logs[r][i] IN
    ~l.exit =>
      /\ l.context \in {r, NoOne}
      /\ r \notin jobs => l.context = r

\* A request with an id of its own stays in REQUESTS until it is logged, and
\* the exit logs all that was in REQUESTS, unless KeyError stops it.
TrackedUntilLogged ==
  \A r \in Requests : UniqueId(r) =>
    /\ phase[r] \in {"running", "abandoned"} /\ logs[r] = <<>> => requests[rid[r]] = r
    /\ exit = "stopped" /\ r \in outstanding => logs[r] # <<>>

=============================================================================
