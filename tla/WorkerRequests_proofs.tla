------------------------ MODULE WorkerRequests_proofs ------------------------
(***************************************************************************)
(* Proofs about WorkerRequests: whose context a request and its log record *)
(* have, that no context leaks, and that what is in REQUESTS gets logged,  *)
(* for any number of requests, tasks and ids.                              *)
(***************************************************************************)
EXTENDS WorkerRequests, TLAPS

USE WorkerAssumption

Active(r) == phase[r] \in {"absent", "running", "logged"}

\* A task serves one request at a time; a main task that serves requests serves
\* them all, and none during the exit.
TaskInv ==
  /\ \A r \in Requests :
       /\ phase[r] = "new" =>
            /\ rid[r] = NoOne /\ task[r] = NoOne /\ r \notin contexts
            /\ \A t \in Tasks : contextId[t] # r
       /\ phase[r] # "new" => rid[r] \in RequestIds /\ task[r] \in Tasks
       /\ Active(r) => task[r] \notin children
       /\ \A q \in Requests : Active(r) /\ Active(q) /\ task[r] = task[q] => r = q
  /\ main \in Tasks =>
       /\ main \notin children
       /\ \A r \in Requests : Active(r) => task[r] = main /\ exit = "no"

\* The current context of a task that serves a request is that of the request or
\* of a job, or none after a job; that of an idle task is nobody else's. A context
\* is the current one of the task it was made in, until that ends: then the request
\* was abandoned.
ContextInv ==
  /\ \A t \in Tasks : contextId[t] \in Tasks => contextId[t] = t
  /\ \A r \in Requests :
       Active(r) =>
         /\ contextId[task[r]] \in {r, task[r], NoOne}
         /\ r \notin jobs => contextId[task[r]] = r /\ r \in contexts
         /\ \A t \in Tasks : contextId[t] = r => t = task[r] \/ t \in children
  /\ \A r \in Requests : r \in contexts =>
       (contextId[task[r]] = r /\ task[r] \in Tasks \ children) \/ r \in orphans
  /\ \A t \in Tasks \ children : contextId[t] \in Requests =>
       task[contextId[t]] = t /\ phase[contextId[t]] \notin {"new", "finished"}
  /\ \A c \in orphans : c \in Requests /\ phase[c] = "abandoned"
  /\ \A t \in Tasks : t \in contexts => contextId[t] = t

\* An entry of REQUESTS is under the id of its request; what the exit has to log
\* is logged or still to be looked up.
TrackInv ==
  /\ \A id \in RequestIds : requests[id] # NoOne => rid[requests[id]] = id
  /\ \A r \in outstanding : phase[r] # "new"
  /\ \A r \in Requests : UniqueId(r) =>
       /\ phase[r] \in {"running", "abandoned"} /\ logs[r] = <<>> => requests[rid[r]] = r
       /\ exit \in {"loop", "stopped"} /\ r \in outstanding => logs[r] # <<>> \/ rid[r] \in pending
  /\ exit = "stopped" => pending = {}

IInv == TypeOK /\ TaskInv /\ ContextInv /\ LogsOwnContext /\ TrackInv

-----------------------------------------------------------------------------
(* Contexts.                                                               *)

\* A context is made for a task.
LEMMA NewContextFacts ==
  ASSUME TypeOK, NEW t \in Tasks, NEW c \in Contexts, NewContext(t, c)
  PROVE  /\ contextId' \in [Tasks -> Contexts \cup {NoOne}] /\ contexts' \subseteq Contexts
         /\ contextId'[t] = c /\ \A u \in Tasks \ {t} : contextId'[u] = contextId[u]
         /\ c \in contexts'
         /\ \A d : d # c => (d \in contexts' <=> d \in contexts /\ d # contextId[t])
  BY DEF TypeOK, NewContext

\* The context of a task is cleared.
LEMMA ClearContextFacts ==
  ASSUME TypeOK, NEW t \in Tasks, ClearContext(t)
  PROVE  /\ contextId' \in [Tasks -> Contexts \cup {NoOne}] /\ contexts' \subseteq Contexts
         /\ contextId'[t] = NoOne /\ \A u \in Tasks \ {t} : contextId'[u] = contextId[u]
         /\ \A d : d \in contexts' <=> d \in contexts /\ d # contextId[t]
  BY DEF TypeOK, ClearContext

\* A log record appended to the logs of one request.
Logged(r, l) == logs' = [logs EXCEPT ![r] = Append(@, l)]

LogExtended(r, l) ==
  /\ logs' \in [Requests -> Seq(Records)] /\ logs'[r] # <<>>
  /\ \A q \in Requests \ {r} : logs'[q] = logs[q]
  /\ \A i \in DOMAIN logs'[r] : (i \in DOMAIN logs[r] /\ logs'[r][i] = logs[r][i]) \/ logs'[r][i] = l

\* A request is logged.
LEMMA LogFacts ==
  ASSUME TypeOK, NEW r \in Requests, NEW l \in Records, Logged(r, l)
  PROVE  LogExtended(r, l)
<1> USE DEF Logged, LogExtended
<1>1. logs[r] \in Seq(Records) /\ logs'[r] = Append(logs[r], l)
  BY DEF TypeOK
<1>2. logs' \in [Requests -> Seq(Records)] /\ \A q \in Requests \ {r} : logs'[q] = logs[q]
  BY DEF TypeOK
<1> QED
  BY <1>1, <1>2

\* What is logged of a request with a context.
LEMMA RecordFacts ==
  ASSUME NEW c \in Contexts \cup {NoOne}, NEW e \in BOOLEAN
  PROVE  /\ Record(c, e) \in Records /\ (Record(c, e).exit <=> e)
         /\ Record(c, e).context = IF c \in contexts THEN c ELSE NoOne
  BY DEF Record, Records

\* The invariant at the start;
LEMMA InitIInv == Init => IInv
  BY DEF Init, IInv, TypeOK, TaskInv, ContextInv, LogsOwnContext, TrackInv, Active

-----------------------------------------------------------------------------
(* Tasks.                                                                  *)

\* when a task is started,
LEMMA StartChildIInv ==
  ASSUME IInv, NEW t \in Tasks, NEW u \in Tasks, StartChild(t, u)
  PROVE  IInv'
<1> USE DEF IInv
<1>1. /\ contextId' = [contextId EXCEPT ![u] = contextId[t]] /\ children' = children \cup {u}
      /\ UNCHANGED <<main, phase, rid, task, contexts, requests, logs, exit, pending, jobs, outstanding, orphans>>
      /\ u # main /\ contextId[u] = NoOne /\ contextId[t] # t
      /\ \A r \in Requests : Active(r) => task[r] # u
  BY DEF StartChild, history, InJob, Idle, Serving, Active
<1>2. contextId'[u] = contextId[t] /\ \A v \in Tasks \ {u} : contextId'[v] = contextId[v]
  BY <1>1 DEF TypeOK
<1>3. contextId[t] \notin Tasks
  BY <1>1 DEF ContextInv
<1>4. TypeOK'
  BY <1>1 DEF TypeOK
<1>5. TaskInv'
  BY <1>1, <1>2 DEF TaskInv, Active
<1>6. ContextInv'
  BY <1>1, <1>2, <1>3 DEF ContextInv, TaskInv, Active, TypeOK
<1>7. LogsOwnContext' /\ TrackInv'
  BY <1>1 DEF LogsOwnContext, TrackInv, UniqueId
<1> QED
  BY <1>4, <1>5, <1>6, <1>7

\* and when it ends;
LEMMA EndChildIInv ==
  ASSUME IInv, NEW t \in Tasks, EndChild(t)
  PROVE  IInv'
<1> USE DEF IInv
<1>1. /\ contextId' = [contextId EXCEPT ![t] = NoOne] /\ children' = children \ {t}
      /\ UNCHANGED <<main, phase, rid, task, contexts, requests, logs, exit, pending, jobs, outstanding, orphans>>
      /\ t \in children /\ contextId[t] # t
  BY DEF EndChild, history, InJob
<1>2. contextId'[t] = NoOne /\ \A v \in Tasks \ {t} : contextId'[v] = contextId[v]
  BY <1>1 DEF TypeOK
<1>3. TypeOK'
  BY <1>1 DEF TypeOK
<1>4. TaskInv'
  BY <1>1, <1>2 DEF TaskInv, Active
<1>5. ContextInv'
  BY <1>1, <1>2 DEF ContextInv, TaskInv, Active
<1>6. LogsOwnContext' /\ TrackInv'
  BY <1>1 DEF LogsOwnContext, TrackInv, UniqueId
<1> QED
  BY <1>3, <1>4, <1>5, <1>6

\* when a task ends that serves no request: what it leaves is of one abandoned;
LEMMA TaskEndsIInv ==
  ASSUME IInv, NEW t \in Tasks, TaskEnds(t)
  PROVE  IInv'
<1> USE DEF IInv
<1> DEFINE c == contextId[t]
<1>1. /\ contextId' = [contextId EXCEPT ![t] = NoOne] /\ orphans' = orphans \cup {c}
      /\ UNCHANGED <<main, phase, rid, task, contexts, requests, children, logs, exit, pending, jobs, outstanding>>
      /\ t \notin children /\ c # t /\ c # NoOne
      /\ \A r \in Requests : Active(r) => task[r] # t
  BY DEF TaskEnds, InJob, Idle, Serving, Active
<1>2. contextId'[t] = NoOne /\ \A v \in Tasks \ {t} : contextId'[v] = contextId[v]
  BY <1>1 DEF TypeOK
<1>3. c \in Requests
  BY <1>1 DEF TypeOK, ContextInv, Contexts
<1>4. task[c] = t /\ phase[c] = "abandoned"
  BY <1>1, <1>3 DEF ContextInv, Active, TypeOK
<1> HIDE DEF c
<1>5. TypeOK'
  BY <1>1, <1>3 DEF TypeOK, Contexts
<1>6. TaskInv'
  BY <1>1, <1>2 DEF TaskInv, Active
<1>7. \A r \in Requests : Active(r)' <=> Active(r)
  BY <1>1 DEF Active
<1>8. ContextInv'
  <2>1. (\A r \in Requests : r \in contexts =>
           (contextId[task[r]] = r /\ task[r] \in Tasks \ children) \/ r \in orphans)'
    BY <1>1, <1>2 DEF ContextInv, c
  <2>2. (\A d \in orphans : d \in Requests /\ phase[d] = "abandoned")'
    BY <1>1, <1>3, <1>4 DEF ContextInv
  <2>3. (\A r \in Requests :
           Active(r) =>
             /\ contextId[task[r]] \in {r, task[r], NoOne}
             /\ r \notin jobs => contextId[task[r]] = r /\ r \in contexts
             /\ \A u \in Tasks : contextId[u] = r => u = task[r] \/ u \in children)'
    <3> SUFFICES ASSUME NEW r \in Requests, Active(r)
                 PROVE  /\ contextId'[task[r]] \in {r, task[r], NoOne}
                        /\ r \notin jobs => contextId'[task[r]] = r /\ r \in contexts
                        /\ \A u \in Tasks : contextId'[u] = r => u = task[r] \/ u \in children
      BY <1>1, <1>7
    <3>1. task[r] \in Tasks \ {t}
      BY <1>1 DEF TaskInv, Active
    <3> QED
      BY <1>2, <3>1 DEF ContextInv
  <2>4. (\A u \in Tasks : contextId[u] \in Tasks => contextId[u] = u)'
    BY <1>2 DEF ContextInv
  <2>5. (\A u \in Tasks \ children : contextId[u] \in Requests =>
           task[contextId[u]] = u /\ phase[contextId[u]] \notin {"new", "finished"})'
    BY <1>1, <1>2 DEF ContextInv
  <2>6. (\A u \in Tasks : u \in contexts => contextId[u] = u)'
    BY <1>1, <1>2 DEF ContextInv, c
  <2> QED
    BY <2>1, <2>2, <2>3, <2>4, <2>5, <2>6 DEF ContextInv
<1>9. LogsOwnContext' /\ TrackInv'
  BY <1>1 DEF LogsOwnContext, TrackInv, UniqueId
<1> QED
  BY <1>5, <1>6, <1>8, <1>9

\* when a job begins,
LEMMA JobPrerunIInv ==
  ASSUME IInv, NEW t \in Tasks, JobPrerun(t)
  PROVE  IInv'
<1> USE DEF IInv
<1>1. /\ NewContext(t, t) /\ jobs' = jobs \cup (Requests \cap {contextId[t]})
      /\ UNCHANGED <<main, phase, rid, task, requests, children, logs, exit, pending, outstanding, orphans>>
      /\ contextId[t] # t
  BY DEF JobPrerun, InJob
<1>2. /\ contextId' \in [Tasks -> Contexts \cup {NoOne}] /\ contexts' \subseteq Contexts
      /\ contextId'[t] = t /\ \A u \in Tasks \ {t} : contextId'[u] = contextId[u]
      /\ \A d : d # t => (d \in contexts' <=> d \in contexts /\ d # contextId[t])
  BY <1>1, NewContextFacts DEF Contexts
<1>3. TypeOK'
  BY <1>1, <1>2 DEF TypeOK
<1>4. TaskInv'
  BY <1>1, <1>2 DEF TaskInv, Active
<1>5. ContextInv'
  BY <1>1, <1>2 DEF ContextInv, TaskInv, Active
<1>6. LogsOwnContext' /\ TrackInv'
  BY <1>1 DEF LogsOwnContext, TrackInv, UniqueId
<1> QED
  BY <1>3, <1>4, <1>5, <1>6

\* and when it ends;
LEMMA JobPostrunIInv ==
  ASSUME IInv, NEW t \in Tasks, JobPostrun(t)
  PROVE  IInv'
<1> USE DEF IInv
<1>1. /\ ClearContext(t) /\ contextId[t] = t
      /\ UNCHANGED <<main, phase, rid, task, requests, children, logs, exit, pending, jobs, outstanding, orphans>>
  BY DEF JobPostrun, InJob, history
<1>2. /\ contextId' \in [Tasks -> Contexts \cup {NoOne}] /\ contexts' \subseteq Contexts
      /\ contextId'[t] = NoOne /\ \A u \in Tasks \ {t} : contextId'[u] = contextId[u]
      /\ \A d : d \in contexts' <=> d \in contexts /\ d # t
  BY <1>1, ClearContextFacts
<1>3. TypeOK'
  BY <1>1, <1>2 DEF TypeOK
<1>4. TaskInv'
  BY <1>1, <1>2 DEF TaskInv, Active
<1>5. ContextInv'
  BY <1>1, <1>2 DEF ContextInv, TaskInv, Active
<1>6. LogsOwnContext' /\ TrackInv'
  BY <1>1 DEF LogsOwnContext, TrackInv, UniqueId
<1> QED
  BY <1>3, <1>4, <1>5, <1>6

-----------------------------------------------------------------------------
(* Requests.                                                               *)

\* An id that another request has in REQUESTS is not unique, and an idle task has
\* nobody's context, so that a call disturbs no other request.
LEMMA CallIInv ==
  ASSUME IInv, NEW r \in Requests, NEW t \in Tasks, NEW id \in RequestIds, Call(r, t, id)
  PROVE  IInv'
<1> USE DEF IInv
<1>1. /\ NewContext(t, r) /\ phase[r] = "new" /\ t \notin children
      /\ rid' = [rid EXCEPT ![r] = id] /\ task' = [task EXCEPT ![r] = t]
      /\ phase' = [phase EXCEPT ![r] = IF requests[id] = NoOne THEN "absent" ELSE "running"]
      /\ UNCHANGED <<main, requests, children, logs, exit, pending, jobs, outstanding, orphans>>
      /\ main = NoOne \/ (t = main /\ exit = "no")
      /\ \A q \in Requests : Active(q) => task[q] # t
  BY DEF Call, Serves, Idle, Serving, Active, history
<1>2. /\ contextId' \in [Tasks -> Contexts \cup {NoOne}] /\ contexts' \subseteq Contexts
      /\ contextId'[t] = r /\ \A u \in Tasks \ {t} : contextId'[u] = contextId[u]
      /\ r \in contexts'
      /\ \A d : d # r => (d \in contexts' <=> d \in contexts /\ d # contextId[t])
  BY <1>1, NewContextFacts DEF Contexts
<1>3. /\ rid'[r] = id /\ task'[r] = t /\ phase'[r] \in {"absent", "running"}
      /\ phase'[r] = "running" => requests[id] # NoOne
      /\ \A q \in Requests \ {r} : rid'[q] = rid[q] /\ task'[q] = task[q] /\ phase'[q] = phase[q]
  BY <1>1 DEF TypeOK
<1>4. TypeOK'
  BY <1>1, <1>2 DEF TypeOK
<1>5. TaskInv'
  BY <1>1, <1>2, <1>3, <1>4 DEF TaskInv, Active, TypeOK
<1>6. r \notin jobs => (r \in contexts)' /\ contextId'[task'[r]] = r
  BY <1>2, <1>3
<1>7. ContextInv'
  <2>1. (\A u \in Tasks : contextId[u] \in Tasks => contextId[u] = u)'
    BY <1>2 DEF ContextInv
  <2>2. ASSUME NEW q \in Requests, Active(q)'
        PROVE  (/\ contextId[task[q]] \in {q, task[q], NoOne}
                /\ q \notin jobs => contextId[task[q]] = q /\ q \in contexts
                /\ \A u \in Tasks : contextId[u] = q => u = task[q] \/ u \in children)'
    <3>1. CASE q = r
      BY <1>1, <1>2, <1>3, <3>1 DEF TaskInv
    <3>2. CASE q # r
      <4>1. Active(q) /\ task[q] \in Tasks \ {t} /\ contextId[t] # q
        BY <1>1, <1>3, <2>2, <3>2 DEF Active, TaskInv, ContextInv
      <4> QED
        BY <1>1, <1>2, <1>3, <3>2, <4>1 DEF ContextInv
    <3> QED
      BY <3>1, <3>2
  <2>3. (\A q \in Requests : q \in contexts =>
           (contextId[task[q]] = q /\ task[q] \in Tasks \ children) \/ q \in orphans)'
    BY <1>1, <1>2, <1>3 DEF ContextInv
  <2>5. (\A u \in Tasks \ children : contextId[u] \in Requests =>
           task[contextId[u]] = u /\ phase[contextId[u]] \notin {"new", "finished"})'
    BY <1>1, <1>2, <1>3 DEF ContextInv, TaskInv
  <2>6. (\A c \in orphans : c \in Requests /\ phase[c] = "abandoned")'
    BY <1>1, <1>3 DEF ContextInv
  <2>4. (\A u \in Tasks : u \in contexts => contextId[u] = u)'
    BY <1>1, <1>2 DEF ContextInv
  <2> QED
    BY <2>1, <2>2, <2>3, <2>4, <2>5, <2>6 DEF ContextInv
<1>8. LogsOwnContext'
  BY <1>1 DEF LogsOwnContext
<1>9. TrackInv'
  <2>1. requests[id] # NoOne => requests[id] \in Requests \ {r} /\ rid[requests[id]] = id
    BY <1>1 DEF TypeOK, TrackInv, TaskInv
  <2>2. phase'[r] = "running" => ~UniqueId(r)'
    BY <1>3, <2>1 DEF UniqueId
  <2>3. \A q \in Requests \ {r} : phase[q] # "new" /\ UniqueId(q)' => UniqueId(q)
    BY <1>1, <1>3 DEF UniqueId, TaskInv
  <2>4. (\A i \in RequestIds : requests[i] # NoOne => rid[requests[i]] = i)'
    BY <1>1, <1>3 DEF TypeOK, TrackInv, TaskInv
  <2>5. r \notin outstanding /\ outstanding \subseteq Requests
    BY <1>1 DEF TrackInv, TypeOK
  <2> QED
    BY <1>1, <1>3, <2>2, <2>3, <2>4, <2>5 DEF TrackInv
<1> QED
  BY <1>4, <1>5, <1>7, <1>8, <1>9

\* when a request is tracked,
LEMMA RegisterIInv ==
  ASSUME IInv, NEW r \in Requests, Register(r)
  PROVE  IInv'
<1> USE DEF IInv
<1>1. /\ phase[r] = "absent" /\ requests' = [requests EXCEPT ![rid[r]] = r]
      /\ phase' = [phase EXCEPT ![r] = "running"]
      /\ UNCHANGED <<main, rid, task, contextId, contexts, children, logs, exit, pending, jobs, outstanding, orphans>>
  BY DEF Register, tables, history
<1>2. rid[r] \in RequestIds
  BY <1>1 DEF TaskInv
<1>3. /\ phase'[r] = "running" /\ \A q \in Requests \ {r} : phase'[q] = phase[q]
      /\ requests'[rid[r]] = r /\ \A i \in RequestIds \ {rid[r]} : requests'[i] = requests[i]
  BY <1>1, <1>2 DEF TypeOK
<1>4. TypeOK'
  BY <1>1, <1>2 DEF TypeOK
<1>5. \A q \in Requests : Active(q)' <=> Active(q)
  BY <1>1, <1>3 DEF Active
<1>6. TaskInv'
  BY <1>1, <1>3, <1>5 DEF TaskInv
<1>7. ContextInv' /\ LogsOwnContext'
  BY <1>1, <1>5 DEF ContextInv, LogsOwnContext
<1>8. TrackInv'
  BY <1>1, <1>2, <1>3 DEF TrackInv, UniqueId, TaskInv, TypeOK
<1> QED
  BY <1>4, <1>6, <1>7, <1>8

\* The record has the context of the request, or none after a job.
LEMMA FinishLogIInv ==
  ASSUME IInv, NEW r \in Requests, FinishLog(r)
  PROVE  IInv'
<1> USE DEF IInv
<1> DEFINE c == contextId[task[r]]
<1>1. /\ phase[r] = "running" /\ c # task[r]
      /\ logs' = [logs EXCEPT ![r] = Append(@, Record(c, FALSE))]
      /\ phase' = [phase EXCEPT ![r] = "logged"]
      /\ UNCHANGED <<main, rid, task, contextId, contexts, requests, children, exit, pending, jobs, outstanding, orphans>>
  BY DEF FinishLog, tables, history, InJob
<1>2. c \in {r, NoOne} /\ (r \notin jobs => c = r /\ r \in contexts)
  BY <1>1 DEF ContextInv, Active
<1> HIDE DEF c
<1> DEFINE l == Record(c, FALSE)
<1>3. l \in Records /\ l.context = IF c \in contexts THEN c ELSE NoOne
  BY <1>2, RecordFacts DEF Contexts
<1> HIDE DEF l
<1>4. /\ logs' \in [Requests -> Seq(Records)] /\ logs'[r] # <<>>
      /\ \A q \in Requests \ {r} : logs'[q] = logs[q]
      /\ \A i \in DOMAIN logs'[r] : (i \in DOMAIN logs[r] /\ logs'[r][i] = logs[r][i]) \/ logs'[r][i] = l
  <2>1. Logged(r, l)
    BY <1>1 DEF l, Logged
  <2>2. TypeOK /\ r \in Requests /\ l \in Records
    BY <1>2, <1>3
  <2>3. LogExtended(r, l)
    BY <2>1, <2>2, LogFacts
  <2> QED
    BY <2>3 DEF LogExtended
<1>5. phase'[r] = "logged" /\ \A q \in Requests \ {r} : phase'[q] = phase[q]
  BY <1>1 DEF TypeOK
<1>6. TypeOK'
  BY <1>1, <1>3, <1>4 DEF TypeOK
<1>7. \A q \in Requests : Active(q)' <=> Active(q)
  BY <1>1, <1>5 DEF Active
<1>8. TaskInv' /\ ContextInv'
  BY <1>1, <1>5, <1>7 DEF TaskInv, ContextInv
<1>9. LogsOwnContext'
  <2> SUFFICES ASSUME NEW q \in Requests, NEW i \in DOMAIN logs'[q], ~logs'[q][i].exit
               PROVE  logs'[q][i].context \in {q, NoOne} /\ (q \notin jobs => logs'[q][i].context = q)
    BY <1>1 DEF LogsOwnContext
  <2>1. CASE q = r
    BY <1>2, <1>3, <1>4, <2>1 DEF LogsOwnContext
  <2>2. CASE q # r
    BY <1>3, <1>4, <2>2 DEF LogsOwnContext
  <2> QED
    BY <2>1, <2>2
<1>10. TrackInv'
  BY <1>1, <1>3, <1>4, <1>5 DEF TrackInv, UniqueId, TypeOK
<1> QED
  BY <1>6, <1>8, <1>9, <1>10

\* when it is no more,
LEMMA FinishPopIInv ==
  ASSUME IInv, NEW r \in Requests, FinishPop(r)
  PROVE  IInv'
<1> USE DEF IInv
<1> DEFINE t == task[r]
<1>1. /\ phase[r] = "logged" /\ ClearContext(t)
      /\ requests' = [requests EXCEPT ![rid[r]] = NoOne]
      /\ phase' = [phase EXCEPT ![r] = "finished"]
      /\ UNCHANGED <<main, rid, task, children, logs, exit, pending, jobs, outstanding, orphans>>
  BY DEF FinishPop, history
<1>2. rid[r] \in RequestIds /\ t \in Tasks /\ contextId[t] \in {r, t, NoOne}
  BY <1>1 DEF TaskInv, ContextInv, Active
<1>3. /\ contextId' \in [Tasks -> Contexts \cup {NoOne}] /\ contexts' \subseteq Contexts
      /\ contextId'[t] = NoOne /\ \A u \in Tasks \ {t} : contextId'[u] = contextId[u]
      /\ \A d : d \in contexts' <=> d \in contexts /\ d # contextId[t]
  BY <1>1, <1>2, ClearContextFacts
<1>4. /\ phase'[r] = "finished" /\ \A q \in Requests \ {r} : phase'[q] = phase[q]
      /\ requests'[rid[r]] = NoOne /\ \A i \in RequestIds \ {rid[r]} : requests'[i] = requests[i]
  BY <1>1, <1>2 DEF TypeOK
<1>5. \A q \in Requests : Active(q)' => Active(q) /\ q # r /\ task[q] # t
  BY <1>1, <1>4 DEF Active, TaskInv
<1>6. TypeOK'
  BY <1>1, <1>2, <1>3 DEF TypeOK
<1>7. TaskInv'
  BY <1>1, <1>3, <1>4, <1>5 DEF TaskInv
<1>8. ContextInv'
  BY <1>1, <1>2, <1>3, <1>5 DEF ContextInv, TaskInv, Active
<1>9. LogsOwnContext' /\ TrackInv'
  BY <1>1, <1>2, <1>4 DEF LogsOwnContext, TrackInv, UniqueId, TypeOK, TaskInv
<1> QED
  BY <1>6, <1>7, <1>8, <1>9

\* and when it ends unfinished;
LEMMA AbandonIInv ==
  ASSUME IInv, NEW r \in Requests, Abandon(r)
  PROVE  IInv'
<1> USE DEF IInv
<1>1. /\ phase[r] = "running" /\ phase' = [phase EXCEPT ![r] = "abandoned"]
      /\ UNCHANGED <<main, rid, task, contextId, contexts, requests, children, logs, exit, pending, jobs, outstanding, orphans>>
  BY DEF Abandon, tables, history
<1>2. phase'[r] = "abandoned" /\ \A q \in Requests \ {r} : phase'[q] = phase[q]
  BY <1>1 DEF TypeOK
<1>3. TypeOK'
  BY <1>1 DEF TypeOK
<1>4. \A q \in Requests : Active(q)' => Active(q)
  BY <1>1, <1>2 DEF Active
<1>5. TaskInv'
  BY <1>1, <1>2, <1>4 DEF TaskInv
<1>6. ContextInv' /\ LogsOwnContext'
  BY <1>1, <1>4 DEF ContextInv, LogsOwnContext
<1>7. TrackInv'
  BY <1>1, <1>2 DEF TrackInv, UniqueId, TypeOK
<1> QED
  BY <1>3, <1>5, <1>6, <1>7

-----------------------------------------------------------------------------
(* The exit.                                                               *)

\* An idle main task serves none, and so nobody does if it serves them all.
LEMMA ExitBeginIInv ==
  ASSUME IInv, ExitBegin
  PROVE  IInv'
<1> USE DEF IInv
<1>1. /\ exit = "no" /\ exit' = "loop"
      /\ pending' = {id \in RequestIds : requests[id] # NoOne}
      /\ outstanding' = {requests[id] : id \in pending'}
      /\ UNCHANGED <<main, phase, rid, task, contextId, contexts, requests, children, logs, jobs, orphans>>
      /\ main \in Tasks => \A r \in Requests : Active(r) => task[r] # main
  BY DEF ExitBegin, tables, Idle, Serving, Active
<1>2. TypeOK'
  BY <1>1 DEF TypeOK
<1>3. TaskInv'
  BY <1>1 DEF TaskInv, Active
<1>4. ContextInv' /\ LogsOwnContext'
  BY <1>1 DEF ContextInv, LogsOwnContext, Active
<1>5. \A r \in outstanding' : r \in Requests /\ rid[r] \in pending'
  BY <1>1 DEF TrackInv, TypeOK
<1>6. TrackInv'
  BY <1>1, <1>5 DEF TrackInv, UniqueId, TaskInv, TypeOK
<1> QED
  BY <1>2, <1>3, <1>4, <1>6

\* when the exit finishes a request,
LEMMA ExitFinishIInv ==
  ASSUME IInv, NEW id \in RequestIds, ExitFinish(id)
  PROVE  IInv'
<1> USE DEF IInv
<1> DEFINE r == requests[id]
           c == IF main \in Tasks THEN contextId[main] ELSE NoOne
<1>1. /\ exit = "loop" /\ r # NoOne /\ pending' = pending \ {id}
      /\ logs' = [logs EXCEPT ![r] = Append(@, Record(c, TRUE))]
      /\ requests' = [requests EXCEPT ![rid[r]] = NoOne]
      /\ IF main \in Tasks THEN ClearContext(main) ELSE UNCHANGED tables
      /\ UNCHANGED <<main, phase, rid, task, children, exit, jobs, outstanding, orphans>>
  BY DEF ExitFinish, history
<1>2. r \in Requests /\ rid[r] = id /\ c \in Contexts \cup {NoOne}
  BY <1>1 DEF TypeOK, TrackInv
<1> HIDE DEF r, c
<1> DEFINE l == Record(c, TRUE)
<1>3. l \in Records /\ l.exit
  BY <1>2, RecordFacts
<1> HIDE DEF l
<1>4. /\ logs' \in [Requests -> Seq(Records)] /\ logs'[r] # <<>>
      /\ \A q \in Requests \ {r} : logs'[q] = logs[q]
      /\ \A i \in DOMAIN logs'[r] : (i \in DOMAIN logs[r] /\ logs'[r][i] = logs[r][i]) \/ logs'[r][i] = l
  <2>1. Logged(r, l)
    BY <1>1 DEF l, Logged
  <2>2. TypeOK /\ r \in Requests /\ l \in Records
    BY <1>2, <1>3
  <2>3. LogExtended(r, l)
    BY <2>1, <2>2, LogFacts
  <2> QED
    BY <2>3 DEF LogExtended
<1>5. requests'[id] = NoOne /\ \A i \in RequestIds \ {id} : requests'[i] = requests[i]
  BY <1>1, <1>2 DEF TypeOK
<1>6. /\ contextId' \in [Tasks -> Contexts \cup {NoOne}] /\ contexts' \subseteq Contexts
      /\ \/ contextId' = contextId /\ contexts' = contexts
         \/ /\ main \in Tasks /\ contextId'[main] = NoOne
            /\ \A u \in Tasks \ {main} : contextId'[u] = contextId[u]
            /\ \A d : d \in contexts' <=> d \in contexts /\ d # contextId[main]
  BY <1>1, ClearContextFacts DEF TypeOK, tables
<1>7. TypeOK'
  BY <1>1, <1>2, <1>3, <1>4, <1>6 DEF TypeOK
<1>8. TaskInv'
  BY <1>1, <1>6 DEF TaskInv, Active
<1>9. ContextInv'
  <2>1. CASE contextId' = contextId /\ contexts' = contexts
    BY <1>1, <2>1 DEF ContextInv, Active
  <2>2. CASE /\ main \in Tasks /\ contextId'[main] = NoOne
             /\ \A u \in Tasks \ {main} : contextId'[u] = contextId[u]
             /\ \A d : d \in contexts' <=> d \in contexts /\ d # contextId[main]
    <3>1. \A q \in Requests : ~Active(q)'
      BY <1>1, <2>2 DEF TaskInv, Active
    <3> QED
      BY <1>1, <2>2, <3>1 DEF ContextInv
  <2> QED
    BY <1>6, <2>1, <2>2
<1>10. LogsOwnContext'
  <2> SUFFICES ASSUME NEW q \in Requests, NEW i \in DOMAIN logs'[q], ~logs'[q][i].exit
               PROVE  logs'[q][i].context \in {q, NoOne} /\ (q \notin jobs => logs'[q][i].context = q)
    BY <1>1 DEF LogsOwnContext
  <2>1. CASE q = r
    BY <1>3, <1>4, <2>1 DEF LogsOwnContext, Record
  <2>2. CASE q # r
    BY <1>3, <1>4, <2>2 DEF LogsOwnContext
  <2> QED
    BY <2>1, <2>2
<1>11. TrackInv'
  <2>1. (\A i \in RequestIds : requests[i] # NoOne => rid[requests[i]] = i)'
    BY <1>1, <1>5 DEF TrackInv
  <2>2. ASSUME NEW q \in Requests, UniqueId(q)'
        PROVE  (/\ phase[q] \in {"running", "abandoned"} /\ logs[q] = <<>> => requests[rid[q]] = q
                /\ exit \in {"loop", "stopped"} /\ q \in outstanding => logs[q] # <<>> \/ rid[q] \in pending)'
    <3>1. CASE q = r
      BY <1>3, <1>4, <3>1
    <3>2. CASE q # r
      <4>1. UniqueId(q) /\ rid[q] # id
        BY <1>1, <1>2, <2>2, <3>2 DEF UniqueId
      <4>2. phase[q] # "new" => rid[q] \in RequestIds
        BY DEF TaskInv
      <4> QED
        BY <1>1, <1>3, <1>4, <1>5, <3>2, <4>1, <4>2 DEF TrackInv
    <3> QED
      BY <3>1, <3>2
  <2> QED
    BY <1>1, <2>1, <2>2 DEF TrackInv
<1> QED
  BY <1>7, <1>8, <1>9, <1>10, <1>11

\* and when the exit is over;
LEMMA ExitOverIInv ==
  ASSUME IInv, ExitEnd \/ \E id \in RequestIds : ExitKeyError(id)
  PROVE  IInv'
<1> USE DEF IInv
<1>1. /\ exit = "loop" /\ exit' \in {"stopped", "failed"} /\ (exit' = "stopped" => pending = {})
      /\ UNCHANGED <<main, phase, rid, task, contextId, contexts, requests, children, logs, pending, jobs, outstanding, orphans>>
  BY DEF ExitEnd, ExitKeyError, tables, history
<1>2. TypeOK' /\ TaskInv' /\ ContextInv' /\ LogsOwnContext'
  BY <1>1 DEF TypeOK, TaskInv, ContextInv, LogsOwnContext, Active
<1>3. TrackInv'
  BY <1>1 DEF TrackInv, UniqueId
<1> QED
  BY <1>2, <1>3

-----------------------------------------------------------------------------
\* after each step;
LEMMA StepIInv == IInv /\ [Next]_vars => IInv'
<1> SUFFICES ASSUME IInv, [Next]_vars PROVE IInv'
  OBVIOUS
<1>1. CASE UNCHANGED vars
  BY <1>1 DEF vars, tables, history, IInv, TypeOK, TaskInv, ContextInv, LogsOwnContext, TrackInv, Active, UniqueId
<1>2. ASSUME NEW r \in Requests, RequestStep(r) PROVE IInv'
  BY <1>2, CallIInv, RegisterIInv, FinishLogIInv, FinishPopIInv, AbandonIInv DEF RequestStep
<1>3. ASSUME NEW t \in Tasks, TaskStep(t) PROVE IInv'
  BY <1>3, StartChildIInv, EndChildIInv, TaskEndsIInv, JobPrerunIInv, JobPostrunIInv DEF TaskStep
<1>4. CASE ExitStep
  BY <1>4, ExitBeginIInv, ExitFinishIInv, ExitOverIInv DEF ExitStep
<1> QED
  BY <1>1, <1>2, <1>3, <1>4 DEF Next

\* in each state.
LEMMA SpecIInv == Spec => []IInv
  BY InitIInv, StepIInv, PTL DEF Spec

\* The model is type correct.
THEOREM TypeCorrect == Spec => []TypeOK
<1>1. IInv => TypeOK
  BY DEF IInv
<1> QED
  BY <1>1, SpecIInv, PTL

\* A request in progress keeps the context that was made for it, whatever other
\* requests, tasks, jobs and the exit do.
THEOREM ContextsAreOwn == Spec => []OwnContext
<1>1. IInv => OwnContext
  BY DEF IInv, TaskInv, ContextInv, OwnContext, Active
<1> QED
  BY <1>1, SpecIInv, PTL

\* Each entry of CONTEXT_MAP is the current context of a task, or was that of a
\* task that ended after it had abandoned a request.
THEOREM LeaksAreOfAbandoned == Spec => []OnlyAbandonedLeak
<1>1. IInv => OnlyAbandonedLeak
  BY DEF IInv, TypeOK, ContextInv, OnlyAbandonedLeak, Contexts
<1> QED
  BY <1>1, SpecIInv, PTL

\* finish_request never logs the context of another request.
THEOREM LogsAreOwn == Spec => []LogsOwnContext
<1>1. IInv => LogsOwnContext
  BY DEF IInv
<1> QED
  BY <1>1, SpecIInv, PTL

\* A request with an id of its own is in REQUESTS until it is logged, and an exit
\* that comes to its end has logged what was in there.
THEOREM RequestsAreTracked == Spec => []TrackedUntilLogged
<1>1. IInv => TrackedUntilLogged
  BY DEF IInv, TrackInv, TrackedUntilLogged
<1> QED
  BY <1>1, SpecIInv, PTL

=============================================================================
