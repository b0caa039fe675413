------------------------------ MODULE LogContext ------------------------------
(***************************************************************************)
(* The logging extras of one context (ContextStack in talisker/context.py) *)
(* and what becomes of them in a log record (StructuredLogger.makeRecord   *)
(* in talisker/logs.py).  The context is that of a celery job: task_prerun *)
(* has pushed what identifies the job.  The job and the tasks it starts    *)
(* share the context.                                                      *)
(*                                                                         *)
(* An OrderedDict is a sequence of items with different names.  A name is  *)
(* a key and the number of underscores that were appended to it.           *)
(***************************************************************************)
EXTENDS Naturals, Sequences, FiniteSets, SequencesExt

CONSTANTS Tasks,
          Keys,        \* the keys of extras
          Unfit,       \* those that are no strings, and nothing that logfmt can use
          Values,      \* the values that dicts on the stack have
          NotCached,   \* None
          MaxDepth,    \* bound: how many dicts are on the stack
          MaxGlobals   \* bound: how many items the global extra has

ASSUME LogAssumption ==
  /\ {"task_id", "request_id"} \subseteq Keys \ Unfit /\ Unfit \subseteq Keys
  /\ MaxDepth \in Nat \ {0} /\ MaxGlobals \in Nat

VARIABLES
  requestId,  \* the request id of the context
  globals,    \* logging_globals['extra']
  stack,      \* ContextStack.stack
  flat,       \* ContextStack._flat
  blocks,     \* for each task, the depths at which it has entered with-blocks
  pushed      \* for each task, the depths its push() has returned

logVars == <<requestId, globals, stack, flat, blocks, pushed>>

-----------------------------------------------------------------------------
(* Dicts.                                                                  *)

Names == (Keys \ Unfit) \X {0, 1} \cup Unfit \X {0}
Underscored(name) == <<name[1], name[2] + 1>>

Item(name, v) == [name |-> name, value |-> v]
Singles(V) == {<<Item(n, v)>> : n \in Names, v \in V}
NamesOf(d) == {d[i].name : i \in DOMAIN d}

\* d[name] = value
Assign(d, item) ==
  IF item.name \in NamesOf(d)
  THEN [i \in DOMAIN d |-> IF d[i].name = item.name THEN item ELSE d[i]]
  ELSE Append(d, item)

Update(d, e) == FoldLeft(Assign, d, e)

\* The items of d, those with a taken name under another one.
Renamed(d, taken) ==
  [i \in DOMAIN d |-> IF d[i].name \in taken
                      THEN Item(Underscored(d[i].name), d[i].value) ELSE d[i]]

-----------------------------------------------------------------------------
(* ContextStack.                                                           *)

\* An item whose name has been seen is left out.
AddUnseen(seen, item) == IF item.name \in NamesOf(seen) THEN seen ELSE Append(seen, item)

\* The items of one dict, after those that have been seen.
Merge(d, seen) == FoldLeft(AddUnseen, seen, d)

\* _iterate: from the top down, each name once.
Flatten(s) == FoldRight(Merge, s, <<>>)

\* What a reader of the property "flat" gets.
Flat == IF flat = NotCached THEN Flatten(stack) ELSE flat

\* (mutant) The cache is not reset.
ChangeCached(s) == stack' = s /\ UNCHANGED flat

Change(s) == stack' = s /\ flat' = NotCached

\* pop
Drop(s) == IF s = <<>> THEN s ELSE Front(s)

-----------------------------------------------------------------------------
(* makeRecord.                                                             *)

\* (mutant) Only collisions with the context are looked for.
RecordContextOnly(extra) ==
  LET own == Update(<<>>, Renamed(extra, NamesOf(Flat)))
  IN  Update(Update(own, Flat), globals)

\* A name that is taken and cannot be renamed: makeRecord gets an exception.
Clash(extra) ==
  \E name \in Unfit \X {0} :
    Cardinality({d \in {1, 2, 3} : name \in NamesOf(<<extra, Flat, globals>>[d])}) > 1

\* The structured data of a record with the given extra.
Record(extra) ==
  LET own == Update(<<>>, Renamed(extra, NamesOf(Flat) \cup NamesOf(globals)))
      all == Update(Update(own, Renamed(Flat, NamesOf(globals))), globals)
  IN  IF Clash(extra) THEN extra
      ELSE IF requestId = "none" THEN all ELSE Assign(all, Item(<<"request_id", 0>>, requestId))

-----------------------------------------------------------------------------
(* The job.                                                                *)

\* What task_prerun pushes.
Job == <<Item(<<"task_id", 0>>, "job")>>

Extras ==
  {<<>>} \cup Singles({"call"})
         \cup {<<Item(<<k, i>>, "call"), Item(<<k, 1 - i>>, "call")>> : k \in Keys \ Unfit, i \in {0, 1}}

LogInit ==
  /\ requestId \in {"none", "id"}
  /\ globals = <<>>
  /\ stack = <<Job>>
  /\ flat = NotCached
  /\ blocks = [t \in Tasks |-> <<>>]
  /\ pushed = [t \in Tasks |-> <<>>]

SetGlobalExtra(e) ==
  /\ Len(Update(globals, e)) <= MaxGlobals
  /\ globals' = Update(globals, e)
  /\ UNCHANGED <<requestId, stack, flat, blocks, pushed>>

\* A log call reads the flattened stack, which is kept.
Log == flat' = Flat /\ UNCHANGED <<requestId, globals, stack, blocks, pushed>>

Push(t, d) ==
  /\ Len(stack) < MaxDepth
  /\ Change(Append(stack, d))
  /\ pushed' = [pushed EXCEPT ![t] = Append(@, Len(stack))]
  /\ UNCHANGED <<requestId, globals, blocks>>

\* A task pops no more than it has pushed.
Pop(t) ==
  /\ pushed[t] # <<>>
  /\ Change(Drop(stack))
  /\ pushed' = [pushed EXCEPT ![t] = Front(@)]
  /\ UNCHANGED <<requestId, globals, blocks>>

\* (mutant) Unwinds while the stack is as deep as it was.
UnwindBelow(t) ==
  /\ pushed[t] # <<>>
  /\ LET level == Last(pushed[t])
     IN  /\ \A u \in Tasks : \A i \in DOMAIN blocks[u] : blocks[u][i] < level
         /\ \A u \in Tasks \ {t} : \A i \in DOMAIN pushed[u] : pushed[u][i] < level
         /\ Change(SubSeq(stack, 1, level - 1))
  /\ pushed' = [pushed EXCEPT ![t] = Front(@)]
  /\ UNCHANGED <<requestId, globals, blocks>>

\* A task unwinds to the depth that push() returned, unless there are
\* with-blocks above it, whose ends would then pop what is below.
Unwind(t) ==
  /\ pushed[t] # <<>>
  /\ LET level == Last(pushed[t])
     IN  /\ \A u \in Tasks : \A i \in DOMAIN blocks[u] : blocks[u][i] < level
         /\ \A u \in Tasks \ {t} : \A i \in DOMAIN pushed[u] : pushed[u][i] < level
         /\ Change(SubSeq(stack, 1, IF level < Len(stack) THEN level ELSE Len(stack)))
  /\ pushed' = [pushed EXCEPT ![t] = Front(@)]
  /\ UNCHANGED <<requestId, globals, blocks>>

\* with Context.logging(d):
Enter(t, d) ==
  /\ Len(stack) < MaxDepth
  /\ Change(Append(stack, d))
  /\ blocks' = [blocks EXCEPT ![t] = Append(@, Len(stack))]
  /\ UNCHANGED <<requestId, globals, pushed>>

\* The end of the innermost with-block of a task.
Exit(t) ==
  /\ blocks[t] # <<>>
  /\ Change(Drop(stack))
  /\ blocks' = [blocks EXCEPT ![t] = Front(@)]
  /\ UNCHANGED <<requestId, globals, pushed>>

\* An exception leaves the innermost with-block of a task: the generator of
\* ContextStack.__call__ ends at its yield, and nothing is popped.
Raise(t) ==
  /\ blocks[t] # <<>>
  /\ blocks' = [blocks EXCEPT ![t] = Front(@)]
  /\ UNCHANGED <<requestId, globals, stack, flat, pushed>>

LogNext ==
  \/ \E e \in Singles({"global"}) : SetGlobalExtra(e)
  \/ Log
  \/ \E t \in Tasks :
       \/ \E d \in Singles(Values) : Push(t, d) \/ Enter(t, d)
       \/ Pop(t)
       \/ Unwind(t)
       \/ Exit(t)
       \/ Raise(t)

LogSpec == LogInit /\ [][LogNext]_logVars

-----------------------------------------------------------------------------
(* Properties.                                                             *)

\* A reader of the extras gets each name that is on the stack, with the value
\* it has nearest to the top: the cache is never older than the stack.
FlatIsCurrent ==
  /\ NamesOf(Flat) = UNION {NamesOf(d) : d \in Range(stack)}
  /\ \A i \in DOMAIN Flat :
       \E j \in DOMAIN stack :
         /\ Flat[i] \in Range(stack[j])
         /\ \A k \in j + 1..Len(stack) : Flat[i].name \notin NamesOf(stack[k])

\* However the blocks of concurrent tasks interleave, and whatever is raised in
\* them, what identifies the job stays at the bottom of the stack.
JobStays == stack # <<>> /\ stack[1] = Job

\* A datum is in a record under its name or, renamed, with an underscore.
Kept(item, record) ==
  \E i \in DOMAIN record : record[i].name \in {item.name, Underscored(item.name)}
                           /\ record[i].value = item.value

Sources(extra) == {extra, Flat, globals}

\* No name ends in an underscore or is taken by the request id.
Plain(extra) ==
  UNION {NamesOf(d) : d \in Sources(extra)} \subseteq (Keys \ ({"request_id"} \cup Unfit)) \X {0}

AllKept(extra) == \A d \in Sources(extra) : \A i \in DOMAIN d : Kept(d[i], Record(extra))

\* With plain names of which no more than two are the same, a record has all the
\* data of the call, the context and the process; and no record has a global
\* extra under another name.
CollisionsKept ==
  \A extra \in Extras :
    /\ Plain(extra) /\ NamesOf(extra) \cap NamesOf(Flat) \cap NamesOf(globals) = {} => AllKept(extra)
    /\ \A i \in DOMAIN globals :
         globals[i].name # <<"request_id", 0>> /\ ~Clash(extra) => globals[i] \in Range(Record(extra))

=============================================================================
