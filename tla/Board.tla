-------------------------------- MODULE Board --------------------------------
(***************************************************************************)
(* The durable state and those who write it: the cards and tasks in SQLite *)
(* (repobot/db.py, queues.py), the task board (tasks.py and its endpoints) *)
(* and the editor of a queue's columns (config.py).                        *)
(*                                                                         *)
(* A write is a read-modify-write of everything: `_mutate` takes the lock  *)
(* of queues.py, loads, changes and flushes; a load and a flush each take  *)
(* the lock of db.py.  The editor renames under the latter alone.  Every   *)
(* thread is stopped between any two of these steps, and the server at any *)
(* of them.                                                                *)
(*                                                                         *)
(* What an abort does to a task's session is not in here: the session ends *)
(* after its first turn either way, when its hooks have run.  Worktrees    *)
(* are one that is ready or raises.  A flush that raises rolls back, and   *)
(* is left out.                                                            *)
(***************************************************************************)
EXTENDS Naturals, FiniteSets

CONSTANTS
  Thread,       \* request handlers and the dispatch thread each may start
  Session,      \* do-task sessions; bound: as many are ever dispatched
  Card,         \* cards of the one queue
  Column,       \* names a column of the queue may have
  Columns,      \* those it opens with
  None,         \* no session, nobody
  MaxInputs     \* bound: requests, edits and stops of the server, together

ASSUME BoardAssumption ==
  /\ Columns \subseteq Column
  /\ Thread \cap Session = {} /\ None \notin Thread \cup Session \cup Column \cup {"editor"}
  /\ "editor" \notin Thread \cup Session

VARIABLES
  disk,    \* what is committed
  tables,  \* what the one connection sees
  mutex,   \* who holds queues._LOCK
  dblock,  \* who holds db._LOCK
  view,    \* the state the holder of queues._LOCK loaded
  write,   \* how far the write of a thread or a session is
  job,     \* where a thread is, and with which tasks
  sess,    \* the sessions
  config,  \* the columns in config.yaml
  edit,    \* where the editor is
  inputs,  \* how many requests, edits and stops there were, for the bound
  stopped  \* whether the server was ever stopped

vars == <<disk, tables, mutex, dblock, view, write, job, sess, config, edit, inputs, stopped>>

Writer == Thread \cup Session
-----------------------------------------------------------------------------
(* What is written.                                                        *)

\* create_task
Blank == [status |-> "in_progress", session |-> None, result |-> FALSE]

\* update_task, by its callers.
Started     == [status |-> "in_progress"]
Finished    == {[status |-> st, result |-> TRUE] : st \in {"done", "stuck"}}
Assigned(s) == [status |-> "in_progress", session |-> s]
Reset       == [status |-> "in_progress", session |-> None, result |-> FALSE]
SpawnFailed == [status |-> "stuck", result |-> TRUE]

Patches == {Started, Reset, SpawnFailed} \cup Finished \cup {Assigned(s) : s \in Session}

L == INSTANCE Ledger WITH tasks <- disk.tasks, next <- disk.next

NoWrite == [kind |-> "none"]
CreateTask == [kind |-> "create"]
UpdateTask(i, patch) == [kind |-> "patch", task |-> i, fields |-> patch]
DeleteTask(i) == [kind |-> "delete", task |-> i]
MoveCard(c, column) == [kind |-> "move", card |-> c, column |-> column]

\* A mutator, on what was loaded.  A task that is not there is not updated.
\* Mutant: the next number is one more than the last that is left.
MutatedReusing(op, v) ==
  CASE op.kind = "create" ->
         LET n == IF DOMAIN v.tasks = {} THEN 1
                  ELSE 1 + CHOOSE i \in DOMAIN v.tasks : \A j \in DOMAIN v.tasks : j <= i
         IN [v EXCEPT !.tasks = [i \in DOMAIN v.tasks \cup {n} |->
                                   IF i = n THEN Blank ELSE v.tasks[i]],
                      !.next = n + 1]
    [] op.kind = "patch" /\ op.task \in DOMAIN v.tasks ->
         [v EXCEPT !.tasks[op.task] = L!Patched(@, op.fields)]
    [] op.kind = "delete" ->
         [v EXCEPT !.tasks = [i \in DOMAIN v.tasks \ {op.task} |-> v.tasks[i]]]
    [] op.kind = "move" -> [v EXCEPT !.cards[op.card] = op.column]
    [] OTHER -> v

Mutated(op, v) ==
  CASE op.kind = "create" ->
         [v EXCEPT !.tasks = [i \in DOMAIN v.tasks \cup {v.next} |->
                                IF i = v.next THEN Blank ELSE v.tasks[i]],
                   !.next = v.next + 1]
    [] op.kind = "patch" /\ op.task \in DOMAIN v.tasks ->
         [v EXCEPT !.tasks = [v.tasks EXCEPT ![op.task] = L!Patched(@, op.fields)]]
    [] op.kind = "delete" ->
         [v EXCEPT !.tasks = [i \in DOMAIN v.tasks \ {op.task} |-> v.tasks[i]]]
    [] op.kind = "move" -> [v EXCEPT !.cards = [v.cards EXCEPT ![op.card] = op.column]]
    [] OTHER -> v

\* After the DELETEs of a flush.
Emptied == [cards |-> [c \in {} |-> None], tasks |-> [i \in {} |-> Blank], next |-> disk.next]
-----------------------------------------------------------------------------
(* Threads, sessions and the editor.                                       *)

Idle == [at |-> "idle", task |-> 0, doomed |-> {}]
NoSession == [at |-> "none", task |-> 0]
NoEdit == [at |-> "idle", old |-> None, new |-> None]
Asleep == [phase |-> "none", op |-> NoWrite]
Wants(op) == [phase |-> "want", op |-> op]

Free(w) == write[w].phase = "none"

\* Hooks run in the session loop: while one writes, no session goes on.
LoopFree == \A s \in Session : Free(s)

\* Bound: as many dispatches as there are sessions.
SessionLeft ==
  Cardinality({s \in Session : sess[s].at = "none"})
    > Cardinality({t \in Thread : job[t].at \in {"dispatch", "worktree", "start"}})

Input == inputs < MaxInputs /\ inputs' = inputs + 1

Init ==
  /\ \E cards \in [Card -> Columns] :
       disk = [cards |-> cards, tasks |-> [i \in {} |-> Blank], next |-> 1]
  /\ tables = disk
  /\ mutex = None /\ dblock = None
  /\ view = disk
  /\ write = [w \in Writer |-> Asleep]
  /\ job = [t \in Thread |-> Idle]
  /\ sess = [s \in Session |-> NoSession]
  /\ config = Columns
  /\ edit = NoEdit
  /\ inputs = 0 /\ stopped = FALSE
-----------------------------------------------------------------------------
(* The store.                                                              *)

\* Mutant: the lock is only taken to flush.
LoadUnlocked(w) ==
  /\ write[w].phase = "want" /\ dblock = None
  /\ view' = tables
  /\ write' = [write EXCEPT ![w].phase = "loaded"]
  /\ UNCHANGED <<disk, tables, mutex, dblock, job, sess, config, edit, inputs, stopped>>

\* _mutate takes its lock and loads.
Load(w) ==
  /\ write[w].phase = "want" /\ mutex = None /\ dblock = None
  /\ mutex' = w
  /\ view' = tables
  /\ write' = [write EXCEPT ![w].phase = "loaded"]
  /\ UNCHANGED <<disk, tables, dblock, job, sess, config, edit, inputs, stopped>>

\* Mutant: the flush has no BEGIN, so each of its statements is a transaction.
FlushAutocommit(w) ==
  /\ write[w].phase = "loaded" /\ dblock = None
  /\ dblock' = w
  /\ view' = Mutated(write[w].op, view)
  /\ tables' = Emptied /\ disk' = Emptied
  /\ write' = [write EXCEPT ![w].phase = "flushing"]
  /\ job' = IF write[w].op.kind = "create" THEN [job EXCEPT ![w].task = view.next] ELSE job
  /\ UNCHANGED <<mutex, sess, config, edit, inputs, stopped>>

\* The mutator, and the first half of _flush_state_to_conn; create_task's mutator
\* hands the number out.
Flush(w) ==
  /\ write[w].phase = "loaded" /\ dblock = None
  /\ dblock' = w
  /\ view' = Mutated(write[w].op, view)
  /\ tables' = Emptied
  /\ write' = [write EXCEPT ![w].phase = "flushing"]
  /\ job' = IF write[w].op.kind = "create" THEN [job EXCEPT ![w].task = view.next] ELSE job
  /\ UNCHANGED <<disk, mutex, sess, config, edit, inputs, stopped>>

\* The INSERTs and the COMMIT; both locks are given back.
Commit(w) ==
  /\ write[w].phase = "flushing"
  /\ tables' = view /\ disk' = view
  /\ mutex' = None /\ dblock' = None
  /\ write' = [write EXCEPT ![w] = Asleep]
  /\ UNCHANGED <<view, job, sess, config, edit, inputs, stopped>>

Store(w) == Load(w) \/ Flush(w) \/ Commit(w)
-----------------------------------------------------------------------------
(* The task board.                                                         *)

\* A thread goes on, and writes first.
Goes(t, next, op) ==
  /\ job' = [job EXCEPT ![t] = next]
  /\ write' = [write EXCEPT ![t] = Wants(op)]

Waits(t, at) == job[t].at = at /\ Free(t)

StoreUnchanged == UNCHANGED <<disk, tables, mutex, dblock, view>>

\* new_task
New(t) ==
  /\ Waits(t, "idle") /\ Input /\ SessionLeft
  /\ Goes(t, [Idle EXCEPT !.at = "dispatch"], CreateTask)
  /\ StoreUnchanged /\ UNCHANGED <<sess, config, edit, stopped>>

\* retry_task_endpoint; find_task reads under the lock of db.py.
Retry(t) ==
  /\ Waits(t, "idle") /\ Input /\ SessionLeft /\ dblock = None
  /\ \E i \in DOMAIN tables.tasks :
       Goes(t, [Idle EXCEPT !.at = "dispatch", !.task = i], UpdateTask(i, Reset))
  /\ StoreUnchanged /\ UNCHANGED <<sess, config, edit, stopped>>

Dooms(t, doomed) ==
  /\ doomed # {}
  /\ job' = [job EXCEPT ![t] = [Idle EXCEPT !.at = "clear", !.doomed = doomed]]
  /\ StoreUnchanged /\ UNCHANGED <<write, sess, config, edit, stopped>>

\* delete_task_endpoint, of a task that some page may show.
Delete(t) ==
  /\ Waits(t, "idle") /\ Input
  /\ \E i \in 1..disk.next - 1 : Dooms(t, {i})

\* clear_done_tasks: what is done when it looks is deleted, one by one.
ClearDone(t) ==
  /\ Waits(t, "idle") /\ Input /\ dblock = None
  /\ Dooms(t, {i \in DOMAIN tables.tasks : tables.tasks[i].status = "done"})

ClearNext(t) ==
  /\ Waits(t, "clear")
  /\ \E i \in job[t].doomed :
       LET left == job[t].doomed \ {i}
       IN Goes(t, IF left = {} THEN Idle ELSE [job[t] EXCEPT !.doomed = left], DeleteTask(i))
  /\ StoreUnchanged /\ UNCHANGED <<sess, config, edit, inputs, stopped>>

\* dispatch_task finds its task, or raises, which its thread notes on the task.
Find(t) ==
  /\ Waits(t, "dispatch") /\ dblock = None
  /\ IF job[t].task \in DOMAIN tables.tasks
       THEN job' = [job EXCEPT ![t].at = "worktree"] /\ UNCHANGED write
       ELSE Goes(t, Idle, UpdateTask(job[t].task, SpawnFailed))
  /\ StoreUnchanged /\ UNCHANGED <<sess, config, edit, inputs, stopped>>

\* Mutant: nothing is noted when the worktree cannot be made.
WorktreeSilent(t) ==
  /\ Waits(t, "worktree") /\ UNCHANGED write
  /\ \E next \in {Idle, [job[t] EXCEPT !.at = "start"]} : job' = [job EXCEPT ![t] = next]
  /\ StoreUnchanged /\ UNCHANGED <<sess, config, edit, inputs, stopped>>

\* ensure_task_worktree
Worktree(t) ==
  /\ Waits(t, "worktree")
  /\ \/ job' = [job EXCEPT ![t].at = "start"] /\ UNCHANGED write
     \/ Goes(t, Idle, UpdateTask(job[t].task, SpawnFailed))
  /\ StoreUnchanged /\ UNCHANGED <<sess, config, edit, inputs, stopped>>

\* start_session, and the pointer to it.
Start(t) ==
  /\ Waits(t, "start")
  /\ \E s \in Session : sess[s].at = "none"
  /\ LET s == CHOOSE s \in Session : sess[s].at = "none"
     IN
       /\ sess' = [sess EXCEPT ![s] = [at |-> "queued", task |-> job[t].task]]
       /\ Goes(t, Idle, UpdateTask(job[t].task, Assigned(s)))
  /\ StoreUnchanged /\ UNCHANGED <<config, edit, inputs, stopped>>

\* A session goes on, and its hook writes.
Hook(s, at, patch) ==
  /\ LoopFree
  /\ sess' = [sess EXCEPT ![s].at = at]
  /\ write' = [write EXCEPT ![s] = Wants(UpdateTask(sess[s].task, patch))]
  /\ StoreUnchanged /\ UNCHANGED <<job, config, edit, inputs, stopped>>

Begin(s) == sess[s].at = "queued" /\ Hook(s, "turn", Started)

EndTurn(s) == sess[s].at = "turn" /\ \E patch \in Finished : Hook(s, "over", patch)

\* No hook runs: nobody tells the task.
Fail(s) ==
  /\ sess[s].at \in {"queued", "turn"} /\ LoopFree
  /\ sess' = [sess EXCEPT ![s].at = "over"]
  /\ StoreUnchanged /\ UNCHANGED <<write, job, config, edit, inputs, stopped>>
-----------------------------------------------------------------------------
(* Cards and columns.                                                      *)

\* set_item_state, to a column config.yaml has.
Move(t) ==
  /\ Waits(t, "idle") /\ Input
  /\ \E c \in Card, column \in config : Goes(t, Idle, MoveCard(c, column))
  /\ StoreUnchanged /\ UNCHANGED <<sess, config, edit, stopped>>

\* update_queue_definition reads config.yaml; the form asks for a column to be
\* renamed, or dropped.
Edit ==
  /\ edit.at = "idle" /\ Input
  /\ \E old \in config, new \in (Column \ config) \cup {None} :
       /\ new # None \/ config # {old}
       /\ edit' = [at |-> "guard", old |-> old, new |-> new]
  /\ StoreUnchanged /\ UNCHANGED <<write, job, sess, config, stopped>>

\* items_in_states: a column that has cards is not dropped.
EditGuard ==
  /\ edit.at = "guard" /\ dblock = None
  /\ edit' = IF edit.new # None THEN [edit EXCEPT !.at = "rename"]
             ELSE IF \E c \in Card : tables.cards[c] = edit.old THEN NoEdit
             ELSE [edit EXCEPT !.at = "replace"]
  /\ StoreUnchanged /\ UNCHANGED <<write, job, sess, config, inputs, stopped>>

\* rename_item_states: the UPDATEs of its transaction.
Renamed(s) ==
  [s EXCEPT !.cards = [c \in Card |-> IF s.cards[c] = edit.old THEN edit.new ELSE s.cards[c]]]

Rename ==
  /\ edit.at = "rename" /\ dblock = None
  /\ dblock' = "editor" /\ tables' = Renamed(tables)
  /\ edit' = [edit EXCEPT !.at = "commit"]
  /\ UNCHANGED <<disk, mutex, view, write, job, sess, config, inputs, stopped>>

RenameCommit ==
  /\ edit.at = "commit"
  /\ disk' = tables /\ dblock' = None
  /\ edit' = [edit EXCEPT !.at = "replace"]
  /\ UNCHANGED <<tables, mutex, view, write, job, sess, config, inputs, stopped>>

\* os.replace puts the new config.yaml in place.
Replace ==
  /\ edit.at = "replace"
  /\ config' = (config \ {edit.old}) \cup ({edit.new} \ {None})
  /\ edit' = NoEdit
  /\ StoreUnchanged /\ UNCHANGED <<write, job, sess, inputs, stopped>>

Editor == Edit \/ EditGuard \/ Rename \/ RenameCommit \/ Replace
-----------------------------------------------------------------------------
\* The server stops and starts: what is not committed is gone, and so are the
\* threads, the sessions and the locks.  The boot sweep looks at cards only.
Restart ==
  /\ Input /\ stopped' = TRUE
  /\ tables' = disk /\ view' = disk
  /\ mutex' = None /\ dblock' = None
  /\ write' = [w \in Writer |-> Asleep]
  /\ job' = [t \in Thread |-> Idle]
  /\ sess' = [s \in Session |-> IF sess[s].at = "none" THEN NoSession
                                ELSE [sess[s] EXCEPT !.at = "over"]]
  /\ edit' = NoEdit
  /\ UNCHANGED <<disk, config>>

Handler(t) == New(t) \/ Retry(t) \/ Delete(t) \/ ClearDone(t) \/ Move(t)
Dispatch(t) == ClearNext(t) \/ Find(t) \/ Worktree(t) \/ Start(t)
Runs(s) == Begin(s) \/ EndTurn(s) \/ Fail(s)

Next ==
  \/ \E w \in Writer : Store(w)
  \/ \E t \in Thread : Handler(t) \/ Dispatch(t)
  \/ \E s \in Session : Runs(s)
  \/ Editor
  \/ Restart

Spec == Init /\ [][Next]_vars

\* A thread that has work goes on, and so does a write.
FairSpec ==
  /\ Spec
  /\ \A w \in Writer : WF_vars(Store(w))
  /\ \A t \in Thread : WF_vars(Dispatch(t))
  /\ WF_vars(EditGuard \/ Rename \/ RenameCommit \/ Replace)
-----------------------------------------------------------------------------
(* Properties.                                                             *)

Records == [status : {"in_progress", "done", "stuck"}, session : Session \cup {None},
            result : BOOLEAN]

StateOK(s) ==
  /\ s.cards \in [Card -> Column]
  /\ s.next \in Nat \ {0}
  /\ DOMAIN s.tasks \subseteq 1..s.next - 1
  /\ \A i \in DOMAIN s.tasks : s.tasks[i] \in Records

Places == {"idle", "clear", "dispatch", "worktree", "start"}

\* The locks are where the writes are.
LocksOK ==
  /\ mutex \in Writer \cup {None} /\ dblock \in Writer \cup {None, "editor"}
  /\ \A w \in Writer :
       /\ write[w].phase \in {"none", "want", "loaded", "flushing"}
       /\ write[w].phase \in {"loaded", "flushing"} <=> mutex = w
       /\ write[w].phase = "flushing" <=> dblock = w
  /\ edit.at = "commit" <=> dblock = "editor"

\* Every variable keeps its type, and the locks are where the writes are.
TypeOK ==
  /\ StateOK(disk) /\ StateOK(view) /\ LocksOK
  /\ \A t \in Thread : job[t].at \in Places
  /\ \A s \in Session : sess[s].at \in {"none", "queued", "turn", "over"}
  /\ config \subseteq Column

\* "partial writes can't happen" (db.py:389), whatever the server is stopped in:
\* what is committed has every card, and what anyone reads who takes the lock of
\* db.py is what is committed.
NoHalfWrite == DOMAIN disk.cards = Card /\ (dblock = None => tables = disk)

\* The tasks, over the locks and transactions of the store, behave like Ledger:
\* no write is undone by another, whoever comes in between.
LedgerSpec == L!LedgerSpec

\* Unless the server stops, a task that shows neither a session nor a result is
\* given one of them, or is deleted: whatever overlaps, its dispatch tells it how
\* it went (api.py:2101-2109).
TaskIsAnswered ==
  \A i \in 1..MaxInputs :
    (i \in DOMAIN disk.tasks /\ disk.tasks[i].session = None /\ ~disk.tasks[i].result)
      ~> (i \in DOMAIN disk.tasks =>
            disk.tasks[i].session # None \/ disk.tasks[i].result \/ stopped)

\* "Renames migrate every affected item in SQL so we don't orphan rows that were
\* sitting in a renamed state" (config.py:127-129): a card goes to another column
\* when it is moved or when its column is renamed, and back by nobody's write of
\* something else.
CardsMoveOnPurpose ==
  [][\A c \in Card :
       disk'.cards[c] # disk.cards[c] =>
         \/ edit.at = "commit"
         \/ \E w \in Writer : write[w].phase = "flushing" /\ write[w].op.kind = "move"
                             /\ write[w].op.card = c]_vars
=============================================================================
