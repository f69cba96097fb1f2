----------------------------- MODULE BoardProofs -----------------------------
(***************************************************************************)
(* For any number of threads, sessions, cards and columns, and any number  *)
(* of requests, edits and stops of the server: the state of Board keeps    *)
(* its type, no half write is ever seen, and the tasks implement Ledger.   *)
(*                                                                         *)
(* The argument.  Only the holder of queues._LOCK writes tasks, and it     *)
(* loaded those that are still committed when it flushes (ViewHeld): the   *)
(* editor, the only one who commits without that lock, writes cards        *)
(* (RenameApart).  So what a Commit makes visible is the entry's change of *)
(* what was there, and not of an older state.                              *)
(***************************************************************************)
EXTENDS Board, TLAPS

\* A state is a record of cards, tasks and the next number.
Shaped(s) ==
  /\ s = [cards |-> s.cards, tasks |-> s.tasks, next |-> s.next]
  /\ s.tasks = [i \in DOMAIN s.tasks |-> s.tasks[i]]
  /\ StateOK(s)

Ops ==
  {NoWrite, CreateTask}
    \cup {UpdateTask(i, patch) : i \in Nat, patch \in Patches}
    \cup {DeleteTask(i) : i \in Nat}
    \cup {MoveCard(c, column) : c \in Card, column \in Column}

\* One entry leads from the tasks of old to those of new.
SameBook(new, old) == new.tasks = old.tasks /\ new.next = old.next

EntryOf(new, tasks, next) ==
  \/ new.tasks = tasks /\ new.next = next
  \/ /\ new.tasks = [i \in DOMAIN tasks \cup {next} |-> IF i = next THEN Blank ELSE tasks[i]]
     /\ new.next = next + 1
  \/ /\ new.next = next
     /\ \E i \in DOMAIN tasks :
          \/ \E patch \in Patches : new.tasks = [tasks EXCEPT ![i] = L!Patched(@, patch)]
          \/ new.tasks = [j \in DOMAIN tasks \ {i} |-> tasks[j]]

Follows(new, old) == EntryOf(new, old.tasks, old.next)

\* The threads, the sessions and the editor.
ActorsOK ==
  /\ write \in [Writer -> [phase : {"none", "want", "loaded", "flushing"}, op : Ops]]
  /\ job \in [Thread -> [at : Places, task : Nat, doomed : SUBSET Nat]]
  /\ sess \in [Session -> [at : {"none", "queued", "turn", "over"}, task : Nat]]
  /\ edit \in [at : {"idle", "guard", "rename", "commit", "replace"},
               old : Column \cup {None}, new : Column \cup {None}]
  /\ edit.at \in {"rename", "commit"} => edit.new \in Column
  /\ config \subseteq Column

\* What the holder of queues._LOCK loaded is still what is committed, and what it
\* flushes is an entry's change of that.
ViewHeld ==
  \A w \in Writer :
    /\ write[w].phase = "loaded" => SameBook(view, disk)
    /\ write[w].phase = "flushing" => Follows(view, disk)

\* A rename that is not committed leaves the tasks alone.
RenameApart == edit.at = "commit" => Shaped(tables) /\ SameBook(tables, disk)

ReadsCommitted == dblock = None => tables = disk

StoreInv == LocksOK /\ Shaped(disk) /\ Shaped(view) /\ ViewHeld /\ RenameApart /\ ReadsCommitted

Inv == ActorsOK /\ StoreInv
-----------------------------------------------------------------------------
(* What is written.                                                        *)

LEMMA BlankOK == Blank \in Records
  BY DEF Blank, Records

LEMMA PatchedOK ==
  ASSUME NEW record \in Records, NEW patch \in Patches
  PROVE  L!Patched(record, patch) \in Records
<1>1. DOMAIN record = {"status", "session", "result"}
  BY DEF Records
<1> DEFINE p == L!Patched(record, patch)
<1>2. p = [f \in {"status", "session", "result"} |->
             IF f \in DOMAIN patch THEN patch[f] ELSE record[f]]
  BY <1>1 DEF L!Patched
<1>3. /\ "status" \in DOMAIN patch => patch["status"] \in {"in_progress", "done", "stuck"}
      /\ "session" \in DOMAIN patch => patch["session"] \in Session \cup {None}
      /\ "result" \in DOMAIN patch => patch["result"] \in BOOLEAN
  <2>1. CASE patch = Started
    BY <2>1 DEF Started
  <2>2. CASE patch = Reset
    <3>1. patch["status"] = "in_progress" /\ patch["session"] = None /\ patch["result"] = FALSE
      BY <2>2 DEF Reset
    <3> QED
      BY <3>1
  <2>3. CASE patch = SpawnFailed
    <3>1. /\ DOMAIN patch = {"status", "result"}
          /\ patch["status"] = "stuck" /\ patch["result"] = TRUE
      BY <2>3 DEF SpawnFailed
    <3> QED
      BY <3>1
  <2>4. CASE patch \in Finished
    <3>1. PICK st \in {"done", "stuck"} : patch = [status |-> st, result |-> TRUE]
      BY <2>4 DEF Finished
    <3>2. /\ DOMAIN patch = {"status", "result"}
          /\ patch["status"] = st /\ patch["result"] = TRUE
      BY <3>1
    <3> QED
      BY <3>2
  <2>5. CASE \E s \in Session : patch = Assigned(s)
    BY <2>5 DEF Assigned
  <2> QED
    BY <2>1, <2>2, <2>3, <2>4, <2>5 DEF Patches
<1>4. /\ p["status"] \in {"in_progress", "done", "stuck"}
      /\ p["session"] \in Session \cup {None}
      /\ p["result"] \in BOOLEAN
  BY <1>2, <1>3 DEF Records
<1>5. p = [status |-> p["status"], session |-> p["session"], result |-> p["result"]]
  BY <1>2
<1> QED
  BY <1>4, <1>5 DEF Records

\* The mutators of tasks.py and queues.py are entries, and keep the state's type.
LEMMA MutatedFollows ==
  ASSUME NEW v, Shaped(v), NEW op \in Ops
  PROVE  Shaped(Mutated(op, v)) /\ Follows(Mutated(op, v), v)
<1> DEFINE m == Mutated(op, v)
<1>1. CASE op = NoWrite
  <2>1. m = v
    BY <1>1 DEF Mutated, NoWrite
  <2> QED
    BY <2>1 DEF Follows, EntryOf
<1>2. CASE op = CreateTask
  <2>1. m = [v EXCEPT !.tasks = [i \in DOMAIN v.tasks \cup {v.next} |->
                                   IF i = v.next THEN Blank ELSE v.tasks[i]],
                      !.next = v.next + 1]
    BY <1>2 DEF Mutated, CreateTask
  <2>2. /\ m.tasks = [i \in DOMAIN v.tasks \cup {v.next} |->
                        IF i = v.next THEN Blank ELSE v.tasks[i]]
        /\ m.next = v.next + 1 /\ m.cards = v.cards
        /\ m = [cards |-> m.cards, tasks |-> m.tasks, next |-> m.next]
    BY <2>1 DEF Shaped
  <2>3. DOMAIN m.tasks \subseteq 1..m.next - 1 /\ m.next \in Nat \ {0}
    BY <2>2 DEF Shaped, StateOK
  <2>4. \A i \in DOMAIN m.tasks : m.tasks[i] \in Records
    BY <2>2, BlankOK DEF Shaped, StateOK
  <2>5. m.tasks = [i \in DOMAIN m.tasks |-> m.tasks[i]]
    BY <2>2
  <2> QED
    BY <2>2, <2>3, <2>4, <2>5 DEF Shaped, StateOK, Follows, EntryOf
<1>3. CASE \E i \in Nat, patch \in Patches : op = UpdateTask(i, patch)
  <2>1. PICK i \in Nat, patch \in Patches : op = UpdateTask(i, patch)
    BY <1>3
  <2>2. op.kind = "patch" /\ op.task = i /\ op.fields = patch
    BY <2>1 DEF UpdateTask
  <2>3. CASE i \in DOMAIN v.tasks
    <3>1. m = [v EXCEPT !.tasks = [v.tasks EXCEPT ![i] = L!Patched(@, patch)]]
      BY <2>2, <2>3 DEF Mutated
    <3>2. /\ m.tasks = [v.tasks EXCEPT ![i] = L!Patched(@, patch)]
          /\ m.next = v.next /\ m.cards = v.cards
          /\ m = [cards |-> m.cards, tasks |-> m.tasks, next |-> m.next]
      BY <3>1 DEF Shaped
    <3>3. L!Patched(v.tasks[i], patch) \in Records
      BY <2>3, PatchedOK DEF Shaped, StateOK
    <3>4. DOMAIN m.tasks = DOMAIN v.tasks /\ \A j \in DOMAIN m.tasks : m.tasks[j] \in Records
      BY <3>2, <3>3 DEF Shaped, StateOK
    <3>5. m.tasks = [j \in DOMAIN m.tasks |-> m.tasks[j]]
      BY <3>2
    <3> QED
      BY <2>3, <3>2, <3>4, <3>5 DEF Shaped, StateOK, Follows, EntryOf
  <2>4. CASE i \notin DOMAIN v.tasks
    <3>1. m = v
      BY <2>2, <2>4 DEF Mutated
    <3> QED
      BY <3>1 DEF Follows, EntryOf
  <2> QED
    BY <2>3, <2>4
<1>4. CASE \E i \in Nat : op = DeleteTask(i)
  <2>1. PICK i \in Nat : op = DeleteTask(i)
    BY <1>4
  <2>2. m = [v EXCEPT !.tasks = [j \in DOMAIN v.tasks \ {i} |-> v.tasks[j]]]
    BY <2>1 DEF Mutated, DeleteTask
  <2>3. /\ m.tasks = [j \in DOMAIN v.tasks \ {i} |-> v.tasks[j]]
        /\ m.next = v.next /\ m.cards = v.cards
        /\ m = [cards |-> m.cards, tasks |-> m.tasks, next |-> m.next]
    BY <2>2 DEF Shaped
  <2>4. Shaped(m)
    BY <2>3 DEF Shaped, StateOK
  <2>5. i \notin DOMAIN v.tasks => m.tasks = v.tasks
    <3> SUFFICES ASSUME i \notin DOMAIN v.tasks PROVE m.tasks = v.tasks
      OBVIOUS
    <3>1. DOMAIN v.tasks \ {i} = DOMAIN v.tasks
      OBVIOUS
    <3> QED
      BY <2>3, <3>1 DEF Shaped
  <2> QED
    BY <2>3, <2>4, <2>5 DEF Follows, EntryOf
<1>5. CASE \E c \in Card, column \in Column : op = MoveCard(c, column)
  <2>1. PICK c \in Card, column \in Column : op = MoveCard(c, column)
    BY <1>5
  <2>2. m = [v EXCEPT !.cards = [v.cards EXCEPT ![c] = column]]
    BY <2>1 DEF Mutated, MoveCard
  <2>3. /\ m.cards = [v.cards EXCEPT ![c] = column]
        /\ m.tasks = v.tasks /\ m.next = v.next
        /\ m = [cards |-> m.cards, tasks |-> m.tasks, next |-> m.next]
    BY <2>2 DEF Shaped
  <2> QED
    BY <2>3 DEF Shaped, StateOK, Follows, EntryOf
<1> QED
  BY <1>1, <1>2, <1>3, <1>4, <1>5 DEF Ops
-----------------------------------------------------------------------------
(* The store.                                                              *)

LEMMA InitInv == Init => Inv
<1> SUFFICES ASSUME Init PROVE Inv
  OBVIOUS
<1> USE DEF Init
<1>1. PICK cards \in [Card -> Columns] :
        disk = [cards |-> cards, tasks |-> [i \in {} |-> Blank], next |-> 1]
  OBVIOUS
<1>2. Shaped(disk)
  BY <1>1, BoardAssumption DEF Shaped, StateOK
<1>3. Asleep \in [phase : {"none", "want", "loaded", "flushing"}, op : Ops]
  BY DEF Asleep, Ops
<1>4. ActorsOK
  BY <1>3, BoardAssumption DEF ActorsOK, Idle, NoSession, NoEdit, Places
<1>5. LocksOK
  BY BoardAssumption DEF LocksOK, Asleep, NoEdit, Writer
<1>6. ViewHeld /\ RenameApart /\ ReadsCommitted
  BY DEF ViewHeld, Asleep, RenameApart, NoEdit, ReadsCommitted
<1> QED
  BY <1>2, <1>4, <1>5, <1>6 DEF Inv, StoreInv

LEMMA PhaseSet ==
  ASSUME ActorsOK, NEW w \in Writer, NEW phase, write' = [write EXCEPT ![w].phase = phase]
  PROVE  /\ write[w].op \in Ops
         /\ write' = [x \in Writer |-> IF x = w THEN [phase |-> phase, op |-> write[w].op]
                                      ELSE write[x]]
<1>1. write[w].op \in Ops /\ write[w] = [phase |-> write[w].phase, op |-> write[w].op]
  BY DEF ActorsOK
<1>2. [write[w] EXCEPT !.phase = phase] = [phase |-> phase, op |-> write[w].op]
  BY <1>1
<1>3. write' = [x \in Writer |-> IF x = w THEN [write[w] EXCEPT !.phase = phase] ELSE write[x]]
  BY DEF ActorsOK
<1> QED
  BY <1>1, <1>2, <1>3

LEMMA LoadInv ==
  ASSUME Inv, NEW w \in Writer, Load(w)
  PROVE  Inv'
<1> USE DEF Inv, StoreInv
<1>2. write[w].op \in Ops /\ write' = [x \in Writer |-> IF x = w
                                         THEN [phase |-> "loaded", op |-> write[w].op]
                                         ELSE write[x]]
  BY PhaseSet DEF Load
<1>3. ActorsOK'
  BY <1>2 DEF ActorsOK, Load
<1>4. view' = disk' /\ tables' = tables /\ disk' = disk /\ edit' = edit
  BY DEF Load, ReadsCommitted
<1>5. LocksOK'
  BY <1>2, BoardAssumption DEF LocksOK, Load, Writer
<1>6. ViewHeld'
  <2>1. \A x \in Writer : x # w => write[x].phase \notin {"loaded", "flushing"}
    BY BoardAssumption DEF LocksOK, Load, Writer
  <2> QED
    BY <2>1, <1>2, <1>4 DEF ViewHeld, SameBook
<1> QED
  BY <1>3, <1>4, <1>5, <1>6 DEF RenameApart, ReadsCommitted, Load, Shaped, StateOK, SameBook

LEMMA FlushInv ==
  ASSUME Inv, NEW w \in Writer, Flush(w)
  PROVE  Inv'
<1> USE DEF Inv, StoreInv
<1>2. write[w].op \in Ops /\ write' = [x \in Writer |-> IF x = w
                                         THEN [phase |-> "flushing", op |-> write[w].op]
                                         ELSE write[x]]
  BY PhaseSet DEF Flush
<1>3. view.next \in Nat
  BY DEF Shaped, StateOK
<1>4. job' \in [Thread -> [at : Places, task : Nat, doomed : SUBSET Nat]]
  <2>1. CASE w \in Thread
    BY <1>3, <2>1 DEF Flush, ActorsOK
  <2>2. CASE w \notin Thread
    BY <1>3, <2>2 DEF Flush, ActorsOK
  <2> QED
    BY <2>1, <2>2
<1>5. ActorsOK'
  <2>1. write' \in [Writer -> [phase : {"none", "want", "loaded", "flushing"}, op : Ops]]
    BY <1>2 DEF ActorsOK
  <2>2. sess' = sess /\ edit' = edit /\ config' = config
    BY DEF Flush
  <2> QED
    BY <1>4, <2>1, <2>2 DEF ActorsOK
<1>6. Shaped(view') /\ Follows(view', view)
  BY <1>2, MutatedFollows DEF Flush
<1>7. SameBook(view, disk) /\ disk' = disk
  BY DEF ViewHeld, Flush
<1>8. Follows(view', disk)
  BY <1>6, <1>7 DEF Follows, SameBook
<1>9. edit' = edit /\ edit.at # "commit" /\ dblock' = w /\ w # None /\ w # "editor"
  BY BoardAssumption DEF LocksOK, Flush, Writer
<1>10. LocksOK'
  BY <1>2, <1>9, BoardAssumption DEF LocksOK, Flush, Writer
<1>11. ViewHeld'
  <2>1. \A x \in Writer : x # w => write[x].phase \notin {"loaded", "flushing"}
    BY BoardAssumption DEF LocksOK, Flush, Writer
  <2> QED
    BY <2>1, <1>2, <1>7, <1>8 DEF ViewHeld
<1> QED
  BY <1>5, <1>6, <1>7, <1>9, <1>10, <1>11 DEF RenameApart, ReadsCommitted

LEMMA CommitInv ==
  ASSUME Inv, NEW w \in Writer, Commit(w)
  PROVE  Inv'
<1> USE DEF Inv, StoreInv
<1>1. Asleep \in [phase : {"none", "want", "loaded", "flushing"}, op : Ops]
  BY DEF Asleep, Ops
<1>2. write' = [x \in Writer |-> IF x = w THEN Asleep ELSE write[x]]
  BY DEF Commit, ActorsOK
<1>3. ActorsOK'
  BY <1>1, <1>2 DEF ActorsOK, Commit
<1>4. \A x \in Writer : x # w => write[x].phase \notin {"loaded", "flushing"}
  BY BoardAssumption DEF LocksOK, Commit, Writer
<1>5. dblock = w /\ edit.at # "commit" /\ edit' = edit
  BY BoardAssumption DEF LocksOK, Commit, Writer
<1>6. LocksOK'
  BY <1>2, <1>4, <1>5, BoardAssumption DEF LocksOK, Commit, Asleep, Writer
<1>7. ViewHeld'
  BY <1>2, <1>4 DEF ViewHeld, Asleep
<1> QED
  BY <1>3, <1>5, <1>6, <1>7 DEF RenameApart, ReadsCommitted, Commit
-----------------------------------------------------------------------------
(* Those who use it.                                                       *)

\* A thread or a session that has no write under way may ask for one: the store's
\* part of the invariant holds on.
LEMMA AskKeepsStore ==
  ASSUME Inv, StoreUnchanged, (edit.at = "commit") <=> (edit'.at = "commit"),
         \/ UNCHANGED write
         \/ \E w \in Writer : /\ Free(w)
                              /\ \E op \in Ops : write' = [write EXCEPT ![w] = Wants(op)]
  PROVE  StoreInv'
<1> USE DEF Inv, StoreInv, StoreUnchanged
<1>1. \A x \in Writer :
        \/ write'[x] = write[x]
        \/ write[x].phase = "none" /\ write'[x].phase = "want"
  <2>1. CASE UNCHANGED write
    BY <2>1
  <2>2. ASSUME NEW w \in Writer, Free(w), NEW op \in Ops,
               write' = [write EXCEPT ![w] = Wants(op)]
        PROVE  \A x \in Writer :
                 \/ write'[x] = write[x]
                 \/ write[x].phase = "none" /\ write'[x].phase = "want"
    BY <2>2 DEF Free, Wants, ActorsOK
  <2> QED
    BY <2>1, <2>2
<1>2. LocksOK'
  BY <1>1 DEF LocksOK
<1>3. ViewHeld'
  BY <1>1 DEF ViewHeld
<1> QED
  BY <1>2, <1>3 DEF RenameApart, ReadsCommitted

LEMMA WantsOK ==
  ASSUME ActorsOK, NEW w \in Writer, NEW op \in Ops,
         write' = [write EXCEPT ![w] = Wants(op)]
  PROVE  write' \in [Writer -> [phase : {"none", "want", "loaded", "flushing"}, op : Ops]]
  BY DEF ActorsOK, Wants

LEMMA PatchIsOp ==
  ASSUME NEW i \in Nat, NEW patch \in Patches
  PROVE  UpdateTask(i, patch) \in Ops
  BY DEF Ops

LEMMA CommonPatches ==
  /\ {Started, Reset, SpawnFailed} \subseteq Patches
  /\ \A patch \in Finished : patch \in Patches
  /\ \A s \in Session : Assigned(s) \in Patches
  BY DEF Patches

\* What a thread does when it goes on, and writes first.
LEMMA GoesInv ==
  ASSUME Inv, StoreUnchanged, UNCHANGED <<sess, config, edit>>,
         NEW t \in Thread, Free(t), NEW op \in Ops,
         NEW next \in [at : Places, task : Nat, doomed : SUBSET Nat], Goes(t, next, op)
  PROVE  Inv'
<1>1. t \in Writer /\ write' = [write EXCEPT ![t] = Wants(op)]
  BY DEF Goes, Writer
<1>2. StoreInv'
  BY <1>1, AskKeepsStore
<1>3. ActorsOK'
  <2>1. write' \in [Writer -> [phase : {"none", "want", "loaded", "flushing"}, op : Ops]]
    BY <1>1, WantsOK DEF Inv
  <2>2. job' \in [Thread -> [at : Places, task : Nat, doomed : SUBSET Nat]]
    BY DEF Goes, Inv, ActorsOK
  <2> QED
    BY <2>1, <2>2 DEF Inv, ActorsOK
<1> QED
  BY <1>2, <1>3 DEF Inv

\* What a thread does when it goes on without a write.
LEMMA WalksInv ==
  ASSUME Inv, StoreUnchanged, UNCHANGED <<write, sess, config, edit>>,
         job' \in [Thread -> [at : Places, task : Nat, doomed : SUBSET Nat]]
  PROVE  Inv'
<1>1. StoreInv'
  BY AskKeepsStore
<1> QED
  BY <1>1 DEF Inv, ActorsOK

LEMMA DoomsInv ==
  ASSUME Inv, NEW t \in Thread, NEW doomed \in SUBSET Nat, Dooms(t, doomed)
  PROVE  Inv'
<1>1. job' \in [Thread -> [at : Places, task : Nat, doomed : SUBSET Nat]]
  BY DEF Dooms, Inv, ActorsOK, Idle, Places
<1> QED
  BY <1>1, WalksInv DEF Dooms

\* A reader who takes the lock of db.py sees tasks with numbers.
LEMMA ReadTasks ==
  ASSUME Inv, dblock = None
  PROVE  DOMAIN tables.tasks \subseteq Nat /\ tables.cards \in [Card -> Column]
  BY DEF Inv, StoreInv, ReadsCommitted, Shaped, StateOK

LEMMA HandlerInv ==
  ASSUME Inv, NEW t \in Thread, Handler(t)
  PROVE  Inv'
<1>1. CASE New(t)
  <2>1. [Idle EXCEPT !.at = "dispatch"] \in [at : Places, task : Nat, doomed : SUBSET Nat]
    BY DEF Idle, Places
  <2>2. CreateTask \in Ops
    BY DEF Ops
  <2> QED
    BY <1>1, <2>1, <2>2, GoesInv DEF New, Waits
<1>2. CASE Retry(t)
  <2>1. PICK i \in DOMAIN tables.tasks :
          Goes(t, [Idle EXCEPT !.at = "dispatch", !.task = i], UpdateTask(i, Reset))
    BY <1>2 DEF Retry
  <2>2. i \in Nat
    BY <1>2, ReadTasks DEF Retry
  <2>3. [Idle EXCEPT !.at = "dispatch", !.task = i]
          \in [at : Places, task : Nat, doomed : SUBSET Nat]
    BY <2>2 DEF Idle, Places
  <2>4. UpdateTask(i, Reset) \in Ops
    BY <2>2, PatchIsOp, CommonPatches
  <2> QED
    BY <1>2, <2>1, <2>3, <2>4, GoesInv DEF Retry, Waits
<1>3. CASE Delete(t)
  <2>1. PICK i \in 1..disk.next - 1 : Dooms(t, {i})
    BY <1>3 DEF Delete
  <2>2. {i} \in SUBSET Nat
    BY DEF Inv, StoreInv, Shaped, StateOK
  <2> QED
    BY <2>1, <2>2, DoomsInv
<1>4. CASE ClearDone(t)
  <2>1. {i \in DOMAIN tables.tasks : tables.tasks[i].status = "done"} \in SUBSET Nat
    BY <1>4, ReadTasks DEF ClearDone
  <2> QED
    BY <1>4, <2>1, DoomsInv DEF ClearDone
<1>5. CASE Move(t)
  <2>1. PICK c \in Card, column \in config : Goes(t, Idle, MoveCard(c, column))
    BY <1>5 DEF Move
  <2>2. Idle \in [at : Places, task : Nat, doomed : SUBSET Nat]
    BY DEF Idle, Places
  <2>3. MoveCard(c, column) \in Ops
    BY DEF Ops, Inv, ActorsOK
  <2> QED
    BY <1>5, <2>1, <2>2, <2>3, GoesInv DEF Move, Waits
<1> QED
  BY <1>1, <1>2, <1>3, <1>4, <1>5 DEF Handler

LEMMA DispatchInv ==
  ASSUME Inv, NEW t \in Thread, Dispatch(t)
  PROVE  Inv'
<1>1. job[t] \in [at : Places, task : Nat, doomed : SUBSET Nat]
  BY DEF Inv, ActorsOK
<1>2. Idle \in [at : Places, task : Nat, doomed : SUBSET Nat]
  BY DEF Idle, Places
<1>3. UpdateTask(job[t].task, SpawnFailed) \in Ops
  BY <1>1, PatchIsOp, CommonPatches
<1>4. CASE ClearNext(t)
  <2>1. PICK i \in job[t].doomed :
          Goes(t, IF job[t].doomed \ {i} = {} THEN Idle
                  ELSE [job[t] EXCEPT !.doomed = job[t].doomed \ {i}], DeleteTask(i))
    BY <1>4 DEF ClearNext
  <2>2. [job[t] EXCEPT !.doomed = job[t].doomed \ {i}]
          \in [at : Places, task : Nat, doomed : SUBSET Nat]
    BY <1>1
  <2>3. DeleteTask(i) \in Ops
    BY <1>1 DEF Ops
  <2> QED
    BY <1>2, <1>4, <2>1, <2>2, <2>3, GoesInv DEF ClearNext, Waits
<1>5. CASE Find(t)
  <2>1. CASE job[t].task \in DOMAIN tables.tasks
    <3>1. job' = [job EXCEPT ![t].at = "worktree"] /\ UNCHANGED write
      BY <1>5, <2>1 DEF Find
    <3>2. job' \in [Thread -> [at : Places, task : Nat, doomed : SUBSET Nat]]
      BY <3>1 DEF Inv, ActorsOK, Places
    <3> QED
      BY <1>5, <3>1, <3>2, WalksInv DEF Find
  <2>2. CASE job[t].task \notin DOMAIN tables.tasks
    BY <1>2, <1>3, <1>5, <2>2, GoesInv DEF Find, Waits
  <2> QED
    BY <2>1, <2>2
<1>6. CASE Worktree(t)
  <2>1. CASE job' = [job EXCEPT ![t].at = "start"] /\ UNCHANGED write
    <3>1. job' \in [Thread -> [at : Places, task : Nat, doomed : SUBSET Nat]]
      BY <2>1 DEF Inv, ActorsOK, Places
    <3> QED
      BY <1>6, <2>1, <3>1, WalksInv DEF Worktree
  <2>2. CASE Goes(t, Idle, UpdateTask(job[t].task, SpawnFailed))
    BY <1>2, <1>3, <1>6, <2>2, GoesInv DEF Worktree, Waits
  <2> QED
    BY <1>6, <2>1, <2>2 DEF Worktree
<1>7. CASE Start(t)
  <2> DEFINE s == CHOOSE s \in Session : sess[s].at = "none"
  <2>1. s \in Session
    BY <1>7 DEF Start
  <2>2. /\ sess' = [sess EXCEPT ![s] = [at |-> "queued", task |-> job[t].task]]
        /\ Goes(t, Idle, UpdateTask(job[t].task, Assigned(s)))
        /\ StoreUnchanged /\ UNCHANGED <<config, edit>> /\ Free(t)
    BY <1>7 DEF Start, Waits
  <2>3. UpdateTask(job[t].task, Assigned(s)) \in Ops
    BY <1>1, <2>1, PatchIsOp, CommonPatches
  <2> HIDE DEF s
  <2>4. t \in Writer /\ write' = [write EXCEPT ![t] = Wants(UpdateTask(job[t].task, Assigned(s)))]
    BY <2>2 DEF Goes, Writer
  <2>5. StoreInv'
    BY <2>2, <2>3, <2>4, AskKeepsStore
  <2>6. write' \in [Writer -> [phase : {"none", "want", "loaded", "flushing"}, op : Ops]]
    BY <2>3, <2>4, WantsOK DEF Inv
  <2>7. sess' \in [Session -> [at : {"none", "queued", "turn", "over"}, task : Nat]]
    BY <1>1, <2>1, <2>2 DEF Inv, ActorsOK
  <2>8. job' \in [Thread -> [at : Places, task : Nat, doomed : SUBSET Nat]]
    BY <1>2, <2>2 DEF Goes, Inv, ActorsOK
  <2> QED
    BY <2>2, <2>5, <2>6, <2>7, <2>8 DEF Inv, ActorsOK
<1> QED
  BY <1>4, <1>5, <1>6, <1>7 DEF Dispatch

LEMMA RunsInv ==
  ASSUME Inv, NEW s \in Session, Runs(s)
  PROVE  Inv'
<1>1. sess[s] \in [at : {"none", "queued", "turn", "over"}, task : Nat] /\ s \in Writer
  BY DEF Inv, ActorsOK, Writer
<1>2. ASSUME NEW at \in {"turn", "over"}, NEW patch \in Patches, Hook(s, at, patch)
      PROVE  Inv'
  <2>1. UpdateTask(sess[s].task, patch) \in Ops
    BY <1>1, PatchIsOp
  <2>2. /\ write' = [write EXCEPT ![s] = Wants(UpdateTask(sess[s].task, patch))]
        /\ Free(s) /\ StoreUnchanged /\ UNCHANGED <<job, config, edit>>
    BY <1>2 DEF Hook, LoopFree
  <2>3. StoreInv'
    BY <1>1, <2>1, <2>2, AskKeepsStore
  <2>4. write' \in [Writer -> [phase : {"none", "want", "loaded", "flushing"}, op : Ops]]
    BY <1>1, <2>1, <2>2, WantsOK DEF Inv
  <2>5. sess' \in [Session -> [at : {"none", "queued", "turn", "over"}, task : Nat]]
    BY <1>1, <1>2 DEF Hook, Inv, ActorsOK
  <2> QED
    BY <2>2, <2>3, <2>4, <2>5 DEF Inv, ActorsOK
<1>3. CASE Begin(s)
  BY <1>2, <1>3, CommonPatches DEF Begin
<1>4. CASE EndTurn(s)
  BY <1>2, <1>4, CommonPatches DEF EndTurn
<1>5. CASE Fail(s)
  <2>1. StoreInv'
    BY <1>5, AskKeepsStore DEF Fail
  <2>2. sess' \in [Session -> [at : {"none", "queued", "turn", "over"}, task : Nat]]
    BY <1>1, <1>5 DEF Fail, Inv, ActorsOK
  <2> QED
    BY <1>5, <2>1, <2>2 DEF Fail, Inv, ActorsOK
<1> QED
  BY <1>3, <1>4, <1>5 DEF Runs

LEMMA EditorInv ==
  ASSUME Inv, Editor
  PROVE  Inv'
<1>1. CASE Edit
  <2>1. PICK old \in config, new \in (Column \ config) \cup {None} :
          edit' = [at |-> "guard", old |-> old, new |-> new]
    BY <1>1 DEF Edit
  <2>2. edit.at = "idle" /\ StoreUnchanged /\ UNCHANGED <<write, job, sess, config>>
    BY <1>1 DEF Edit
  <2>3. StoreInv'
    BY <2>1, <2>2, AskKeepsStore
  <2> QED
    BY <2>1, <2>2, <2>3 DEF Inv, ActorsOK
<1>2. CASE EditGuard
  <2>1. edit.at = "guard" /\ StoreUnchanged /\ UNCHANGED <<write, job, sess, config>>
    BY <1>2 DEF EditGuard
  <2>2. edit' \in {[edit EXCEPT !.at = "rename"], [edit EXCEPT !.at = "replace"], NoEdit}
        /\ (edit' = [edit EXCEPT !.at = "rename"] => edit.new # None \/ edit'.at # "rename")
    BY <1>2 DEF EditGuard, NoEdit, Inv, ActorsOK
  <2>3. edit' \in [at : {"idle", "guard", "rename", "commit", "replace"},
                   old : Column \cup {None}, new : Column \cup {None}]
        /\ edit'.at # "commit"
        /\ (edit'.at = "rename" => edit'.new \in Column)
    BY <2>2 DEF NoEdit, Inv, ActorsOK
  <2>4. StoreInv'
    BY <2>1, <2>3, AskKeepsStore
  <2> QED
    BY <2>1, <2>3, <2>4 DEF Inv, ActorsOK
<1>3. CASE Rename
  <2>1. /\ edit.at = "rename" /\ dblock = None /\ edit.new \in Column
        /\ dblock' = "editor" /\ tables' = Renamed(tables)
        /\ edit' = [edit EXCEPT !.at = "commit"]
        /\ UNCHANGED <<disk, mutex, view, write, job, sess, config>>
    BY <1>3 DEF Rename, Inv, ActorsOK
  <2>2. edit' \in [at : {"idle", "guard", "rename", "commit", "replace"},
                   old : Column \cup {None}, new : Column \cup {None}]
        /\ edit'.at = "commit" /\ edit'.new \in Column
    BY <2>1 DEF Inv, ActorsOK
  <2>3. ActorsOK'
    BY <2>1, <2>2 DEF Inv, ActorsOK
  <2>4. LocksOK'
    <3>1. \A w \in Writer : write[w].phase # "flushing" /\ w # "editor"
      BY <2>1, BoardAssumption DEF Inv, StoreInv, LocksOK, Writer
    <3> QED
      BY <2>1, <2>2, <3>1 DEF Inv, StoreInv, LocksOK
  <2>5. Shaped(tables) /\ tables = disk
    BY <2>1 DEF Inv, StoreInv, ReadsCommitted
  <2> DEFINE cards == [c \in Card |-> IF tables.cards[c] = edit.old THEN edit.new
                                      ELSE tables.cards[c]]
  <2>6. tables' = [tables EXCEPT !.cards = cards] /\ cards \in [Card -> Column]
    BY <2>1, <2>5 DEF Renamed, Shaped, StateOK
  <2> HIDE DEF cards
  <2>7. tables' = [cards |-> cards, tasks |-> tables.tasks, next |-> tables.next]
    BY <2>5, <2>6 DEF Shaped
  <2>8. Shaped(tables') /\ SameBook(tables', disk)
    BY <2>5, <2>6, <2>7 DEF Shaped, StateOK, SameBook
  <2>9. RenameApart'
    BY <2>1, <2>8 DEF RenameApart, Shaped, StateOK, SameBook
  <2>10. ReadsCommitted'
    BY <2>1, BoardAssumption DEF ReadsCommitted
  <2>11. ViewHeld'
    BY <2>1 DEF Inv, StoreInv, ViewHeld
  <2> QED
    BY <2>1, <2>3, <2>4, <2>9, <2>10, <2>11 DEF Inv, StoreInv, Shaped, StateOK
<1>4. CASE RenameCommit
  <2>1. /\ edit.at = "commit" /\ disk' = tables /\ dblock' = None
        /\ edit' = [edit EXCEPT !.at = "replace"]
        /\ UNCHANGED <<tables, mutex, view, write, job, sess, config>>
    BY <1>4 DEF RenameCommit
  <2>2. edit' \in [at : {"idle", "guard", "rename", "commit", "replace"},
                   old : Column \cup {None}, new : Column \cup {None}]
        /\ edit'.at = "replace"
    BY <2>1 DEF Inv, ActorsOK
  <2>3. ActorsOK'
    BY <2>1, <2>2 DEF Inv, ActorsOK
  <2>4. dblock = "editor" /\ \A w \in Writer : write[w].phase # "flushing" /\ w # None
    BY <2>1, BoardAssumption DEF Inv, StoreInv, LocksOK, Writer
  <2>5. LocksOK'
    BY <2>1, <2>2, <2>4, BoardAssumption DEF Inv, StoreInv, LocksOK
  <2>6. Shaped(tables) /\ SameBook(tables, disk)
    BY <2>1 DEF Inv, StoreInv, RenameApart
  <2>7. ViewHeld'
    BY <2>1, <2>4, <2>6 DEF Inv, StoreInv, ViewHeld, SameBook
  <2>8. Shaped(disk)'
    BY <2>1, <2>6
  <2> QED
    BY <2>1, <2>2, <2>3, <2>5, <2>7, <2>8
       DEF Inv, StoreInv, RenameApart, ReadsCommitted, Shaped, StateOK
<1>5. CASE Replace
  <2>1. /\ edit.at = "replace" /\ edit' = NoEdit
        /\ StoreUnchanged /\ UNCHANGED <<write, job, sess>>
    BY <1>5 DEF Replace
  <2>2. StoreInv'
    BY <2>1, AskKeepsStore DEF NoEdit
  <2>3. config' \subseteq Column
    BY <1>5 DEF Replace, Inv, ActorsOK
  <2> QED
    BY <2>1, <2>2, <2>3 DEF Inv, ActorsOK, NoEdit
<1> QED
  BY <1>1, <1>2, <1>3, <1>4, <1>5 DEF Editor

LEMMA RestartInv ==
  ASSUME Inv, Restart
  PROVE  Inv'
<1>1. /\ tables' = disk /\ view' = disk /\ mutex' = None /\ dblock' = None
      /\ write' = [w \in Writer |-> Asleep] /\ job' = [t \in Thread |-> Idle]
      /\ edit' = NoEdit /\ UNCHANGED <<disk, config>>
  BY DEF Restart
<1>2. Asleep \in [phase : {"none", "want", "loaded", "flushing"}, op : Ops]
  BY DEF Asleep, Ops
<1>3. sess' \in [Session -> [at : {"none", "queued", "turn", "over"}, task : Nat]]
  <2>1. ASSUME NEW s \in Session
        PROVE  /\ NoSession \in [at : {"none", "queued", "turn", "over"}, task : Nat]
               /\ [sess[s] EXCEPT !.at = "over"]
                    \in [at : {"none", "queued", "turn", "over"}, task : Nat]
    BY DEF NoSession, Inv, ActorsOK
  <2> QED
    BY <2>1 DEF Restart
<1>4. ActorsOK'
  BY <1>1, <1>2, <1>3 DEF Inv, ActorsOK, Idle, Places, NoEdit
<1>5. LocksOK'
  BY <1>1, BoardAssumption DEF LocksOK, Asleep, NoEdit, Writer
<1>6. ViewHeld' /\ RenameApart' /\ ReadsCommitted'
  BY <1>1 DEF ViewHeld, Asleep, RenameApart, NoEdit, ReadsCommitted
<1>7. Shaped(disk)' /\ Shaped(view)'
  BY <1>1 DEF Inv, StoreInv, Shaped, StateOK
<1> QED
  BY <1>4, <1>5, <1>6, <1>7 DEF Inv, StoreInv

LEMMA NextInv == Inv /\ [Next]_vars => Inv'
<1> SUFFICES ASSUME Inv, [Next]_vars PROVE Inv'
  OBVIOUS
<1>1. ASSUME NEW w \in Writer, Store(w) PROVE Inv'
  BY <1>1, LoadInv, FlushInv, CommitInv DEF Store
<1>2. ASSUME NEW t \in Thread, Handler(t) \/ Dispatch(t) PROVE Inv'
  BY <1>2, HandlerInv, DispatchInv
<1>3. CASE UNCHANGED vars
  <2>1. UNCHANGED write /\ StoreUnchanged /\ UNCHANGED <<job, sess, config, edit>>
    BY <1>3 DEF vars, StoreUnchanged
  <2>2. StoreInv'
    BY <2>1, AskKeepsStore
  <2> QED
    BY <2>1, <2>2 DEF Inv, ActorsOK
<1> QED
  BY <1>1, <1>2, <1>3, RunsInv, EditorInv, RestartInv DEF Next
-----------------------------------------------------------------------------
(* What is proved.                                                         *)

\* The inductive invariant: the locks are where the writes are, what the holder of
\* queues._LOCK works on is what is committed, and a rename leaves the tasks alone.
THEOREM BoardInvariance == Spec => []Inv
<1> QED
  BY InitInv, NextInv, PTL DEF Spec

LEMMA InvImpliesTypeOK == Inv => TypeOK
<1> SUFFICES ASSUME Inv PROVE TypeOK
  OBVIOUS
<1>1. StateOK(disk) /\ StateOK(view) /\ LocksOK
  BY DEF Inv, StoreInv, Shaped
<1>2. /\ \A t \in Thread : job[t].at \in Places
      /\ \A s \in Session : sess[s].at \in {"none", "queued", "turn", "over"}
      /\ config \subseteq Column
  BY DEF Inv, ActorsOK
<1> QED
  BY <1>1, <1>2 DEF TypeOK

\* Every variable keeps its type, and the two locks are held exactly by those who
\* are between their load and their commit (queues.py:68-76, db.py:386-394).
THEOREM BoardTypeCorrect == Spec => []TypeOK
<1> QED
  BY BoardInvariance, InvImpliesTypeOK, PTL

\* Whatever the server is stopped in, what is committed has every card, and whoever
\* takes the lock of db.py reads what is committed (db.py:386-390).
THEOREM NoWriteIsHalf == Spec => []NoHalfWrite
<1>1. Inv => NoHalfWrite
  BY DEF Inv, StoreInv, Shaped, StateOK, ReadsCommitted, NoHalfWrite
<1> QED
  BY <1>1, BoardInvariance, PTL

LEMMA StepsAreEntries == Inv /\ [Next]_vars => [L!LedgerNext]_(L!ledgerVars)
<1> SUFFICES ASSUME Inv, [Next]_vars
             PROVE  L!LedgerNext \/ UNCHANGED L!ledgerVars
  OBVIOUS
<1>1. SUFFICES ASSUME disk' # disk
               PROVE  L!LedgerNext \/ UNCHANGED L!ledgerVars
  BY DEF L!ledgerVars
<1>2. CASE \E w \in Writer : Commit(w)
  <2>1. PICK w \in Writer : Commit(w)
    BY <1>2
  <2>2. EntryOf(disk', disk.tasks, disk.next)
    BY <2>1 DEF Commit, Inv, StoreInv, ViewHeld, Follows
  <2> QED
    BY <2>2 DEF EntryOf, L!LedgerNext, L!Create, L!Patch, L!Delete, L!ledgerVars
<1>3. CASE RenameCommit
  BY <1>3 DEF RenameCommit, Inv, StoreInv, RenameApart, SameBook, L!ledgerVars
<1>4. (\E w \in Writer : Commit(w)) \/ RenameCommit
  BY <1>1 DEF Next, vars, Store, Load, Flush, Handler, New, Retry, Delete, ClearDone, Move,
              Dispatch, ClearNext, Find, Worktree, Start, Dooms, StoreUnchanged,
              Runs, Begin, EndTurn, Hook, Fail, Editor, Edit, EditGuard, Rename, Replace,
              Restart
<1> QED
  BY <1>2, <1>3, <1>4

\* The task board implements the task book of Ledger: no request, hook, rename or
\* stop of the server undoes an entry of another (tasks.py:69-139).
THEOREM ImplementsLedger == Spec => LedgerSpec
<1>1. Init => L!LedgerInit
  BY DEF Init, L!LedgerInit
<1> QED
  BY <1>1, StepsAreEntries, BoardInvariance, PTL DEF Spec, LedgerSpec, L!LedgerSpec
\* What follows from the book: a number is not given twice.
GoneForGood ==
  [][/\ disk'.next >= disk.next
     /\ \A i \in 1..disk.next - 1 :
          i \notin DOMAIN disk.tasks => i \notin DOMAIN disk'.tasks]_vars

LEMMA EntriesOnlyAdd ==
  ASSUME Inv, L!LedgerNext \/ UNCHANGED L!ledgerVars
  PROVE  /\ disk'.next >= disk.next
         /\ \A i \in 1..disk.next - 1 : i \notin DOMAIN disk.tasks => i \notin DOMAIN disk'.tasks
<1>1. disk.next \in Nat
  BY DEF Inv, StoreInv, Shaped, StateOK
<1>2. CASE UNCHANGED L!ledgerVars
  BY <1>1, <1>2 DEF L!ledgerVars
<1>3. CASE L!Create
  <2>1. disk'.next = disk.next + 1 /\ DOMAIN disk'.tasks = DOMAIN disk.tasks \cup {disk.next}
    BY <1>3 DEF L!Create
  <2> QED
    BY <1>1, <2>1
<1>4. CASE \E i \in DOMAIN disk.tasks : L!Patch(i) \/ L!Delete(i)
  <2>1. disk'.next = disk.next /\ DOMAIN disk'.tasks \subseteq DOMAIN disk.tasks
    BY <1>4 DEF L!Patch, L!Delete
  <2> QED
    BY <1>1, <2>1
<1> QED
  BY <1>2, <1>3, <1>4 DEF L!LedgerNext

\* A task that was deleted is not brought back, by a hook that finds it gone, a write
\* that was loaded before, or a new task: the number in a tab and in the name
\* of a branch stands for one task only (tasks.py:69-139).
THEOREM DeletedTasksAreGone == Spec => GoneForGood
<1>1. Inv /\ [Next]_vars =>
        [/\ disk'.next >= disk.next
         /\ \A i \in 1..disk.next - 1 :
          i \notin DOMAIN disk.tasks => i \notin DOMAIN disk'.tasks]_vars
  BY StepsAreEntries, EntriesOnlyAdd
<1> QED
  BY <1>1, BoardInvariance, PTL DEF Spec, GoneForGood
-----------------------------------------------------------------------------
(* The cards.  A rename commits under the lock of db.py alone; what a      *)
(* writer loaded before it is then stale, and its flush puts the old       *)
(* columns back (MCRenameLost.cfg).  That is the only way: were the rename *)
(* to wait for queues._LOCK, no card would move but on purpose.            *)

\* No writer is between its load and its commit when a rename is committed.
RenamesLocked == edit.at = "commit" => mutex = None

\* The cards that were loaded are still those that are committed, and what is
\* flushed differs from them by the card that is moved.
CardsHeld ==
  \A w \in Writer :
    /\ write[w].phase = "loaded" => view.cards = disk.cards
    /\ write[w].phase = "flushing" =>
         \A c \in Card : view.cards[c] # disk.cards[c] =>
            write[w].op.kind = "move" /\ write[w].op.card = c

LEMMA MutatedCards ==
  ASSUME NEW v, Shaped(v), NEW op \in Ops, NEW c \in Card,
         Mutated(op, v).cards[c] # v.cards[c]
  PROVE  op.kind = "move" /\ op.card = c
<1>1. v = [cards |-> v.cards, tasks |-> v.tasks, next |-> v.next] /\ v.cards \in [Card -> Column]
  BY DEF Shaped, StateOK
<1>2. op.kind = "move"
  <2> SUFFICES ASSUME op.kind # "move" PROVE Mutated(op, v).cards = v.cards
    OBVIOUS
  <2>1. ASSUME NEW tasks, NEW next
        PROVE  /\ [v EXCEPT !.tasks = tasks, !.next = next].cards = v.cards
               /\ [v EXCEPT !.tasks = tasks].cards = v.cards
    BY <1>1
  <2> QED
    BY <2>1 DEF Mutated
<1>3. Mutated(op, v).cards = [v.cards EXCEPT ![op.card] = op.column]
  BY <1>1, <1>2 DEF Mutated
<1> QED
  BY <1>1, <1>2, <1>3

\* A thread or a session that goes on may ask for a write, and no more.
Asks ==
  /\ StoreUnchanged
  /\ \A x \in Writer : \/ write'[x] = write[x]
                       \/ write[x].phase = "none" /\ write'[x].phase = "want"

LEMMA GoesAsks ==
  ASSUME ActorsOK, StoreUnchanged, NEW w \in Writer, Free(w), NEW op,
         write' = [write EXCEPT ![w] = Wants(op)]
  PROVE  Asks
<1>1. \A x \in Writer : x # w => write'[x] = write[x]
  BY DEF ActorsOK
<1>2. write[w].phase = "none" /\ write'[w].phase = "want"
  BY DEF ActorsOK, Free, Wants
<1> QED
  BY <1>1, <1>2 DEF Asks

LEMMA HandlerAsks ==
  ASSUME ActorsOK, NEW t \in Thread, Handler(t)
  PROVE  Asks
<1>1. t \in Writer /\ Free(t) /\ StoreUnchanged
  BY DEF Writer, Handler, New, Retry, Delete, ClearDone, Move, Waits, Dooms
<1>2. UNCHANGED write \/ \E op : write' = [write EXCEPT ![t] = Wants(op)]
  BY Zenon DEF Handler, New, Retry, Delete, ClearDone, Move, Goes, Dooms
<1>3. CASE UNCHANGED write
  BY <1>1, <1>3 DEF Asks
<1> QED
  BY <1>1, <1>2, <1>3, GoesAsks

LEMMA DispatchAsks ==
  ASSUME ActorsOK, NEW t \in Thread, Dispatch(t)
  PROVE  Asks
<1>1. t \in Writer /\ Free(t) /\ StoreUnchanged
  BY DEF Writer, Dispatch, ClearNext, Find, Worktree, Start, Waits
<1>2. UNCHANGED write \/ \E op : write' = [write EXCEPT ![t] = Wants(op)]
  BY DEF Dispatch, ClearNext, Find, Worktree, Start, Goes
<1>3. CASE UNCHANGED write
  BY <1>1, <1>3 DEF Asks
<1> QED
  BY <1>1, <1>2, <1>3, GoesAsks

LEMMA RunsAsks ==
  ASSUME ActorsOK, NEW s \in Session, Runs(s)
  PROVE  Asks
<1>1. s \in Writer /\ Free(s) /\ StoreUnchanged
  BY DEF Writer, Runs, Begin, EndTurn, Fail, Hook, LoopFree
<1>2. UNCHANGED write \/ \E op : write' = [write EXCEPT ![s] = Wants(op)]
  BY DEF Runs, Begin, EndTurn, Fail, Hook
<1>3. CASE UNCHANGED write
  BY <1>1, <1>3 DEF Asks
<1> QED
  BY <1>1, <1>2, <1>3, GoesAsks

LEMMA AsksKeepsCards ==
  ASSUME CardsHeld, Asks
  PROVE  CardsHeld'
BY DEF CardsHeld, Asks, StoreUnchanged

LEMMA StoreKeepsCards ==
  ASSUME Inv, CardsHeld, NEW w \in Writer, Store(w)
  PROVE  CardsHeld'
<1> USE DEF Inv, StoreInv
<1>1. CASE Load(w)
  <2>1. write' = [x \in Writer |-> IF x = w THEN [phase |-> "loaded", op |-> write[w].op]
                                   ELSE write[x]]
    BY <1>1, PhaseSet DEF Load
  <2>2. \A x \in Writer : x # w => write[x].phase \notin {"loaded", "flushing"}
    BY <1>1, BoardAssumption DEF LocksOK, Load, Writer
  <2>3. view' = disk'
    BY <1>1 DEF Load, ReadsCommitted
  <2> QED
    BY <2>1, <2>2, <2>3 DEF CardsHeld
<1>2. CASE Flush(w)
  <2>1. write[w].op \in Ops /\ write' = [x \in Writer |-> IF x = w
                                           THEN [phase |-> "flushing", op |-> write[w].op]
                                           ELSE write[x]]
    BY <1>2, PhaseSet DEF Flush
  <2>2. \A x \in Writer : x # w => write[x].phase \notin {"loaded", "flushing"}
    BY <1>2, BoardAssumption DEF LocksOK, Flush, Writer
  <2>3. view.cards = disk.cards /\ disk' = disk /\ view' = Mutated(write[w].op, view)
    BY <1>2 DEF CardsHeld, Flush
  <2>4. \A c \in Card : view'.cards[c] # disk'.cards[c] =>
          write[w].op.kind = "move" /\ write[w].op.card = c
    BY <2>1, <2>3, MutatedCards
  <2> QED
    BY <2>1, <2>2, <2>4 DEF CardsHeld
<1>3. CASE Commit(w)
  <2>1. write' = [x \in Writer |-> IF x = w THEN Asleep ELSE write[x]]
    BY <1>3 DEF Commit, ActorsOK
  <2>2. \A x \in Writer : x # w => write[x].phase \notin {"loaded", "flushing"}
    BY <1>3, BoardAssumption DEF LocksOK, Commit, Writer
  <2> QED
    BY <2>1, <2>2 DEF CardsHeld, Asleep
<1> QED
  BY <1>1, <1>2, <1>3 DEF Store

LEMMA EditorKeepsCards ==
  ASSUME Inv, CardsHeld, RenamesLocked, Editor
  PROVE  CardsHeld'
<1>1. UNCHANGED <<view, write>>
  BY DEF Editor, Edit, EditGuard, Rename, RenameCommit, Replace, StoreUnchanged
<1>2. CASE RenameCommit
  <2>1. mutex = None
    BY <1>2 DEF RenameCommit, RenamesLocked
  <2>2. \A w \in Writer : write[w].phase \notin {"loaded", "flushing"}
    BY <2>1, BoardAssumption DEF Inv, StoreInv, LocksOK, Writer
  <2> QED
    BY <1>1, <2>2 DEF CardsHeld
<1>3. CASE ~RenameCommit
  <2>1. disk' = disk
    BY <1>3 DEF Editor, Edit, EditGuard, Rename, Replace, StoreUnchanged
  <2> QED
    BY <1>1, <2>1 DEF CardsHeld
<1> QED
  BY <1>2, <1>3

LEMMA CardsHeldNext == Inv /\ CardsHeld /\ RenamesLocked /\ [Next]_vars => CardsHeld'
<1> SUFFICES ASSUME Inv, CardsHeld, RenamesLocked, [Next]_vars PROVE CardsHeld'
  OBVIOUS
<1>1. ASSUME NEW w \in Writer, Store(w) PROVE CardsHeld'
  BY <1>1, StoreKeepsCards
<1>2. ASSUME NEW t \in Thread, Handler(t) \/ Dispatch(t) PROVE CardsHeld'
  BY <1>2, HandlerAsks, DispatchAsks, AsksKeepsCards DEF Inv
<1>3. ASSUME NEW s \in Session, Runs(s) PROVE CardsHeld'
  BY <1>3, RunsAsks, AsksKeepsCards DEF Inv
<1>4. CASE Editor
  BY <1>4, EditorKeepsCards
<1>5. CASE Restart
  BY <1>5 DEF Restart, CardsHeld, Asleep
<1>6. CASE UNCHANGED vars
  BY <1>6 DEF vars, CardsHeld
<1> QED
  BY <1>1, <1>2, <1>3, <1>4, <1>5, <1>6 DEF Next

LEMMA OnlyCommitsWrite ==
  ASSUME [Next]_vars, disk' # disk
  PROVE  (\E w \in Writer : Commit(w)) \/ RenameCommit
BY DEF Next, vars, Store, Load, Flush, Handler, New, Retry, Delete, ClearDone, Move,
       Dispatch, ClearNext, Find, Worktree, Start, Dooms, StoreUnchanged,
       Runs, Begin, EndTurn, Hook, Fail, Editor, Edit, EditGuard, Rename, Replace, Restart

\* A card changes its column as it is moved or as its column is renamed, and by no
\* write of something else (config.py:127-129): for any number of threads, sessions
\* and edits, if only no rename commits inside the read-modify-write of another.
THEOREM LockedRenamesLast == Spec /\ []RenamesLocked => CardsMoveOnPurpose
<1>1. Init => CardsHeld
  BY DEF Init, CardsHeld, Asleep
<1>2. Inv /\ CardsHeld /\ [Next]_vars =>
        [\A c \in Card :
           disk'.cards[c] # disk.cards[c] =>
             \/ edit.at = "commit"
             \/ \E w \in Writer : write[w].phase = "flushing" /\ write[w].op.kind = "move"
                                 /\ write[w].op.card = c]_vars
  <2> SUFFICES ASSUME Inv, CardsHeld, [Next]_vars, NEW c \in Card,
                      disk'.cards[c] # disk.cards[c], edit.at # "commit"
               PROVE  \E w \in Writer : write[w].phase = "flushing" /\ write[w].op.kind = "move"
                                       /\ write[w].op.card = c
    OBVIOUS
  <2>1. PICK w \in Writer : Commit(w)
    BY OnlyCommitsWrite DEF RenameCommit
  <2>2. disk' = view /\ write[w].phase = "flushing"
    BY <2>1 DEF Commit
  <2> QED
    BY <2>2 DEF CardsHeld
<1> QED
  BY <1>1, <1>2, BoardInvariance, CardsHeldNext, PTL DEF Spec, CardsMoveOnPurpose
=============================================================================
