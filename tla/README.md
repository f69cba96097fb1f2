# Sisyphus (package `repobot`): a verification project

Sisyphus is a local triage board. A server process fetches pull requests and
issues from GitHub into *queues* of *cards*, lets Claude sessions triage them,
and dispatches *actions* (rebase, nudge, fix, plan, ...) on a card as further
Claude sessions. Everything happens in one process with several threads: request
threads, one refresh thread per queue, one thread per triage, and one asyncio
loop, in a thread of its own, on which every session is a coroutine. What the
threads share is the board in SQLite, the table of sessions, and a semaphore
that bounds the sessions at work. There is no global order of steps, and a
restart forgets everything but the database. That is where this program is hard
to get right, and what the modules here are about.

Paths below are relative to the repository; `sessions.py` means
`src/repobot/sessions.py`.

## Inventory

| Component | State | Operations | Hard behaviour | What makes it correct |
|---|---|---|---|---|
| Session manager, `sessions.py` | `SESSIONS`, each session's status, queue and first-turn event; the semaphore | start, resume, run, follow-up, abort, idle timeout, resize | coroutines against threads; exceptions at every await; aborts posted behind messages | slots are conserved and served in order; the first turn is always signalled; what ended never looks live |
| Dispatcher, `actions.py` | the card: state, last_result, plan, drafts, session_id, parked_at | dispatch, continue, approve plan or drafts, the session hooks | sequences of atomic writes that interleave with everything | one live session per card, the card points at it, its outcome arrives |
| Endpoints and boot sweep, `api.py` | none of its own | act, prompt, continue, resume-live, approve, discard, retriage, delete, task and column endpoints, settings | a second click; a stop at any point, then the sweep | an interrupted action is never shown as under way |
| Runner, `runner.py` | none of its own | run_queue, refresh of a queue and of a card, retriage, triage fan-out | fetches applied late or in the wrong order; checks made before the lock | an update is noticed, a parked card wakes, a card gets its triage |
| GitHub client, `github.py` | none | fetchers, the fast path, the single fetch, calls of `gh` | a hydration that fails; what is carried forward | a copy is never behind the time it bears |
| Triage menus, `triage.py` | none | mechanical menus, unblock choice, bot threads, the skill step | many overlapping conditions; a menu beside newer signals, and with two writers | held cards are left alone, merges are clean, an unblock removes a blocker |
| Card store, `queues.py`, `db.py` | the SQLite tables | one `_mutate` per setter; rename of states; flush | two locks; a stop in a flush | no update is lost, a flush is atomic |
| Tasks, `tasks.py` | task records, next id | create, dispatch, update, delete, retry, clear | the hook against the dispatching thread; a restart | a number is given once, no entry undoes another, a dispatch answers |
| Column editor, `config.py` | `config.yaml` | the guard, the renames, the replacement | a rename under the other lock | cards follow their column |
| Worktrees, `worktree.py`, `workspace.py` | directories, branches | ensure, remove, prune | reuse under a live session | a session's tree is not reset under it |
| Event stream, `events.py`; inbox order, `inbox.py`; rendering | subscribers' queues; none | broadcast; sort; format | a full queue drops | a page catches up |

Interactions: endpoints call the dispatcher, which checks the session table,
writes the card, prepares a worktree and starts a session; the session's hooks
write the card from the loop; the runner writes the same card from its own
threads and asks the session table what is live; deleting and parking abort
sessions; every write of the board broadcasts an event.

## Modules

| Module | Models | |
|---|---|---|
| `SlotPool` | what the session limiter promises: a pool of slots and a line | abstract |
| `Sessions` | the session manager | detailed; implements `SlotPool` |
| `Actions` | one card: dispatcher, endpoints, hooks, plans and drafts, refresh, sweep | detailed |
| `Refresh` | a queue of cards and their pull requests: fetches, refresh, intake, triage threads | detailed |
| `TriageMenu` | the menus, and how a menu and its signals drift apart | detailed |
| `Ledger` | what the task board promises: a book of numbered entries | abstract |
| `Board` | the store under its two locks, the tasks, the column editor | detailed; implements `Ledger` |
| `MCSessions`, `MCRefresh`, `MCMenus` | instances for the model checker | |
| `SessionsProofs`, `ActionsProofs`, `CardProofs`, `PointerProofs`, `RefreshProofs`, `TriageMenuProofs`, `BoardProofs` | theorems, for every value of the constants | proofs |

The modules meet where the code's parts do. `Sessions` has a session from await to
await, and knows nothing of cards; `Actions` has of a session what a card sees, and
takes what a refresh learns as arbitrary; `Refresh` has what a refresh learns and
why, and knows no actions, only that a user moves cards; `TriageMenu` has what a
triage decides, of which `Refresh` has only the time; `Board` opens up the one step,
`_mutate`, that the other modules take as atomic, and shows that it is.

### Sessions

`pc[s]` is the await point at which the coroutine of session `s` stands, so an
action is what the code does from one await to the next:

    unborn -> scheduled -> acquire -> (wait -> woken | granted) -> connect -> turn
           -> top -> get -> acquire -> ... -> exit -> done

`status` is the field the other threads read and `abort_sessions_for_item`
writes. A put made by another thread (`run_coroutine_threadsafe`) first waits in
`posted`; `Deliver` is its turn on the loop. `CollectTargets` and `SignalTarget`
are the two halves of an abort, before and after the lock is released. `cap` is
what the user asked for last, `issued` a history variable: the slots the
semaphore was ever given. `Fail` is an exception of connecting, of a turn or of
disconnecting; exceptions of hooks are caught in the code and change nothing
here.

The semaphore is asyncio's, modelled from how it is used. In Python 3.11 and
later, which the model follows, a permit released while somebody waits goes to
the longest waiter and `locked()` is also true while anybody waits. Before that,
a newcomer could overtake a waiter that had been woken and not yet run:
`WaitOnlyWhenFull` and the order in `SlotPool` would not hold there. A waiter that was
handed a permit is in the line until it runs ("woken"), so that a newcomer may queue up
behind it although permits are free; when it runs, it passes on what is left (`PassOn`).

### Actions

One card, as the database has it, and every actor that writes it. A single
`_mutate` is atomic, and nothing else is: each actor has a list of writes still
to do (`todo`), and `Write` performs the next one. A request thread dispatches
in the steps of the code: the guard (`Guard`), the first two writes, the
worktree and remote (`Prepare`), the session and the pointer (`Spawn`). A
session is reduced to what a card sees of it (`phase`, `closing`, `inbox`); its
hooks are `FirstHook` and `NextHook`, run at the end of the first and of a later
turn, and the coroutine goes on only when their writes are done. The outcome of
a turn is arbitrary. What a refresh learns from GitHub is arbitrary, too
(`differs`, `stale`), so the card's pull request may change at any time.

The actions of the code fall into a few kinds by their specs, and `Actions`
names a member of each. The two two-phase actions have the same life: a first turn
ends in a proposal (a plan of `plan-fix`, reply drafts of `address-comments`), the
user approves it, and a later turn of the same session executes it (`Offer`,
`Executing`, `NextHook`). They differ in what an approval does without a session:
a plan is dispatched afresh (`Approve`), replies are posted by the request thread
(`PostDrafts`, `PostReplies`), all, some or none. `execute-plan` and `post-replies`,
the pseudo-actions written during phase two, are folded into their actions, as
`continue_action` does. A restart loses threads and sessions at any point, sweeps
the card and may resume what was interrupted. Sessions are interchangeable, so a
new one takes whichever identifier is unused (`NextId`).

Abstractions to keep in mind. The card's pull request stays in the feed here: the
refresh skips cards that are not in it, and neither the recovery of a plan nor
unparking happens for those (`Refresh` has that). The menu of a card, its proposal and the
time of its triage are not in the model: `stale` is an arbitrary
input; `TriageMenu` has what an action that bails adds to the menu. A
message put into a queue is there at once; `Sessions` has the delay. `continue`
is enabled where the card shows its button (`_card.html`).

### Refresh

`upstream` is GitHub: an `Update` advances the `clock` and changes what a pull
request shows; `past` remembers every version, for the properties. A card has the
copy it was last handed (`raw`), the time of its verdict (`triaged`) and, when it
is parked, the signals it was parked on. `run[r]` holds the locals of a `run_queue`:
the copies it knew before, the free places counted before, what it fetched. Its
steps are those between which others can come: `Begin`, `List`, `Hydrate` of one
pull request after the other, `Apply`, `AbortDemoted`, `Pick`, `Upsert`, `FanOut`.
`call[c]` is an Update or Retriage of one card, `triage[w]` a triage thread with
its session. `Fetched` is the heart of it: a pull request whose `updatedAt` has not
moved is not asked for again, its old copy is carried forward (`Carried`), and a
hydration may fail and leave the list's fields (`Unhydrated`); `Single` is what the
fetch of one card brings. `merge` tells the copies apart: "known" when hydrated.

`feed` is what the search of the queue lists. Which pull requests these are depends on
the query, on its order and on `limit`, and with `sort:updated-asc` an updated one goes to
the far end: any update may take any pull request in or out. `LeftOut` is the filter of
`fetch_my_prs` and of `attention_only`, which comes after the hydration and also drops what
was carried (`AttentionOnly` says whether the fetcher has it). A card whose pull request
was not brought is skipped (`Brought`).

GitHub is taken at the code's word that no signal changes without an update. The queue has
one bucket, and every card has the baseline fields (the backfill of old ones is left out).

### TriageMenu

`Menu(q, s)` translates the rules of the five kinds of queue, `PickUnblockAction`
the Unblock button. The signals are records of what the rules tell apart; a review
thread is known by who speaks and what kind of text it has. The state machine
around them is small: GitHub's signals change, a fetch brings all, some (`Listed`,
the single fetch) or few (`Unhydrated`) of them to the card, a triage judges what
the card shows then and records its menu later, and a refresh shows newer signals
beside an older menu unless it comes after `triaged_at`. So `pull`, `raw` and
`judged` are three versions of the same thing, and each property says which one it
is about. A skill's own actions are ignored by the code, and absent here.

A menu has two writers. The other is the hook of an action that bails with needs_human:
`Finish` is `extend_item_actions` with `_state_drift_followups`, and `added` remembers what
it put into the present menu. The message of a bail is the skill's; it is taken to be true
(`Found`: the skill looked at GitHub), which is an assumption on the skills, in their favour.
What a hydration brings depends on the queue (`Asked`, `toggles`: a generic queue asks for
each signal in `config.yaml`), on whether the call is answered, and on whether GitHub has
worked out the mergeability, "UNKNOWN" before that (`Hydrated`, `Decide`); a quiet tick
carries the signals forward with the mergeability of a fresh list (`QuietRefresh`).

### Board and Ledger

A `_mutate` is three steps: `Load` takes `queues._LOCK`, waits for `db._LOCK` and
reads everything; `Flush` takes `db._LOCK` again, empties the tables and writes
everything as it was loaded, with the change; `Commit` ends the transaction and
frees both. The connection is shared: `tables` is what it sees, `disk` what is
committed, and a stop of the server (`Restart`) leaves `disk`. The writers are the
request threads and the hooks of task sessions; the editor of columns
(`EditGuard`, `Rename`, `RenameCommit`, `Replace`) takes only `db._LOCK`. What is
written comes from the task board: a new task and its dispatch thread, a retry, a
deletion, a clearing of what is done, the pointer to the session and the outcomes
its hooks report; and moves of a card, so that the editor has something to race.

`Ledger` is what a user of the tasks relies on: numbers are never reused, an entry
is changed by one patch at a time, and nothing undoes another's entry.

## Runs

| Run | Instance | Shows |
|---|---|---|
| `sessions` | 3 sessions, 2 cards, cap 1 and a resize to 2, 1 follow-up, 1 abort | conservation and discipline of slots, no waiting beside a free slot, unless behind one just woken, statuses of ended sessions, refinement of `SlotPool` |
| `sessions_live` | 2 sessions, cap 1, 1 follow-up, 1 abort, fairness | the cap; first turns are signalled, aborted sessions end, follow-ups get their turn |
| `actions` | 1 request thread, 2 sessions, 5 kinds of action, 3 calls, 1 restart | one live session, no orphan, nothing shown as under way that is not, a parked card without a baseline has a session that parked it without one |
| `plan` | 1 request thread, 2 sessions, the two-phase actions, 3 calls of 7 endpoints, 1 restart, fairness | no second dispatched session; a plan or drafts do not stay in execution |
| `refresh` | 1 pull request, 1 runner, 1 caller, 1 triage thread, 1 update, 1 move, 1 call, fairness | a fetcher with the attention filter: copies are not behind their time; a card is triaged; an update is noticed and a parked card woken while the fetcher brings the pull request |
| `menus` | every queue, every combination of signals, 5 discussions, ages 0 and 40, no toggles or all, 1 update, 1 action | what is offered, and what the Unblock button stands for |
| `board` | 2 threads, 2 task sessions, 1 card, 3 column names, 3 inputs, fairness | flushes are atomic, the tasks implement `Ledger`, a dispatch answers |

Five runs end in a violation on purpose; each checks one sentence of the source
against what the source does. See `findings` in `PROJECT.json`.

| Run | The sentence | What happens |
|---|---|---|
| `resize` | new acquires will see the smaller cap (`sessions.py:84`) | the delta is taken from the free permits, so lowering or raising the cap of a busy pool adds slots |
| `double_dispatch` | at most one live action session per item (`actions.py:891`) | two overlapping requests both pass the check |
| `quiet_unpark` | quiet PR, no signal could have changed (`github.py:497`) | the fast path drops the head and the count of comments, which then differ from the baseline: a parked card comes back by itself |
| `stale_menu` | the mechanical menu reflects current signals (`runner.py:415`) | the fetch of one card brings no conflicts, and approve-merge is offered for them |
| `rename_lost` | we don't orphan rows (`config.py:127`) | a rename between the load and the flush of any other write is undone |

Bounds. Two sessions competing for one slot make every waiting and hand-over
case happen, the third makes the order in the line visible. Two sessions of one
card are the least that can be one too many. One request thread is the
assumption of `actions` and `plan`, not a bound: with two the properties fail,
which is what `double_dispatch` shows. Three calls allow an action, something
that disturbs it, and a second action. In `refresh` nothing in the code relates one
pull request to another but the free places and the triage slots. With one pull request no two
cards compete for them, and that is what the liveness checked here leaves out; the safety
properties are proved for any number of pull requests and runners. The one runner overlaps with
the call, the update, the triage and the move. One update after a verdict, or after parking, is
what has to be noticed. The fetcher of the instance has the attention filter; without it the
same cards are looked at at more times. In `menus` the
five discussions hold every kind of thread the rules tell apart, alone and together,
and the ages lie on both sides of the thresholds a menu depends on (the others only order
its buttons). `MCOpened` leaves out initial signals that the rules treat as they do others
that are there, such as a fork open to its maintainers; an update may still bring any label,
verdict, conflict or draft. One action that bails can add each follow-up there is. In
`board` three inputs are a task, what disturbs it (a retry, a deletion, a stop,
another task) and one thing more; two threads are needed for any race, and as many
sessions as are ever dispatched. `MaxMessages`, `MaxAborts`, `MaxUpdates`, `MaxMoves`, `MaxCalls`, `MaxInputs`,
`MaxActions` and `MaxRestarts` bound counters; the theorems hold for all of their values.
Deadlock is checked in `menus`. The others may be idle for good, and their bounds
stop them.

Some properties stop short of what the repository says, because the code does not keep it;
"Disagreements" below lists these. `UnwatchedHasCause` does not say that a parked card has
its baseline, but that the sessions that stamp none (`ParksUnwatched`) are the only cause when
it has not: the instant `await-update`, a first `nudge-author`, the refresh, retriage and a
hook overtaken by any of these are not. `ParkedWakes` holds while the fetcher brings the pull
request (`InFeed`), and `StaleIsNoticed`, too, which leaves out cards in the middle of an action.
`HeldIsLeftAlone` and `PushIsPossible` hold but for what an action that bailed has added.
`ParkedWakes` and `CopyNotBehind` speak of
hydrated copies: see below for what happens to the others. `StaleIsNoticed` is about
updates after `triaged_at`; one that comes while the triage runs bears an earlier
time and is not noticed before the next. `MergeReflectsPull` asks for conflicts only where
the queue does and GitHub knows.

Fairness. In `Sessions` the loop runs every ready coroutine (`WF` of `Coroutine`,
`Deliver`), a turn ends because `max_turns` bounds it, and a thread between two steps
of an abort goes on (`SignalTarget`); that an idle session times out is not assumed, so that an
abort has to do its own work. In `Actions` each request thread and each session goes
on (`WF` of its write or its next step), an idle session ends because its wait has a
timeout, and the refresh thread ticks for ever (`WF` of `RefreshLooks` and `RefreshApplies`),
which needs `auto_refresh` on, as it is by default. In `Refresh` the runners tick, the
triage threads and the calls go on (`WF`), and listing the pull requests does not fail for
ever (`SF` of `List`, since each failure ends the run and the next one starts over), nor does
the hydration of one (`SF` of `HydrateWell`); both are about GitHub, not the code. In `Board` a writer that may take its lock or has it goes on (`WF` of
`Store`: threads that write one after the other cannot starve one for good within the bound
of inputs), so do dispatch threads and the editor; sessions need not end. No user has to
click and no server has to restart.

## Proofs

`SessionsProofs` proves, for any set of sessions, any cap, any resizes and any
number of messages and aborts:

* `TypeCorrect`, `SlotsConserved`, `WaitingMeansFull`, `EndedIsOver`: the
  invariants of the run `sessions`;
* `CapRespected`: where the cap is left alone (`NewCaps = {}`), `AtMostCap`;
* `IdleResizeKeepsCap`: `AtMostCap`, and `NewAcquiresSeeCap` too, which the run `resize`
  refutes, as long as each resize finds no slot taken and does not lower the cap
  (`ResizedIdle`). That is as far as the code's arithmetic goes: the new cap is compared
  with the free permits, which are the old cap only then;
* `PastFirstTurnIsSignalled`: a session that is past its first turn, has failed or is
  over has set its event; `AbortsAreHeard`: from the moment `abort_sessions_for_item` has
  collected a session until that session leaves, it is a target still, or the sentinel is
  posted or in its queue. These are the parts of `FirstTurnSignalled` and
  `AbortEndsSession` that do not rest on fairness;
* `ImplementsPool`: `Spec => PoolSpec`, the refinement.

They rest on `SessionsAssumption` (finitely many sessions, caps of at least 1)
and on the inductive invariant `IInv`. The invariants of the run are almost
inductive together: conservation counts holders, so each step must know whether
its session holds a permit (`SlotDiscipline` says that the local `acquired` tells
the truth), and whether the line it serves holds exactly the blocked coroutines
(`WaitOnlyWhenFull`), or a permit could be handed to a session that has one. A session that
was woken has its permit already, as `SlotPool` sees it.
What is missing is why an ended session keeps an ended status although an abort
writes it later: the session the abort collected had a queue, so it had begun,
and `closing` is itself an ended status; `IInv` adds that. The proof of a step has a case per
action; the counting is in lemmas about a batch of releases (`Wake`, `Release`).

`ActionsProofs` proves of the card, for any sets of threads and sessions, any
choice of actions and endpoints, and any number of calls and restarts:

* `ActionsTypeCorrect`: the card and the writes that wait are well formed. What
  it needs beyond `TypeOK` is `JobsNamed`: a session whose hook is going to record
  an outcome knows for which action.
* `SerialDispatch`: `Spec /\ []Serial => []OneDispatched`. `Serial` says that no
  two threads are past the guard of `dispatch` and before their session's start
  at a time. The code does not see to that (`double_dispatch`); a lock held that
  long would. The theorem says that this is all that is missing: neither aborts
  that a status assignment undoes, nor resumed sessions, deletions, restarts or
  the refresh produce a second session.
* `SerialOneLive`: without the `continue` endpoint, which has no guard,
  `OneLiveSession` under the same proviso.
* `OneThreadDispatched`: with one request thread, as in the run `plan`, `Serial` always
  holds, and so does `OneDispatched`.

`SessionInv` is the invariant. `OneDispatched` alone is not inductive for two
reasons: what a thread saw at the guard must still be so when it starts its
session (`Cleared`), and a session whose `closing` is overwritten must not come
back to count as wanted. The second holds because the sentinel is put into
the queue together with the status and only taken by a session that ends
(`AbortSticks`).

`CardProofs` proves of what the card says, with any number of threads (overlapping
dispatches included), sessions, calls and restarts:

* `RunningIsAnswered`: where `continue`, `approve` and `post` are not called,
  `RunningHasSession`; `OthersAreAnswered`: where only `continue` is not, the same for every
  action but those of two phases. The exceptions are in the code: `continue_action` writes
  "queued" before the worktree that may not be made, and says nothing if it is not
  (`actions.py:734`); an approval writes "running" for a session that may time out or
  be aborted before it reads the message. Both are hazards of `PROJECT.json`, and the
  run leaves them out for the same reason.
* `ParkedIsWatched`: `UnwatchedHasCause`, for any actions and endpoints, `continue` included,
  where no queue begins or fails in "awaiting update". In the behaviours in which only
  `await-update` and a first `nudge-author` park, every parked card is watched; where another
  session parks, its first turn has come to its end. Which actions those are is in
  `ParksUnwatched`.

The invariant `RunningInv` follows each write until it is made. "Queued" and "running" are
only ever announced by someone who has more to say (`OthersAreCalm`): a thread past the
guard, or a session whose first hook has not run (`Custodian`). And while the card says so,
there is such a custodian, a list of writes that ends with an outcome (`Settling`), or a
session that died of an exception (`UnderWayIsAnswered`). A `Custodian` that leaves puts the
outcome on its list in the same step, and a restart loses all lists and sweeps the card.
`WatchedInv` does the same for the two writes of parking: a "state" that parks is followed
in its list by the stamp (`ParkingIsFollowed`), so that a card that is parked without one
has it on somebody's list (`ParkedOrStamped`). It holds until a session that stamps nothing
is past its first turn, or a restart (`Excused`), and these stay so (`ExcusedStays`). Both
need `Settled`: a thread that goes on to its next step has made its writes.

`PointerProofs` proves `NoOrphan`, where `continue` and `delete` are not called:

* `AloneNoOrphan`: under `Alone`, that no two threads are between the guard and the write of
  the pointer; `OneThreadNoOrphan`: with one thread, which is what the run `actions` checks.

`Alone` is more than `Serial`: a thread that has started its session and not yet
written the pointer may be overtaken by the end of that session and by another dispatch,
and then write an old pointer over the new one. `PointerInv` says that a pointer on
its way is that of the live session, if there is one (`PointersAreFresh`), and that the live
session has the card's pointer or has it on its way (`LiveIsPointedAt`); nobody but a
dispatch writes pointers (`HooksAreSilent`). `delete` is left out because the intake may add
the card again, without a pointer, beside a session that was too young to be aborted.

`RefreshProofs` proves, for any pull requests, runners, callers and triage threads:

* `RefreshTypeCorrect`, and `QuietIsSafe`: `CopyNotBehind`. That a copy is at least as
  new as the time it bears is only true because what a run holds is, too: what it
  carries forward came from a card, and what it hydrates came after the list whose time
  it gets. `Inv` adds that for the locals of runs and calls (`LocalsNotBehind`), and
  that a listed time is not later than the pull request's own (`ListedBefore`). The time
  of a copy is the list's, the signals are the hydration's: if it were the other way
  round the step `Hydrate` would not preserve it.

`TriageMenuProofs` proves the five invariants of `menus` for any discussions, ages, initial
signals, toggles and number of actions (`MenuTypeCorrect`, `HeldCardsAreLeftAlone`,
`PushesArePossible`, `MergesAreClean`, `UnblocksRemoveBlockers`). The invariant `Judgement` says
that the menu of a triaged card is the one the rules make of the signals it was judged on,
together with what actions that bailed have added, which is of a known few (`FollowUps`) and
never a merge; everything else is reasoning about the rules, queue by queue (`MenuKnown`: each
menu is of known actions and leaves a way on).
`QueueFetchesReflectPull` says what is wrong in the run `stale_menu`: if what a card shows is
always, as a whole, what the fetcher of its queue brings (`QueueFetch`), even where a hydration
fails, `MergeReflectsPull` holds. That excludes two steps of the code, and so there are two
holes: the single fetch, and a quiet tick that puts a mergeability GitHub has worked out since
beside conflicts from before (`github.py:401-416`). `NotOutrun` is its invariant: a copy made
when GitHub knew shows the conflicts it had (`Faithful`).

`BoardProofs` proves, for any threads, sessions, cards, columns and number of inputs:

* `BoardTypeCorrect` and `NoWriteIsHalf`: `TypeOK` and `NoHalfWrite`;
* `ImplementsLedger`: `Spec => LedgerSpec`, the refinement. What a writer loaded is, as
  far as the tasks go, still committed when it flushes, and what it flushes is one entry's
  change of that (`ViewHeld`). The only one who commits in between is the editor, and its
  rename leaves the tasks alone (`RenameApart`): that is why the tasks are safe although
  `rename_lost` shows that the cards are not. `ReadsCommitted` says that who takes
  `db._LOCK` sees no half of a flush.
* `DeletedTasksAreGone`: no late write brings a deleted task back, and no number, which is
  in the name of a branch, is given twice (`GoneForGood`); it follows from the refinement.
* `LockedRenamesLast`: `CardsMoveOnPurpose`, as long as a rename commits while nobody holds
  `queues._LOCK` (`RenamesLocked`). What a writer loaded then has the cards that are
  committed, but for the one it moves (`CardsHeld`). So the lock that the rename does not
  take is all that `rename_lost` is about.

A theorem with a proviso on behaviours (`[]Serial`, `[]Alone`, `[]RenamesLocked`,
`[][ResizedIdle]_vars`, `[][QueueFetch]_vars`) is about the behaviours in which it holds;
there are many, those of a server whose user does one thing at a time among them.
Each of these provisos is one that a change of the code would make good: a lock held longer,
another subtrahend, another fetcher.

What stays with TLC: the liveness properties, `FirstTurnSignalled`, `AbortEndsSession`,
`FollowUpServed`, `OfferUnsticks`, `StaleIsNoticed`, `CardGetsTriaged`, `ParkedWakes` and
`TaskIsAnswered`, which rest on fairness and ENABLED; and the counterexamples. Every
invariant that a run checks is proved, where needed under the provisos above, which the
constants of the run imply. `UnparksOnSignal` has no such theorem: the
copy that a quiet tick carries forward has lost its head, so that there is no proviso, short
of having no quiet ticks, that makes it true.

## Disagreements without a run

Each of these is in a module, or plain from the lines named; none has a run of its own.

* `abort_sessions_for_item` says that callers see the session as done immediately
  (`sessions.py:625`); the coroutine's next status assignment (as at 657) undoes it.
* Awaiting-update items "auto-unpark" when "the external signal the user was waiting on has
  arrived" (`runner.py:181-183`, and `MEMORY.md:110`; `nudge-issue-author` "parks the card
  pending response", `actions.py:420`). A card without a baseline never does
  (`queues.py:263-268`; the runner fills one in only where there is a `parked_at`, 228), and of
  the ten actions that park, `rebase-review`, `fix-precommit-review`, `ping-reviewers`,
  `request-reviewers`, `mark-as-draft`, `label-as-stale`, `nudge-issue-author` and
  `attempt-fix-issue` stamp none (`actions.py:1100`), nor does a continued `nudge-author`
  (839-840). `UnwatchedHasCause` with the second half of its conclusion left out fails for
  `rebase-review` in the instance of `actions`.
* "Auto-unparks on next update" (`actions.py:881`): not on one that leaves no conflict, no
  failing check and no thread. `fetch_my_prs` drops the pull request (`github.py:1143-1147`,
  1167-1170, likewise 546-550), the refresh skips its card, and the card sleeps on;
  `ParkedWakes` has `InFeed` for that reason. The same goes for a search with a `limit` that
  lists it no longer.
* `refresh_one_item` and the refresh clear the proposal of a card whose action is under way
  (`runner.py:256-259`), though both docstrings leave those cards alone (184-186, 273-276).
* Held pull requests "get a fixed action menu ... regardless of other signals"
  (`MEMORY.md:74-76`), and an Unblock is never "judged unavailable (push not allowed, hold label
  fired, etc.)" (`triage.py:164-167`). The follow-ups of an action that bails
  (`actions.py:1113-1119`) ask neither: a held card gets rebase or a fix, and so does a fork
  that cannot be pushed to, where the Unblock button then stands for it.
* `failure_state` is "in triage" so that a failed card "stays visible"
  (`actions.py:104-106`); the review-requested queue has no such column.
* A plan approved after its session closed runs as the first turn of a fresh one, whose
  hook does not flip the card to done (`actions.py:1118`, against 1125-1128).
* `approve_plan` sends "into the live plan-fix session" (`actions.py:475`), which is
  whatever session the card points at. A refresh offers the plan again once that one is
  over; what it did with the plan is anybody's guess.
* A hydration that failed leaves the list's fields, with CI as passing; the fast path
  carries them forward until `updatedAt` moves (`github.py:490-500`).
* Workflows awaiting approval are "the highest-leverage unblock by far", but a menu with
  no other fix on it is taken for a held one, and gets none (`triage.py:182-187`).
* An Unblock is picked from the older menu with the newer signals, so a hold label added
  during a triage does not stop it (`triage.py:165-168`).
* `mark-as-draft` "is gated on `push_allowed`" (near `triage.py:795`), and is also offered
  without.
* my-prs offers `resolve-conflicts` (`triage.py:477`), which `ACTIONS` does not have:
  `dispatch` raises (`actions.py:862`).
* `_bootstrap` writes the version row before it imports the old JSON state (`db.py:83-104`):
  a stop in between loses the import for good.
* Tasks: the late write of `dispatch_task` (`tasks.py:314`) hides a done or stuck of its own
  session; a session that fails runs no hook, and one lost in a restart is swept by nobody,
  so the task stays in progress; two retries start two sessions; clearing what is done also
  deletes a task retried since it looked.

## Not modelled

See `components` in `PROJECT.json` for the reason of each.

* Formatting, rendering, icons, the order of the inbox, the names in the menus' texts.
* git and `gh`: a worktree is ready or raises, a push is possible or not, replies are
  posted or fail. What is in a worktree, and that a new dispatch resets it under a session
  that still works there, is not modelled; the second session is.
* The event stream: nothing on the server depends on an event, and pages poll besides.
* Of the runner, the buckets of a multi-bucket queue and the backfill of baselines of old
  cards; of the search, its query and order: which pull requests it lists is arbitrary. `max_in_flight` is in
  `Refresh` and is not kept: places are counted before the fetch and filled after it.
* Of the store, the append-only logs, settings, session rows, the import of the old JSON
  state, and a flush that raises (it rolls back).
* Of the configuration, everything of a queue but its columns; the checks of the machine.
* Of the endpoints, bulk approve, create-pr, track-pr, request-reviewers and the settings.

## Plan

1. *Done:* `SlotPool`, `Sessions`: the limiter under everything.
2. *Done:* `Actions`: the life of a card, plans and drafts.
3. *Done:* `Refresh`: fetches, refresh, intake, triage fan-out.
4. *Done:* `TriageMenu`: the rules and the age of what they read.
5. *Done:* `Board` over `Ledger`: the store, the tasks, the column editor.
6. *Done:* the invariants of all runs as theorems; the provisos under which the refuted
   sentences hold, where there are any.
   Still to do: that `SlotPool` itself keeps what it promises (never more than `size`
   at work, nobody twice in line).
7. `Worktrees`: reset and prune of directories under live sessions; create-pr, which pushes
   from one.
8. The buckets of a queue and the issues' fetchers, in `Refresh`.
