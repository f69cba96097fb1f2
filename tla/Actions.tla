------------------------------ MODULE Actions ------------------------------
(***************************************************************************)
(* One card and everything that acts on it (repobot/actions.py, the card   *)
(* endpoints of repobot/api.py, the refresh of repobot/runner.py and the   *)
(* boot sweep).                                                            *)
(*                                                                         *)
(* Nothing here is atomic but a single _mutate of the card: a request      *)
(* thread that dispatches an action, and a session whose hook records an   *)
(* outcome, each perform a sequence of writes (`todo`), and every other    *)
(* actor may act between two of them.  A session is kept to what a card    *)
(* sees of it; Sessions.tla has the rest.                                  *)
(***************************************************************************)
EXTENDS Integers, Sequences, FiniteSets

CONSTANTS
  Request,        \* the threads that serve the card's endpoints
  Session,        \* the action sessions that may ever be started
  Action,         \* the actions the card's menu offers, of those below
  Endpoints,      \* the endpoints in use, of those below
  InitialStates,  \* initial_states of the queue, or its initial_state
  FailureState,   \* failure_state, the same literal in every action's spec
  QueueStates,    \* the states of the queue, which are the board's columns
  MaxCalls,       \* bound: endpoint calls
  MaxRestarts     \* bound: restarts of the server

None == "none"

Actions ==   \* one of each kind of ACTIONS, under the name of a member
  {"skip", "await-update",                 \* instant
   "rebase", "rebase-review",              \* end in done, in awaiting update
   "nudge-author",                         \* parks with a baseline
   "mark-as-draft",                        \* parks, and has no state in progress
   "plan-fix", "address-comments",         \* two-phase: a plan, reply drafts
   "summarize-diff"}                       \* leaves the state alone

AllEndpoints ==
  {"act", "continue", "approve", "post", "nudge", "discard", "retriage", "delete"}

ASSUME ActionsAssumption ==
  /\ Action \subseteq Actions /\ Endpoints \subseteq AllEndpoints
  /\ InitialStates \subseteq QueueStates /\ InitialStates # {}
  /\ {"in progress", "awaiting update", "done"} \subseteq QueueStates
  /\ None \notin Session /\ Request \cap Session = {}
  /\ MaxCalls \in Nat /\ MaxRestarts \in Nat

VARIABLES
  card,      \* the item, as the database has it
  todo,      \* the writes each thread and each session's hook has before it
  pc,        \* where a request thread is in dispatch or continue_action
  job,       \* the action it dispatches, and on whose behalf
  phase,     \* where a session is in its life
  closing,   \* the sessions whose status reads "closing"
  inbox,     \* a session's _user_queue
  doing,     \* the job a session was started for
  snapshot,  \* what the refresh under way saw: None, "live" or "dead"
  calls,     \* bound counter: endpoint calls
  restarts   \* bound counter: restarts

requestVars == <<pc, job, calls>>
sessionVars == <<phase, closing, inbox, doing>>
vars == <<card, todo, requestVars, sessionVars, snapshot, restarts>>
-----------------------------------------------------------------------------
(* The specs of the actions.                                               *)

Instant   == {"skip", "await-update"}
Pushing   == {"rebase", "rebase-review"}   \* WRITE_ACTIONS
Parking   == {"rebase-review", "nudge-author", "mark-as-draft", "await-update"}
Reading   == {"summarize-diff"}
TwoPhase  == {"plan-fix", "address-comments"}

InProgress(a) ==
  IF a \in Instant \cup Reading \cup {"mark-as-draft"} THEN None ELSE "in progress"

Terminal(a) == CASE a \in Reading    -> None
                 [] a \in Parking    -> "awaiting update"
                 [] a = "plan-fix"   -> "in progress"
                 [] OTHER            -> "done"

Failure(a) == IF a \in Reading THEN None ELSE FailureState

Success  == "completed"   \* SUCCESS_STATUSES
\* What a turn reports; a proposal is a plan of plan-fix, drafts of address-comments.
Outcomes == {Success, "proposal", "needs_human", "error"}
Pending  == {"queued", "running"}
-----------------------------------------------------------------------------
(* Writes: partial records, each one _mutate of the card.                  *)

Overlay(w, c) == [f \in DOMAIN c |-> IF f \in DOMAIN w THEN w[f] ELSE c[f]]

\* Mutant: a spec without the state is not told from one with it.
StateAlways(s) == <<[state |-> s]>>

State(s) == IF s = None THEN <<>> ELSE <<[state |-> s]>>
Result(a, st, sdk) == <<[action |-> a, status |-> st, sdk |-> sdk]>>
Forget(s) == [state |-> s, action |-> None, status |-> None, sdk |-> FALSE]
Offer(a, p) == IF a = "plan-fix" THEN <<[plan |-> p]>> ELSE <<[drafts |-> p]>>
Baseline == <<[parked |-> TRUE]>>

Fresh(s) == [present |-> TRUE, state |-> s, action |-> None, status |-> None,
             sdk |-> FALSE, plan |-> None, drafts |-> None, session |-> None,
             parked |-> FALSE]

NoJob == [action |-> None, resumed |-> FALSE, approved |-> FALSE]

\* What is written once an approved plan, or drafts, have been handed over.
Executing(a) == Offer(a, "executing") \o Result(a, "running", FALSE)

\* What a thread still has to do when its dispatch returns.
Afterwards(j) == IF j.approved THEN Executing("plan-fix") ELSE <<>>
-----------------------------------------------------------------------------
(* What the threads see of the sessions.                                   *)

Alive == {"scheduled", "queued", "starting", "first", "stamped", "top",
          "idle", "again", "turn"}
Over  == {"closed", "failed"}   \* ended; after a restart, it is "gone"

Live(s)    == phase[s] \in Alive /\ s \notin closing
HasQueue(s) == phase[s] \in Alive \ {"scheduled"}

\* Mutant: a session parked for a follow-up does not count as live.
AnyLiveNotIdle == \E s \in Session : Live(s) /\ phase[s] # "idle"

AnyLive == \E s \in Session : Live(s)

Abort == "abort"

\* abort_sessions_for_item: flip the status, post the sentinel.
AbortAll ==
  LET targets == {s \in Session : Live(s) /\ HasQueue(s)}
  IN /\ closing' = closing \cup targets
     /\ inbox' = [s \in Session |-> IF s \in targets THEN Append(inbox[s], Abort)
                                                     ELSE inbox[s]]
     /\ UNCHANGED <<phase, doing>>

\* send_user_message to the session the card points at.
Reachable == card.session # None /\ Live(card.session) /\ HasQueue(card.session)
Post(text) == inbox' = [inbox EXCEPT ![card.session] = Append(@, text)]
-----------------------------------------------------------------------------
Init ==
  /\ card \in {Fresh(s) : s \in InitialStates}
  /\ todo = [x \in Request \cup Session |-> <<>>]
  /\ pc = [r \in Request |-> "idle"]
  /\ job = [r \in Request |-> NoJob]
  /\ phase = [s \in Session |-> None]
  /\ closing = {}
  /\ inbox = [s \in Session |-> <<>>]
  /\ doing = [s \in Session |-> NoJob]
  /\ snapshot = None
  /\ calls = 0
  /\ restarts = 0

\* _mutate: the next write of a thread or of a hook reaches the card, if the
\* card is still on the board.
Write(x) ==
  /\ todo[x] # <<>>
  /\ card' = IF card.present THEN Overlay(Head(todo[x]), card) ELSE card
  /\ todo' = [todo EXCEPT ![x] = Tail(@)]
  /\ UNCHANGED <<requestVars, sessionVars, snapshot, restarts>>
-----------------------------------------------------------------------------
(* The endpoints.  A thread takes a call when it has finished the last.    *)

Free(r) == pc[r] = "idle" /\ todo[r] = <<>>

Call(r, endpoint) ==
  /\ Free(r) /\ card.present
  /\ endpoint \in Endpoints
  /\ calls < MaxCalls
  /\ calls' = calls + 1
  /\ UNCHANGED <<snapshot, restarts>>

Return(r, writes) ==
  /\ todo' = [todo EXCEPT ![r] = writes]
  /\ pc' = [pc EXCEPT ![r] = "idle"]
  /\ job' = [job EXCEPT ![r] = NoJob]

Proceed(r, where, j, writes) ==
  /\ todo' = [todo EXCEPT ![r] = writes]
  /\ pc' = [pc EXCEPT ![r] = where]
  /\ job' = [job EXCEPT ![r] = j]

\* dispatch of skip or await-update: no session, and the live one is stopped.
ActInstant(r, a) ==
  /\ Call(r, "act")
  /\ a \in Action \cap Instant
  /\ AbortAll
  /\ Return(r, IF a = "await-update"
                 THEN State(Terminal(a)) \o Baseline \o Result(a, "parked", FALSE)
                 ELSE State(Terminal(a)) \o Result(a, "skipped", FALSE))
  /\ UNCHANGED card

\* dispatch of an action that has a skill.
Act(r, a) ==
  /\ Call(r, "act")
  /\ a \in Action \ Instant
  /\ Proceed(r, "guard", [action |-> a, resumed |-> FALSE, approved |-> FALSE], <<>>)
  /\ UNCHANGED <<card, sessionVars>>

\* Mutant: the fresh session for a plan is started without looking for a live one.
ApproveUnguarded(r) ==
  /\ Call(r, "approve")
  /\ card.plan = "proposed"
  /\ IF Reachable
       THEN /\ Post("approved") /\ Return(r, Executing("plan-fix"))
            /\ UNCHANGED <<phase, closing, doing>>
       ELSE /\ Proceed(r, "prepare",
                       [action |-> "plan-fix", resumed |-> FALSE, approved |-> TRUE], <<>>)
            /\ UNCHANGED sessionVars
  /\ UNCHANGED card

\* approve_plan: hand the plan to the live session of a proposed plan or, where
\* that is gone, dispatch a fresh one for it.
Approve(r) ==
  /\ Call(r, "approve")
  /\ card.plan = "proposed"
  /\ IF Reachable
       THEN /\ Post("approved") /\ Return(r, Executing("plan-fix"))
            /\ UNCHANGED <<phase, closing, doing>>
       ELSE /\ Proceed(r, "guard",
                       [action |-> "plan-fix", resumed |-> FALSE, approved |-> TRUE], <<>>)
            /\ UNCHANGED sessionVars
  /\ UNCHANGED card

\* approve_drafts: hand the replies to the live session or, where there is none,
\* post them from here.
PostDrafts(r) ==
  /\ Call(r, "post")
  /\ card.drafts = "proposed"
  /\ IF Reachable
       THEN /\ Post("approved") /\ Return(r, Executing("address-comments"))
            /\ UNCHANGED <<phase, closing, doing>>
       ELSE /\ Proceed(r, "posting", [action |-> "address-comments", resumed |-> FALSE,
                                     approved |-> FALSE], <<>>)
            /\ UNCHANGED sessionVars
  /\ UNCHANGED card

\* resume-live: nudge the live session.
Nudge(r) ==
  /\ Call(r, "nudge")
  /\ Reachable
  /\ Post("nudge")
  /\ UNCHANGED <<card, todo, pc, job, phase, closing, doing>>

\* continue_action: the last result names an action and an SDK session.  The
\* guard of dispatch is missing here, and a failure is left as it is.  The card
\* has a button for it when the last turn did not come to its end.
Resumption == [action |-> card.action, resumed |-> TRUE, approved |-> FALSE]
ResumeWrites ==
  State(InProgress(card.action)) \o Result(card.action, "queued", FALSE)

Continuable == card.action \notin Instant \cup {None} /\ card.sdk
Unfinished  == {"error", "needs_human", "interrupted"}

Continue(r) ==
  /\ Call(r, "continue")
  /\ Continuable /\ card.status \in Unfinished
  /\ Proceed(r, "prepare", Resumption, ResumeWrites)
  /\ UNCHANGED <<card, sessionVars>>

\* plan/discard, drafts/discard.
Discard(r) ==
  /\ Call(r, "discard")
  /\ \/ card.plan = "proposed" /\ Return(r, Offer("plan-fix", "discarded"))
     \/ card.drafts = "proposed" /\ Return(r, Offer("address-comments", "discarded"))
  /\ UNCHANGED <<card, sessionVars>>

\* retriage_item: back to triage, the last result forgotten.
Retriage(r) ==
  /\ Call(r, "retriage")
  /\ \E s \in InitialStates : Return(r, <<Forget(s)>>)
  /\ UNCHANGED <<card, sessionVars>>

\* delete, clear-done: stop its sessions and take the card off the board.
Delete(r) ==
  /\ Call(r, "delete")
  /\ AbortAll
  /\ Return(r, <<[present |-> FALSE]>>)
  /\ UNCHANGED card
-----------------------------------------------------------------------------
(* The rest of dispatch and continue_action, step by step.                 *)

\* The check for a live session of the card; the lock is released again before
\* anything is written.
Guard(r) ==
  /\ pc[r] = "guard"
  /\ IF AnyLive
       THEN Return(r, Afterwards(job[r]))
       ELSE Proceed(r, "prepare", job[r],
              State(InProgress(job[r].action)) \o Result(job[r].action, "queued", FALSE))
  /\ UNCHANGED <<card, sessionVars, snapshot, calls, restarts>>

\* The worktree and the remote to push to: both are there, or the branch cannot
\* be pushed to, or something raises.
Ready(r) == Proceed(r, "spawn", job[r], <<>>)

CannotPush(r) ==
  /\ job[r].action \in Pushing /\ ~job[r].resumed
  /\ Return(r, State(Failure(job[r].action))
               \o Result(job[r].action, "needs_human", FALSE) \o Afterwards(job[r]))

Raises(r) ==
  Return(r, IF job[r].resumed
              THEN <<>>
              ELSE State(Failure(job[r].action))
                   \o Result(job[r].action, "error", FALSE) \o Afterwards(job[r]))

Prepare(r) ==
  /\ pc[r] = "prepare" /\ todo[r] = <<>>
  /\ Ready(r) \/ CannotPush(r) \/ Raises(r)
  /\ UNCHANGED <<card, sessionVars, snapshot, calls, restarts>>

\* A session id that is not in use, whichever it be.
NextId == CHOOSE s \in Session : phase[s] = None

\* Mutant: the card is not pointed at its session.
SpawnUnpointed(r, s) ==
  /\ pc[r] = "spawn"
  /\ phase[s] = None /\ s = NextId
  /\ phase' = [phase EXCEPT ![s] = "scheduled"]
  /\ doing' = [doing EXCEPT ![s] = job[r]]
  /\ Return(r, Afterwards(job[r]))
  /\ UNCHANGED <<card, closing, inbox, snapshot, calls, restarts>>

\* start_session, then set_item_session_id.
Spawn(r, s) ==
  /\ pc[r] = "spawn"
  /\ phase[s] = None /\ s = NextId
  /\ phase' = [phase EXCEPT ![s] = "scheduled"]
  /\ doing' = [doing EXCEPT ![s] = job[r]]
  /\ Return(r, <<[session |-> s]>> \o Afterwards(job[r]))
  /\ UNCHANGED <<card, closing, inbox, snapshot, calls, restarts>>

\* The replies are posted one by one: all are, some are not, or one is marked to
\* be fixed anyway, for which a session is needed.
PostReplies(r) ==
  /\ pc[r] = "posting"
  /\ \/ Return(r, Offer("address-comments", "done") \o State("done")
                    \o Result("address-comments", Success, FALSE))
     \/ \E status \in {"error", "needs_human"} :
          Return(r, Offer("address-comments", "error")
                      \o Result("address-comments", status, FALSE))
  /\ UNCHANGED <<card, sessionVars, snapshot, calls, restarts>>
-----------------------------------------------------------------------------
(* The sessions.  The hooks run on the coroutine, so it goes on only when   *)
(* their writes are done; each assignment of a status undoes a "closing".   *)

Moves(s, from, to, writes) ==
  /\ phase[s] = from /\ todo[s] = <<>>
  /\ phase' = [phase EXCEPT ![s] = to]
  /\ todo' = [todo EXCEPT ![s] = writes]
  /\ UNCHANGED <<card, doing, requestVars, snapshot, restarts>>

StatusSet(s) == closing' = closing \ {s}

\* The coroutine runs: it has a queue now, and waits for a slot.
Begin(s) ==
  /\ Moves(s, "scheduled", "queued", <<>>)
  /\ StatusSet(s)
  /\ UNCHANGED inbox

\* It has a slot: on_started records that the action runs.
Start(s) ==
  /\ Moves(s, "queued", "starting", Result(doing[s].action, "running", FALSE))
  /\ StatusSet(s)
  /\ UNCHANGED inbox

\* The client is up, and the first turn begins.
FirstTurn(s) ==
  /\ Moves(s, "starting", "first", <<>>)
  /\ StatusSet(s)
  /\ UNCHANGED inbox

\* The first message of the turn names the SDK session, which is added to the
\* last result as it was read, in a write of its own.
Stamp(s) ==
  /\ Moves(s, "first", "stamped",
       IF card.present /\ card.action # None
         THEN Result(card.action, card.status, TRUE) ELSE <<>>)
  /\ UNCHANGED <<closing, inbox>>

\* Mutant: nudge-author parks the card without a baseline.
FirstHookUnstamped(j, outcome) ==
  LET recorded == Result(j.action, outcome, TRUE)
  IN CASE outcome = Success -> State(Terminal(j.action)) \o recorded
       [] outcome = "proposal" /\ j.action \in TwoPhase ->
            Offer(j.action, "proposed") \o recorded
       [] outcome = "needs_human" /\ ~j.resumed -> State(Failure(j.action)) \o recorded
       [] OTHER -> recorded

\* What _on_first_turn writes when the turn reports `outcome`.
FirstHook(j, outcome) ==
  LET recorded == Result(j.action, outcome, TRUE)
      parks    == j.action = "nudge-author" /\ ~j.resumed
  IN CASE outcome = Success ->
            State(Terminal(j.action)) \o (IF parks THEN Baseline ELSE <<>>) \o recorded
       [] outcome = "proposal" /\ j.action \in TwoPhase ->
            Offer(j.action, "proposed") \o recorded
       [] outcome = "needs_human" /\ ~j.resumed -> State(Failure(j.action)) \o recorded
       [] OTHER -> recorded

EndFirstTurn(s, outcome) ==
  /\ Moves(s, "stamped", "top", FirstHook(doing[s], outcome))
  /\ UNCHANGED <<closing, inbox>>

\* The follow-up loop: idle until a message or the sentinel comes.
Park(s) ==
  /\ Moves(s, "top", "idle", <<>>)
  /\ StatusSet(s)
  /\ UNCHANGED inbox

Take(s) ==
  /\ inbox[s] # <<>>
  /\ inbox' = [inbox EXCEPT ![s] = Tail(@)]
  /\ \/ /\ Head(inbox[s]) = Abort
        /\ Moves(s, "idle", "closed", <<>>)
        /\ UNCHANGED closing
     \/ /\ Head(inbox[s]) # Abort
        /\ Moves(s, "idle", "again", <<>>)
        /\ StatusSet(s)

NextTurn(s) ==
  /\ Moves(s, "again", "turn", <<>>)
  /\ StatusSet(s)
  /\ UNCHANGED inbox

\* What _on_turn_done writes: only a two-phase action that was not resumed has it,
\* and another proposal is not its business.
NextHook(j, outcome) ==
  LET recorded == Result(j.action, outcome, TRUE)
      settled  == State("done") \o Offer(j.action, "done")
  IN IF j.action \notin TwoPhase \/ j.resumed \/ outcome = "proposal" THEN <<>>
     ELSE (IF outcome = Success THEN settled ELSE <<>>) \o recorded

EndNextTurn(s, outcome) ==
  /\ Moves(s, "turn", "top", NextHook(doing[s], outcome))
  /\ UNCHANGED <<closing, inbox>>

\* The idle timeout.  A message may come too late to be read: the status says
\* idle until the client has disconnected.
IdleTimeout(s) ==
  /\ Moves(s, "idle", "closed", <<>>)
  /\ UNCHANGED <<closing, inbox>>

\* Connecting or a turn raises.  Nothing of it reaches the card.
Fail(s) ==
  /\ \E from \in {"starting", "first", "stamped", "turn"} : Moves(s, from, "failed", <<>>)
  /\ UNCHANGED <<closing, inbox>>

Coroutine(s) ==
  \/ Begin(s) \/ Start(s) \/ FirstTurn(s) \/ Stamp(s) \/ Park(s)
  \/ Take(s) \/ NextTurn(s) \/ IdleTimeout(s) \/ Fail(s)
  \/ \E outcome \in Outcomes : EndFirstTurn(s, outcome) \/ EndNextTurn(s, outcome)
-----------------------------------------------------------------------------
(* The refresh, the intake and a restart.                                  *)

\* Mutant: the recovery of executing plans is left out.
RefreshedNoRecovery(recover, differs, stale, initial) ==
  CASE card.state = "awaiting update" ->
         IF card.parked /\ differs
           THEN Overlay([parked |-> FALSE], Overlay(Forget(initial), card)) ELSE card
    [] card.state = "done" /\ stale -> Overlay(Forget(initial), card)
    [] OTHER -> card

Again(offer) == IF offer = "executing" THEN "proposed" ELSE offer
Recovered == [card EXCEPT !.plan = Again(@), !.drafts = Again(@)]

\* What _refresh_existing_items makes of the card: a plan, or drafts, executing
\* without a live session are proposed again, a parked card whose signals differ from its
\* baseline is unparked, and a done card touched since its triage is demoted.
\* (`recover` is FALSE in refresh_one_item, which leaves them alone.)
Refreshed(recover, differs, stale, initial) ==
  LET c == IF recover THEN Recovered ELSE card
  IN CASE c.state = "awaiting update" ->
            IF c.parked /\ differs
              THEN Overlay([parked |-> FALSE], Overlay(Forget(initial), c)) ELSE c
       [] c.state = "done" /\ stale -> Overlay(Forget(initial), c)
       [] OTHER -> c

\* What the pull request turns out to be is arbitrary.
Refreshes(recover) ==
  {Refreshed(recover, differs, stale, initial) :
     differs \in BOOLEAN, stale \in BOOLEAN, initial \in InitialStates}

\* Which items have a live action session is looked up first ...
RefreshLooks ==
  /\ snapshot = None
  /\ snapshot' = IF AnyLive THEN "live" ELSE "dead"
  /\ UNCHANGED <<card, todo, requestVars, sessionVars, restarts>>

\* ... and the items are brought up to date later, under the lock.
RefreshApplies ==
  /\ snapshot # None
  /\ snapshot' = None
  /\ card' \in IF card.present THEN Refreshes(snapshot = "dead") ELSE {card}
  /\ UNCHANGED <<todo, requestVars, sessionVars, restarts>>

\* refresh_one_item.
RefreshOne ==
  /\ card.present
  /\ card' \in Refreshes(FALSE)
  /\ UNCHANGED <<todo, requestVars, sessionVars, snapshot, restarts>>

\* run_queue brings a deleted card back while it is in the upstream feed.
Readd ==
  /\ ~card.present
  /\ card' \in {Fresh(s) : s \in InitialStates}
  /\ UNCHANGED <<todo, requestVars, sessionVars, snapshot, restarts>>

\* Mutant: the sweep looks for running actions only.
SweptRunningOnly(initial) ==
  LET c == Overlay([session |-> None], card)
  IN IF c.status = "running"
       THEN Overlay([state |-> initial, status |-> "interrupted"], c) ELSE c

\* _sweep_stale_session_state: an action that was under way is interrupted.
Swept(initial) ==
  LET c == Overlay([session |-> None], card)
  IN IF c.status \in Pending
       THEN Overlay([state |-> initial, status |-> "interrupted"], c) ELSE c

\* The server stops at any point and starts again: threads and sessions are
\* lost, the card is swept, and what was interrupted may be continued.
Restart(resume) ==
  /\ restarts < MaxRestarts
  /\ restarts' = restarts + 1
  /\ phase' = [s \in Session |-> IF phase[s] = None THEN None ELSE "gone"]
  /\ inbox' = [s \in Session |-> <<>>]
  /\ closing' = {}
  /\ snapshot' = None
  /\ \E initial \in InitialStates : card' = IF card.present THEN Swept(initial) ELSE card
  /\ \/ /\ resume = None
        /\ todo' = [x \in DOMAIN todo |-> <<>>]
        /\ pc' = [r \in Request |-> "idle"]
        /\ job' = [r \in Request |-> NoJob]
     \/ /\ resume \in Request /\ "continue" \in Endpoints
        /\ card.present /\ card.status \in Pending /\ Continuable
        /\ todo' = [x \in DOMAIN todo |-> IF x = resume THEN ResumeWrites ELSE <<>>]
        /\ pc' = [r \in Request |-> IF r = resume THEN "prepare" ELSE "idle"]
        /\ job' = [r \in Request |-> IF r = resume THEN Resumption ELSE NoJob]
  /\ UNCHANGED <<doing, calls>>
-----------------------------------------------------------------------------
Endpoint(r) ==
  \/ \E a \in Action : ActInstant(r, a) \/ Act(r, a)
  \/ Approve(r) \/ PostDrafts(r) \/ Nudge(r) \/ Continue(r) \/ Discard(r) \/ Retriage(r)
  \/ Delete(r)

Thread(r) == Guard(r) \/ Prepare(r) \/ PostReplies(r) \/ \E s \in Session : Spawn(r, s)

Next ==
  \/ \E x \in Request \cup Session : Write(x)
  \/ \E r \in Request : Endpoint(r) \/ Thread(r)
  \/ \E s \in Session : Coroutine(s)
  \/ RefreshLooks \/ RefreshApplies \/ RefreshOne \/ Readd
  \/ \E resume \in Request \cup {None} : Restart(resume)

Spec == Init /\ [][Next]_vars

\* A thread finishes its call, a coroutine ends its turn or its idle time, and
\* the auto-refresh ticks.  No user has to act, and no server has to restart.
Fairness ==
  /\ \A r \in Request : WF_vars(Write(r) \/ Thread(r))
  /\ \A s \in Session : WF_vars(Write(s) \/ Coroutine(s))
  /\ WF_vars(RefreshLooks \/ RefreshApplies)

FairSpec == Spec /\ Fairness
-----------------------------------------------------------------------------
(* Properties.                                                             *)

ResultStatuses == Outcomes \cup {"queued", "running", "parked", "skipped", "interrupted"}

Offers == {"proposed", "executing", "done", "discarded", "error"}

Jobs == [action : Actions \cup {None}, resumed : BOOLEAN, approved : BOOLEAN]

Cards == [present : BOOLEAN, state : QueueStates \cup {FailureState},
          action : Actions \cup {None}, status : ResultStatuses \cup {None},
          sdk : BOOLEAN, plan : Offers \cup {None}, drafts : Offers \cup {None},
          session : Session \cup {None}, parked : BOOLEAN]

\* The partial records that are ever written.
Writes ==
  UNION {[state : QueueStates \cup {FailureState}],
         [action : Actions, status : ResultStatuses \cup {None}, sdk : BOOLEAN],
         [state : InitialStates, action : {None}, status : {None}, sdk : {FALSE}],
         [plan : Offers], [drafts : Offers], [parked : {TRUE}], [session : Session],
         [present : {FALSE}]}

RequestsOK ==
  /\ pc \in [Request -> {"idle", "guard", "prepare", "spawn", "posting"}]
  /\ job \in [Request -> Jobs]

SessionsOK ==
  /\ phase \in [Session -> Alive \cup Over \cup {None, "gone"}]
  /\ closing \subseteq Session
  /\ inbox \in [Session -> Seq({Abort, "approved", "nudge"})]
  /\ doing \in [Session -> Jobs]

\* Every variable keeps its type.
TypeOK ==
  /\ card \in Cards
  /\ todo \in [Request \cup Session -> Seq(Writes)]
  /\ RequestsOK /\ SessionsOK
  /\ snapshot \in {None, "live", "dead"}
  /\ calls \in Nat /\ restarts \in Nat

Aborted(s) == s \in closing \/ \E i \in DOMAIN inbox[s] : inbox[s][i] = Abort

\* The sessions that nobody has asked to stop.
Wanted == {s \in Session : phase[s] \in Alive /\ ~Aborted(s)}

\* What dispatch says of its guard (actions.py:891): "at most one live action
\* session per item".  Those already told to stop are not counted.
OneLiveSession == Cardinality(Wanted) <= 1

\* The same of the sessions that dispatch itself starts, for an action or for an
\* approved plan: continue_action, which has no guard, does not count.
OneDispatched == Cardinality({s \in Wanted : ~doing[s].resumed}) <= 1

\* ... since a second one "would otherwise orphan the first": once a thread has
\* returned, the card's chat button leads to the session that is live.
NoOrphan ==
  card.present /\ (\A r \in Request : Free(r))
    => \A s \in Wanted : doing[s].action # None /\ card.session = s

\* Nothing is written or dispatched at the moment.
AtRest == /\ \A r \in Request : Free(r)
          /\ \A s \in Session : todo[s] = <<>>

\* A card that says its action is queued or running has a session of this
\* process that will say otherwise, or one that died of an exception: an action
\* lost in a restart, at whatever point, is never shown as under way.
RunningHasSession ==
  card.present /\ card.status \in Pending /\ AtRest
    => \E s \in Session : phase[s] \in Alive \cup {"failed"}

\* The jobs that park the card and stamp nothing: every parking action with a session
\* but nudge-author, and nudge-author when it is continued.
ParksUnwatched(j) ==
  j.action \in Parking /\ (j.action = "nudge-author" => j.resumed)

\* The sessions that have come to the end of their first turn, or beyond.
PastFirstTurn == {s \in Session : phase[s] \in {"top", "idle", "again", "turn"} \cup Over}

\* A card is parked "so the refresh loop auto-unparks it once the PR author acts"
\* (actions.py:1097-1099), and "the external signal the user was waiting on"
\* (runner.py:181-183) is looked for in every card that awaits an update: it takes the
\* baseline.  The sessions above are the only way to a card that lacks it, and waits for
\* ever: where none of them has come to the end of its turn, a parked card has its
\* baseline, however parking, refreshing, triaging again and the hooks of earlier
\* sessions interleave.  (A restart between the two writes does lose it.)
UnwatchedHasCause ==
  card.present /\ card.state = "awaiting update" /\ AtRest /\ restarts = 0
    => card.parked \/ \E s \in PastFirstTurn : ParksUnwatched(doing[s])

\* A plan in execution is done in the end, or is offered again, and so are replies
\* that a session is to post: that session may time out, fail, be aborted or be
\* lost in a restart, or be one that knows nothing of them (runner.py:210-213, "so
\* the card surfaces the approve-and-run button again").
OfferUnsticks ==
  /\ (card.present /\ card.plan = "executing") ~> ~(card.present /\ card.plan = "executing")
  /\ (card.present /\ card.drafts = "executing")
       ~> ~(card.present /\ card.drafts = "executing")
=============================================================================
