------------------------------ MODULE Refresh ------------------------------
(***************************************************************************)
(* A queue of cards and the pull requests behind them: run_queue and what  *)
(* it calls, refresh_one_item, retriage_item and the triage threads        *)
(* (repobot/runner.py), with the fetchers they use (repobot/github.py).    *)
(*                                                                         *)
(* A fetch takes time.  What it brought is applied later, to cards that    *)
(* other threads have changed in the meantime, and a triage that was       *)
(* started on a card writes its verdict when it is done, whatever has      *)
(* happened to the card.  Only a single _mutate of the board is atomic.    *)
(*                                                                         *)
(* A pull request is kept to what its copy on a card is compared by: the   *)
(* time of its last update, and the signals that matter.  GitHub is taken  *)
(* at the code's word: no signal changes without an update.                *)
(*                                                                         *)
(* The feed is what the search of the queue lists: of what matches it, the *)
(* first `limit` in its order.  Which these are may change with any        *)
(* update.  A queue may also look only at what needs attention.            *)
(***************************************************************************)
EXTENDS Integers, FiniteSets

CONSTANTS
  PR,           \* the pull requests the queue may be about
  AttentionOnly,  \* whether its fetcher leaves out what needs no attention
  Runner,       \* the threads that call run_queue, again and again
  Caller,       \* the threads that serve Update and Retriage of one card
  Worker,       \* bound: triage threads, with their sessions, at one time
  Contents,     \* what a pull request may look like: CI verdict, open threads
  MaxInFlight,  \* max_in_flight of the queue
  WorkerSlots,  \* worker_slots of the queue
  MaxUpdates,   \* bound: events upstream
  MaxMoves,     \* bound: moves and deletions of cards
  MaxCalls      \* bound: calls on single cards

None == "none"
Verdicts == {"passing", "failing", "pending"}

ASSUME RefreshAssumption ==
  /\ IsFiniteSet(PR) /\ IsFiniteSet(Worker)
  /\ None \notin PR /\ AttentionOnly \in BOOLEAN
  /\ Contents \subseteq [ci : Verdicts, threads : BOOLEAN]
  /\ MaxInFlight \in Nat /\ WorkerSlots \in Nat
  /\ MaxUpdates \in Nat /\ MaxMoves \in Nat /\ MaxCalls \in Nat

VARIABLES
  clock,     \* the time: it advances with every event upstream
  upstream,  \* the pull requests, as GitHub has them
  feed,      \* those the search lists
  past,      \* history: every state a pull request has been in
  card,      \* the board
  run,       \* the run_queue of a runner, its locals
  call,      \* the call a caller serves, its locals
  triage,    \* the triage threads: how far, on which card
  aborted,   \* those whose session is over or told to stop
  moves,     \* bound counter
  calls      \* bound counter

boardVars  == <<card, moves, calls>>
githubVars == <<clock, upstream, feed, past>>
triageVars == <<triage, aborted>>
vars == <<githubVars, boardVars, run, call, triageVars>>
-----------------------------------------------------------------------------
(* The copy of a pull request: `raw` of a card.                            *)

Initial == "in triage"
States == {None, Initial, "in progress", "awaiting update", "done"}

NoRaw == [at |-> 0, head |-> 0, ci |-> "passing", threads |-> FALSE, merge |-> None]

\* The combined GraphQL call brings everything, as of its own time; the time
\* of the update is the one the list had.
Hydrated(at, u) == [at |-> at, head |-> u.head, ci |-> u.ci, threads |-> u.threads,
                    merge |-> "known"]

\* Where it raises, the card gets the list's fields and empty ones.
Unhydrated(at) == [at |-> at, head |-> 0, ci |-> "passing", threads |-> FALSE,
                   merge |-> "unknown"]

\* fetch_one_pr has the checks, and none of the other signals.
Single(u) == [at |-> u.at, head |-> 0, ci |-> u.ci, threads |-> FALSE, merge |-> None]

\* _carry_prior_hydrate: the fields it names do not include the head's.
Carried(raw) == [raw EXCEPT !.head = 0]

\* The attention filter of fetch_my_prs, and of `attention_only: true`.  Conflicts,
\* which need attention too, are left out: threads stand for them.
LeftOut(raw) == AttentionOnly /\ raw.ci # "failing" /\ ~raw.threads

\* Mutant: whatever the card has is carried forward.
FetchedCarries(prior, at, u) ==
  IF prior.at # 0 THEN {[Carried(prior) EXCEPT !.at = at]}
                  ELSE {Hydrated(at, u), Unhydrated(at)}

\* What the fetch may bring for a pull request listed with that time, given the
\* copy that the runner had when it began: one that was not updated is not
\* asked for again.
Fetched(prior, at, u) ==
  IF prior.at = at THEN {Carried(prior)} ELSE {Hydrated(at, u), Unhydrated(at)}

\* park_signals.
Signals(raw) == [head |-> raw.head, ci |-> raw.ci, threads |-> raw.threads,
                 merge |-> raw.merge]
-----------------------------------------------------------------------------
(* Cards.                                                                  *)

\* `triaged` is triaged_at, 0 without a verdict.  A card that is parked has the
\* signals it was parked on.
NoCard == [state |-> None, raw |-> NoRaw, triaged |-> 0, baseline |-> Signals(NoRaw),
           parkedOn |-> 0]

New(raw) == [NoCard EXCEPT !.state = Initial, !.raw = raw]

OnBoard(p) == card[p].state # None

Stale(c, at) == c.triaged # 0 /\ at > c.triaged

\* What should_unpark, or the times, say of a card when fresh data is there.
Noticed(c, raw) ==
  IF c.state = "awaiting update" THEN Signals(raw) # c.baseline ELSE Stale(c, raw.at)

\* A card that starts over.
Back(c, raw) == [c EXCEPT !.raw = raw, !.state = Initial, !.triaged = 0]

\* set_item_state and set_item_parked_at, and back.
Parked(c) == [c EXCEPT !.state = "awaiting update", !.baseline = Signals(c.raw),
                       !.parkedOn = c.raw.at]

Unparked(c, raw) == [Back(c, raw) EXCEPT !.baseline = NoCard.baseline, !.parkedOn = 0]

\* Mutant: a done card that is stale is left where it is, as is its verdict.
RefreshedSparesDone(c, raw) ==
  CASE ~Noticed(c, raw) \/ c.state = "done" -> [c EXCEPT !.raw = raw]
    [] Noticed(c, raw) /\ c.state = "awaiting update" -> Unparked(c, raw)
    [] OTHER -> [c EXCEPT !.raw = raw, !.triaged = 0]

\* _refresh_existing_items and refresh_one_item, for a card and fresh data: the
\* data is stored, and where something is noticed the verdict is forgotten, and
\* a parked or done card goes back to be triaged.
Refreshed(c, raw) ==
  CASE ~Noticed(c, raw) -> [c EXCEPT !.raw = raw]
    [] Noticed(c, raw) /\ c.state = "awaiting update" -> Unparked(c, raw)
    [] Noticed(c, raw) /\ c.state = "done" -> Back(c, raw)
    [] OTHER -> [c EXCEPT !.raw = raw, !.triaged = 0]

\* A card that was parked or done, and is back in triage.
Demoted(c, d) == c.state \in {"awaiting update", "done"} /\ d.state = Initial

NonDone == {p \in PR : card[p].state \notin {None, "done", "awaiting update"}}
-----------------------------------------------------------------------------
(* The triage threads and their sessions.                                  *)

NoTriage == [phase |-> "free", pr |-> None]

Free == {w \in Worker : triage[w].phase = "free"}

\* _items_with_live_triage: an idle session counts, one not registered yet
\* does not.
WithSession == {w \in Worker : triage[w].phase \in {"live", "answered", "idle"}}
LiveTriage  == {triage[w].pr : w \in WithSession \ aborted}

AbortTriage(ps) == aborted \cup {w \in WithSession : triage[w].pr \in ps}

Started(p) == [phase |-> "started", pr |-> p]

\* What makes a card ready to be triaged.
Waiting(p) == card[p].state = Initial /\ card[p].triaged = 0 /\ p \notin LiveTriage
-----------------------------------------------------------------------------
Idle == [pc |-> "idle", prior |-> [p \in PR |-> NoRaw], slots |-> 0,
         fetched |-> [p \in PR |-> NoRaw], picked |-> {}]

NoCall == [pc |-> "idle", pr |-> None, raw |-> NoRaw]

Init ==
  /\ clock = 1
  /\ \E f \in [PR -> Contents] :
       upstream = [p \in PR |-> [at |-> 1, head |-> 1, ci |-> f[p].ci,
                                 threads |-> f[p].threads]]
  /\ feed \in SUBSET PR
  /\ past = [p \in PR |-> {upstream[p]}]
  /\ card = [p \in PR |-> NoCard]
  /\ run = [r \in Runner |-> Idle]
  /\ call = [c \in Caller |-> NoCall]
  /\ triage = [w \in Worker |-> NoTriage]
  /\ aborted = {}
  /\ moves = 0
  /\ calls = 0

\* Somebody works on a pull request: a commit or a comment, a verdict of the
\* CI, a thread, or a label that is no signal at all.  Each is an update, and may
\* change what the search lists, of this pull request or, by its limit, another.
Update(p) ==
  /\ clock <= MaxUpdates
  /\ clock' = clock + 1
  /\ \E c \in Contents, n \in {0, 1} :
       upstream' = [upstream EXCEPT ![p] =
         [at |-> clock + 1, head |-> @.head + n, ci |-> c.ci, threads |-> c.threads]]
  /\ past' = [past EXCEPT ![p] = @ \cup {upstream'[p]}]
  /\ feed' \in SUBSET PR
  /\ UNCHANGED <<boardVars, run, call, triageVars>>
-----------------------------------------------------------------------------
(* run_queue with refresh_existing.                                        *)

Min2(m, n) == IF m < n THEN m ELSE n
Places(limit, taken) == IF taken < limit THEN limit - taken ELSE 0

\* The board is loaded, and the free places of the queue are counted.
Begin(r) ==
  /\ run[r].pc = "idle"
  /\ run' = [run EXCEPT ![r] =
       [Idle EXCEPT !.pc = "list",
          !.prior = [p \in PR |-> card[p].raw],
          !.slots = Places(MaxInFlight, Cardinality(NonDone))]]
  /\ UNCHANGED <<githubVars, boardVars, call, triageVars>>

\* The feed is listed, and then each pull request of it is asked for in turn: the
\* answers are newer than the list.
List(r) ==
  /\ run[r].pc = "list"
  /\ run' = [run EXCEPT ![r] =
       [@ EXCEPT !.pc = IF feed = {} THEN "apply" ELSE "hydrate",
          !.picked = PR \ feed,
          !.fetched = [p \in PR |-> IF p \in feed THEN [NoRaw EXCEPT !.at = upstream[p].at]
                                                 ELSE NoRaw]]]
  /\ UNCHANGED <<githubVars, boardVars, call, triageVars>>

\* The list may fail, and the run with it.
ListFails(r) ==
  /\ run[r].pc = "list"
  /\ run' = [run EXCEPT ![r] = Idle]
  /\ UNCHANGED <<githubVars, boardVars, call, triageVars>>

Answered(s, p, raw) ==
  [s EXCEPT !.fetched = [@ EXCEPT ![p] = raw], !.picked = @ \cup {p},
            !.pc = IF s.picked \cup {p} = PR THEN "apply" ELSE "hydrate"]

\* One that needs no attention is dropped, whether it was asked for or carried.
Take(r, p, raw) ==
  /\ run[r].pc = "hydrate" /\ p \notin run[r].picked
  /\ run' = [run EXCEPT ![r] = Answered(run[r], p, IF LeftOut(raw) THEN NoRaw ELSE raw)]
  /\ UNCHANGED <<githubVars, boardVars, call, triageVars>>

Hydrate(r, p) ==
  \E raw \in Fetched(run[r].prior[p], run[r].fetched[p].at, upstream[p]) : Take(r, p, raw)

\* GitHub answers.
HydrateWell(r, p) ==
  /\ run[r].prior[p].at # run[r].fetched[p].at
  /\ Take(r, p, Hydrated(run[r].fetched[p].at, upstream[p]))

Brought(r) == {p \in PR : run[r].fetched[p].at # 0}

\* Every card on the board of which the fetch brought something is brought up to
\* date, in one write.
Apply(r) ==
  /\ run[r].pc = "apply"
  /\ card' = [p \in PR |-> IF OnBoard(p) /\ p \in Brought(r)
                             THEN Refreshed(card[p], run[r].fetched[p])
                             ELSE card[p]]
  /\ LET demoted == {p \in PR : Demoted(card[p], card'[p])}
     IN run' = [run EXCEPT ![r] =
          [@ EXCEPT !.pc = IF demoted = {} THEN "intake" ELSE "abort",
                    !.prior = Idle.prior, !.picked = demoted]]
  /\ UNCHANGED <<githubVars, moves, calls, call, triageVars>>

\* The triage sessions of those that came back are told to stop.
AbortDemoted(r) ==
  /\ run[r].pc = "abort"
  /\ aborted' = AbortTriage(run[r].picked)
  /\ run' = [run EXCEPT ![r] = [@ EXCEPT !.pc = "intake", !.picked = {}]]
  /\ UNCHANGED <<githubVars, boardVars, call, triage>>

\* The intake picks as many of the settled newcomers as there were places.
Pick(r) ==
  LET fresh == {p \in Brought(r) : ~OnBoard(p) /\ run[r].fetched[p].ci # "pending"}
  IN /\ run[r].pc = "intake"
     /\ \E ps \in SUBSET fresh :
          /\ Cardinality(ps) = Min2(Cardinality(fresh), run[r].slots)
          /\ run' = [run EXCEPT ![r] =
               IF ps = {} THEN [Idle EXCEPT !.pc = "fanout"]
                          ELSE [@ EXCEPT !.pc = "upsert", !.picked = ps]]
     /\ UNCHANGED <<githubVars, boardVars, call, triageVars>>

\* upsert_items: one that another run has added by now gets its data only.
Upsert(r) ==
  /\ run[r].pc = "upsert"
  /\ card' = [p \in PR |->
       LET raw == run[r].fetched[p]
       IN IF p \notin run[r].picked THEN card[p]
            ELSE IF OnBoard(p) THEN [card[p] EXCEPT !.raw = raw] ELSE New(raw)]
  /\ run' = [run EXCEPT ![r] = [Idle EXCEPT !.pc = "fanout"]]
  /\ UNCHANGED <<githubVars, moves, calls, call, triageVars>>

\* The fan-out: a thread per card that waits, within the queue's worker slots.
FanOut(r) ==
  LET waiting == {p \in PR : Waiting(p)}
      n == Min2(Cardinality(waiting), Places(WorkerSlots, Cardinality(LiveTriage)))
  IN /\ run[r].pc = "fanout"
     /\ \E ps \in SUBSET waiting, ws \in SUBSET Free :
          /\ Cardinality(ps) = n /\ Cardinality(ws) = n
          /\ \E f \in [ws -> ps] :
               /\ \A p \in ps : \E w \in ws : f[w] = p
               /\ triage' = [w \in Worker |-> IF w \in ws THEN Started(f[w]) ELSE triage[w]]
     /\ run' = [run EXCEPT ![r] = Idle]
     /\ UNCHANGED <<githubVars, boardVars, call, aborted>>

RunQueue(r) ==
  \/ Begin(r) \/ Apply(r) \/ AbortDemoted(r) \/ Pick(r) \/ Upsert(r) \/ FanOut(r)
  \/ \E p \in PR : Hydrate(r, p)
-----------------------------------------------------------------------------
(* _triage_one, in a thread, and its session.                              *)

Moves(w, from, to) ==
  /\ triage[w].phase = from
  /\ triage' = [triage EXCEPT ![w].phase = to]
  /\ UNCHANGED <<githubVars, run, call>>

\* The menu is computed from the card's data, and the session is registered.
Register(w) ==
  /\ Moves(w, "started", "live")
  /\ UNCHANGED <<boardVars, aborted>>

\* The first turn ends; a session that raised is over.
Answer(w) ==
  /\ Moves(w, "live", "answered")
  /\ aborted' \in {aborted, aborted \cup {w}}
  /\ UNCHANGED boardVars

\* Mutant: a session that failed leaves no verdict.
RecordIfDone(w) ==
  /\ Moves(w, "answered", "idle")
  /\ card' = [card EXCEPT ![triage[w].pr] =
       IF @.state = None \/ w \in aborted THEN @ ELSE [@ EXCEPT !.triaged = clock]]
  /\ UNCHANGED <<moves, calls, aborted>>

\* Mutant: the verdict is written wherever the card went.
RecordAnyway(w) ==
  /\ Moves(w, "answered", "idle")
  /\ card' = [card EXCEPT ![triage[w].pr].triaged = clock]
  /\ UNCHANGED <<moves, calls, aborted>>

\* set_triage; a session that failed leaves that as its verdict.
Record(w) ==
  /\ Moves(w, "answered", "idle")
  /\ card' = [card EXCEPT ![triage[w].pr] =
       IF @.state = None THEN @ ELSE [@ EXCEPT !.triaged = clock]]
  /\ UNCHANGED <<moves, calls, aborted>>

\* Idle for too long, or told to stop.
Expire(w) ==
  /\ triage[w].phase = "idle"
  /\ triage' = [triage EXCEPT ![w] = NoTriage]
  /\ aborted' = aborted \ {w}
  /\ UNCHANGED <<githubVars, boardVars, run, call>>

Triager(w) == Register(w) \/ Answer(w) \/ Record(w) \/ Expire(w)
-----------------------------------------------------------------------------
(* Calls on a single card.                                                 *)

Serve(c, p, next) ==
  /\ call[c].pc = "idle" /\ OnBoard(p)
  /\ calls < MaxCalls
  /\ calls' = calls + 1
  /\ call' = [call EXCEPT ![c] = next]
  /\ UNCHANGED <<githubVars, card, moves, run, triage>>

\* refresh_one_item fetches the pull request ...
RefreshCall(c, p) ==
  /\ Serve(c, p, [pc |-> "apply", pr |-> p, raw |-> Single(upstream[p])])
  /\ UNCHANGED aborted

\* ... applies it, and says whether there was something to notice ...
ApplyOne(c) ==
  /\ call[c].pc = "apply"
  /\ LET p == call[c].pr
         raw == call[c].raw
     IN IF OnBoard(p)
          THEN /\ card' = [card EXCEPT ![p] = Refreshed(@, raw)]
               /\ call' = [call EXCEPT ![c] =
                    IF ~Noticed(card[p], raw) THEN NoCall
                      ELSE [@ EXCEPT !.raw = NoRaw,
                              !.pc = IF Demoted(card[p], card'[p]) THEN "stop" ELSE "start"]]
          ELSE /\ call' = [call EXCEPT ![c] = NoCall]
               /\ UNCHANGED card
  /\ UNCHANGED <<githubVars, moves, calls, run, triageVars>>

\* ... stops the triage of one that came back ...
StopTriage(c) ==
  /\ call[c].pc = "stop"
  /\ aborted' = AbortTriage({call[c].pr})
  /\ call' = [call EXCEPT ![c] = [@ EXCEPT !.pc = "start"]]
  /\ UNCHANGED <<githubVars, boardVars, run, triage>>

\* ... and starts a triage where the card waits for one.
StartIfWaiting(c) ==
  /\ call[c].pc = "start"
  /\ IF Waiting(call[c].pr)
       THEN \E w \in Free : triage' = [triage EXCEPT ![w] = Started(call[c].pr)]
       ELSE UNCHANGED triage
  /\ call' = [call EXCEPT ![c] = NoCall]
  /\ UNCHANGED <<githubVars, boardVars, run, aborted>>

\* retriage_item: stop the triage, and fetch the pull request, if that works ...
RetriageCall(c, p) ==
  /\ \E raw \in {Single(upstream[p]), NoRaw} :
       Serve(c, p, [pc |-> "reset", pr |-> p, raw |-> raw])
  /\ aborted' = AbortTriage({p})

\* ... forget the verdict ...
Reset(c) ==
  /\ call[c].pc = "reset"
  /\ card' = [card EXCEPT ![call[c].pr] =
       IF @.state = None THEN @
         ELSE Back(@, IF call[c].raw = NoRaw THEN @.raw ELSE call[c].raw)]
  /\ call' = [call EXCEPT ![c] = [@ EXCEPT !.pc = "restart", !.raw = NoRaw]]
  /\ UNCHANGED <<githubVars, moves, calls, run, triageVars>>

\* ... and start another triage, in any case.
StartAnyway(c) ==
  /\ call[c].pc = "restart"
  /\ IF OnBoard(call[c].pr)
       THEN \E w \in Free : triage' = [triage EXCEPT ![w] = Started(call[c].pr)]
       ELSE UNCHANGED triage
  /\ call' = [call EXCEPT ![c] = NoCall]
  /\ UNCHANGED <<githubVars, boardVars, run, aborted>>

Serves(c) ==
  ApplyOne(c) \/ StopTriage(c) \/ StartIfWaiting(c) \/ Reset(c) \/ StartAnyway(c)

\* An action moves the card; parking takes the baseline the refresh compares
\* with, and stops the card's sessions.  Actions.tla has the steps of it.
Move(p, state) ==
  /\ OnBoard(p) /\ moves < MaxMoves
  /\ moves' = moves + 1
  /\ card' = [card EXCEPT ![p] =
       IF state = "awaiting update" THEN Parked(@) ELSE [@ EXCEPT !.state = state]]
  /\ aborted' = IF state = "awaiting update" THEN AbortTriage({p}) ELSE aborted
  /\ UNCHANGED <<githubVars, calls, run, call, triage>>

Delete(p) ==
  /\ OnBoard(p) /\ moves < MaxMoves
  /\ moves' = moves + 1
  /\ card' = [card EXCEPT ![p] = NoCard]
  /\ aborted' = AbortTriage({p})
  /\ UNCHANGED <<githubVars, calls, run, call, triage>>
-----------------------------------------------------------------------------
Next ==
  \/ \E p \in PR : Update(p) \/ Delete(p)
  \/ \E p \in PR, s \in States \ {None, Initial} : Move(p, s)
  \/ \E r \in Runner : RunQueue(r) \/ List(r) \/ ListFails(r)
  \/ \E w \in Worker : Triager(w)
  \/ \E c \in Caller, p \in PR : RefreshCall(c, p) \/ RetriageCall(c, p)
  \/ \E c \in Caller : Serves(c)

Spec == Init /\ [][Next]_vars

\* The auto-refresh ticks for ever, and neither its list nor its hydration of a
\* pull request fails for ever; threads go on; a turn ends and an idle session times
\* out.  No user has to act.
Fairness ==
  /\ \A r \in Runner : WF_vars(RunQueue(r)) /\ SF_vars(List(r))
  /\ \A r \in Runner, p \in PR : SF_vars(HydrateWell(r, p))
  /\ \A w \in Worker : WF_vars(Triager(w))
  /\ \A c \in Caller : WF_vars(Serves(c))

FairSpec == Spec /\ Fairness
-----------------------------------------------------------------------------
(* Properties.                                                             *)

Merges == {None, "known", "unknown"}
Raws == [at : Nat, head : Nat, ci : Verdicts, threads : BOOLEAN, merge : Merges]
Versions == [at : Nat, head : Nat, ci : Verdicts, threads : BOOLEAN]
Marks == [head : Nat, ci : Verdicts, threads : BOOLEAN, merge : Merges]

Cards == [state : States, raw : Raws, triaged : Nat, baseline : Marks, parkedOn : Nat]

Runs == [pc : {"idle", "list", "hydrate", "apply", "abort", "intake", "upsert", "fanout"},
         prior : [PR -> Raws], slots : Nat, fetched : [PR -> Raws], picked : SUBSET PR]

Calls == [pc : {"idle", "apply", "stop", "start", "reset", "restart"}, pr : PR \cup {None},
          raw : Raws]

Triages == [phase : {"free", "started", "live", "answered", "idle"}, pr : PR \cup {None}]

\* Every variable keeps its type, a thread that is busy has a card, and nothing
\* is left of a card that was deleted.
TypeOK ==
  /\ clock \in Nat /\ moves \in Nat /\ calls \in Nat
  /\ upstream \in [PR -> Versions]
  /\ past \in [PR -> SUBSET Versions] /\ feed \subseteq PR
  /\ card \in [PR -> Cards]
  /\ \A p \in PR : card[p].state = None => card[p] = NoCard
  /\ run \in [Runner -> Runs]
  /\ call \in [Caller -> Calls]
  /\ \A c \in Caller : call[c].pc # "idle" => call[c].pr \in PR
  /\ triage \in [Worker -> Triages]
  /\ \A w \in Worker : triage[w].phase # "free" => triage[w].pr \in PR
  /\ aborted \subseteq Worker

NotBehind(p, raw) ==
  raw.merge = "known" =>
    \E u \in past[p] : u.at >= raw.at /\ u.ci = raw.ci /\ u.threads = raw.threads

\* "Quiet PR - no signal could have changed since last tick" (github.py:497): a
\* copy that was hydrated once and carried forward since, through any number of
\* runs that overlap, never shows less than its pull request did at the time
\* the copy bears: that time can be trusted to tell whether it is stale.
CopyNotBehind == \A p \in PR : NotBehind(p, card[p].raw)

\* The fetcher of the queue brings it.
InFeed(p) == p \in feed /\ ~LeftOut(upstream[p])

\* A pull request updated after its card was triaged is noticed: the verdict is
\* forgotten, and a done card comes back ("done is a cache, not a verdict",
\* runner.py:178-180), as long as the fetcher brings the pull request, and but for
\* cards that are parked or in the middle of an action: of these it is said that
\* their verdict is kept (runner.py:184-186), and a refresh takes it all the same.
Outdated(p) ==
  /\ card[p].state \in {Initial, "done"}
  /\ Stale(card[p], upstream[p].at)
StaleIsNoticed == \A p \in PR : Outdated(p) ~> ~Outdated(p) \/ ~InFeed(p)

\* A card in triage without a verdict gets one, or leaves: "items sat in their
\* initial state forever" is what the runner guards against (runner.py:103).
Untriaged(p) == card[p].state = Initial /\ card[p].triaged = 0
CardGetsTriaged == \A p \in PR : Untriaged(p) ~> ~Untriaged(p)

\* A parked card comes back when its pull request gets a commit ("the external
\* signal the user was waiting on", runner.py:181-183), as long as the fetcher brings
\* the pull request, which it does not when the commit leaves nothing to attend to,
\* and the card's copy is a hydrated one: what refresh_one_item or a failed hydration
\* left is carried forward, and hides what happened.
Asleep(p) ==
  /\ card[p].state = "awaiting update"
  /\ card[p].raw.merge = "known" /\ card[p].baseline.merge = "known"
  /\ card[p].parkedOn < upstream[p].at /\ card[p].baseline.head # upstream[p].head
ParkedWakes == \A p \in PR : Asleep(p) ~> ~Asleep(p) \/ ~InFeed(p)

\* What park_signals says (queues.py:220-226): `updatedAt` alone "bumps for
\* trivial events", so "only fields here trigger auto-unpark when they change".
\* A run that takes a card off the parking lot has a newer version of the pull
\* request than the one it was parked on.
UnparksOnSignal ==
  [][\A r \in Runner, p \in PR :
       Apply(r) /\ card[p].state = "awaiting update" /\ card'[p].state = Initial
         => card'[p].raw.at # card[p].parkedOn]_vars
=============================================================================
