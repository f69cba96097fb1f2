----------------------------- MODULE TriageMenu -----------------------------
(***************************************************************************)
(* The menus of repobot/triage.py: what a card may be asked to do, from    *)
(* the signals its pull request or issue shows, and the one action the     *)
(* Unblock button stands for; the second writer of a menu, an action that  *)
(* bails (actions.py); and how the menu, the signals it was made from,     *)
(* those the card shows and those GitHub has drift apart.                  *)
(*                                                                         *)
(* A menu is a set: the order of the buttons, and the text of the proposal *)
(* beside them, are left out.  A skill may add to the text; the menu is    *)
(* that of the rules.  The states of the card are in Actions and Refresh.  *)
(***************************************************************************)
EXTENDS Integers

CONSTANTS
  Discussion,  \* the review threads a pull request may have unresolved
  Age,         \* days since something happened
  Opened,      \* what a queue is asked about, at first
  Toggles,     \* the `hydrate` blocks a generic queue may have in config.yaml
  MaxActions   \* bound on the actions started

Queues == {"failing-dependabot-prs", "my-prs", "review-requested", "generic", "issues"}

Thread == [by : {"operator", "person", "bot"}, text : SUBSET {"substantive", "boilerplate"}]

ASSUME MenuAssumption == Discussion \subseteq SUBSET Thread /\ {} \in Discussion
                         /\ Age \subseteq Nat /\ 0 \in Age
                         /\ Toggles \subseteq SUBSET {"ci_status", "merge_state", "review_threads"}
                         /\ MaxActions \in Nat

VARIABLES
  queue,   \* the queue of the card, which picks the triager
  toggles, \* what a generic queue hydrates
  card,    \* "none", "fetched", "triaging", "triaged"
  pull,    \* the signals GitHub has
  raw,     \* the signals the card shows
  judged,  \* those its triage was given
  menu,    \* `actions` of the card
  added,   \* history: what actions that bailed added to that menu
  running, \* whether an action of the card runs
  acts,    \* how many were started
  moved    \* whether GitHub's changed, and before triaged_at was set or after

session == <<running, acts>>
vars    == <<queue, toggles, card, pull, raw, judged, menu, added, session, moved>>
-----------------------------------------------------------------------------
(* Signals.                                                                *)

Labels == {"none", "hold", "WIP"}

\* GitHub works a pull request's mergeability out some time after it is asked.
Mergeability == {"MERGEABLE", "CONFLICTING", "UNKNOWN"}

PRs == [label : Labels, conflicts : BOOLEAN, mergeable : Mergeability,
        ci : {"passing", "failing", "pending", "none"}, threads : Discussion,
        draft : BOOLEAN, age : Age, author : {"operator", "person", "bot"},
        gated : BOOLEAN, fork : {"no", "closed", "open"}, review : BOOLEAN]

NoComment == -1
Issues == [labels : SUBSET {"wontfix", "needs-info", "help-wanted", "stale"},
           age : Age, commented : Age \cup {NoComment},
           commenter : {"nobody", "person", "maintainer"}, linked : {"none", "CLOSED", "OPEN"}]

Signals(q) == IF q = "issues" THEN Issues ELSE PRs

ASSUME OpenedAssumption == \A q \in Queues : Opened[q] \subseteq Signals(q)

\* fetch_one_pr and fetch_dependabot_prs: the list and the checks.  What is not
\* there is read as false, or empty.
Listed(p) ==
  [p EXCEPT !.conflicts = FALSE, !.threads = {}, !.gated = FALSE, !.fork = "no"]

\* The GraphQL call failed: the card passes for green.
Unhydrated(p) ==
  [p EXCEPT !.conflicts = (p.mergeable = "CONFLICTING"), !.ci = "passing", !.threads = {},
            !.gated = FALSE, !.fork = "no"]

\* has_conflicts, of a list and of a call that GitHub may answer before it knows.
Hydrated(p) ==
  {[p EXCEPT !.conflicts = c] :
     c \in IF p.mergeable = "UNKNOWN" THEN {FALSE, p.conflicts} ELSE {p.conflicts}}

\* fetch_search sets what the queue's toggles ask for; whether CI waits for approval
\* and whether the branch can be pushed to come with either GraphQL toggle.
Asked(t, r) ==
  LET graphql == t \cap {"merge_state", "review_threads"} # {}
  IN [r EXCEPT !.ci        = IF "ci_status" \in t THEN @ ELSE "none",
               !.conflicts = @ /\ "merge_state" \in t,
               !.threads   = IF "review_threads" \in t THEN @ ELSE {},
               !.gated     = @ /\ graphql,
               !.fork      = IF graphql THEN @ ELSE "no"]

\* What a fetcher keeps.  A generic queue's own filters only leave out more.
Kept(q, r) ==
  /\ q \in {"my-prs", "review-requested"} => ~r.draft
  /\ q = "my-prs" => r.conflicts \/ r.ci = "failing" \/ r.threads # {}

\* The fetcher of a queue: nothing for a pull request it leaves out.
Fetched(q, p) ==
  LET answers == Hydrated(p) \cup {Unhydrated(p)}
  IN CASE q = "issues" -> {p}
       [] q = "failing-dependabot-prs" -> {Listed(p)}
       [] q \in {"my-prs", "review-requested"} -> {r \in answers : Kept(q, r)}
       [] OTHER -> {Asked(toggles, r) : r \in answers}

\* _has_hold_label: a label is compared in lower case.
HasHoldLabel(r) == r.label \in {"hold", "WIP"}

IsBotThread(t) == t.by = "bot"

ClassifyBotThread(t) ==
  CASE t.by # "bot" -> "human"
    [] t.by = "bot" /\ "substantive" \in t.text -> "substantive"
    [] t.by = "bot" /\ t.text = {"boilerplate"} -> "boilerplate"
    [] OTHER -> "ambiguous"

BotThreadsResolvable(r) == \E t \in r.threads : IsBotThread(t)

\* Mutant: a fork is taken to be open to its maintainers.
CanPushAlways(r) == TRUE

\* _can_push_back: the branch is in the repository, or its author lets
\* maintainers edit it.
CanPushBack(r) == r.fork = "no" \/ r.fork = "open"

When(condition, actions) == IF condition THEN actions ELSE {}
-----------------------------------------------------------------------------
(* The rules, a triager each.  A held card is left alone by every one.     *)

HeldMenu == {"await-update", "prompt", "close", "skip"}

\* mechanical_triage
DependabotMenu(r) ==
  LET resolve == When(BotThreadsResolvable(r), {"resolve-bot-threads"})
  IN CASE r.mergeable = "CONFLICTING" ->
            {"dependabot-rebase", "dependabot-recreate", "rebase", "close"} \cup resolve
       [] r.mergeable = "MERGEABLE" /\ r.ci = "passing" ->
            {"approve-merge", "prompt", "close"} \cup resolve
       [] r.mergeable # "CONFLICTING" /\ r.ci = "pending" ->
            {"retrigger-ci", "prompt", "close"}
       [] r.mergeable # "CONFLICTING" /\ r.ci # "pending" /\ r.age > 7
            /\ ~(r.mergeable = "MERGEABLE" /\ r.ci = "passing") ->
            {"dependabot-recreate", "close", "prompt"}
       [] OTHER -> {"retrigger-ci", "update-lockfile", "rebase", "close", "prompt"}

\* _mechanical_my_pr_triage; prompt is there with or without a signal.
\* Mutant: prompt is added to what there is.
MyPRMenuOrNothing(r) ==
  When(r.conflicts, {"resolve-conflicts", "prompt"})
    \cup When(r.ci = "failing", {"attempt-fix", "fix-precommit", "update-lockfile", "prompt"})

MyPRMenu(r) ==
  {"prompt"}
    \cup When(r.conflicts, {"resolve-conflicts"})
    \cup When(r.ci = "failing", {"attempt-fix", "fix-precommit", "update-lockfile"})
    \cup When(r.threads # {}, {"address-comments"})
    \cup When(BotThreadsResolvable(r), {"resolve-bot-threads"})

\* _mechanical_review_requested_triage
ReviewMenu(r) ==
  LET others  == \E t \in r.threads : t.by # "operator"
      blocked == r.conflicts \/ r.ci = "failing" \/ others
      push    == CanPushBack(r)
  IN {"add-review-comment", "await-update", "close", "prompt", "skip"}
       \cup When(~blocked, {"approve-merge"})
       \cup When(r.conflicts /\ push, {"rebase"})
       \cup When(r.ci = "failing" /\ push, {"fix-precommit", "attempt-fix", "plan-fix"})
       \cup When(blocked /\ r.author # "bot", {"nudge-author"})
       \cup When(BotThreadsResolvable(r), {"resolve-bot-threads"})

\* _mechanical_generic_triage: what it calls the reasons, and its blockers.
Blockers(r) == r.conflicts \/ r.ci = "failing" \/ r.threads # {}

\* Mutant: nobody asks who wrote it.
MergeableByAnyone(r) ==
  ~Blockers(r) /\ ~r.gated /\ ~r.draft /\ r.ci \in {"passing", "none"} /\ r.age <= 30

\* Clean, as is a check nobody fetched, and not the operator's own pull request where another has to approve.
OfferMerge(r) ==
  /\ ~Blockers(r) /\ ~r.gated /\ ~r.draft /\ r.ci \in {"passing", "none"} /\ r.age <= 30
  /\ ~(r.author = "operator" /\ r.review)

Lingering(r) == ~r.gated /\ ~Blockers(r) /\ ~r.draft /\ r.age > 30

GenericMenu(r) ==
  LET push  == CanPushBack(r)
      other == r.author = "person"
      clean == ~Blockers(r) /\ ~r.gated /\ ~r.draft /\ r.ci \in {"passing", "none"} /\ r.age <= 30
  IN {"close", "summarize-diff", "assess-on-worktree", "prompt", "skip"}
       \cup When(r.gated, {"approve-ci"})
       \cup When(r.conflicts /\ push, {"rebase"})
       \cup When(r.ci = "failing" /\ push, {"attempt-fix", "plan-fix", "fix-precommit"})
       \cup When((r.conflicts \/ r.ci = "failing") /\ r.author # "bot", {"nudge-author"})
       \cup When(Blockers(r), {"await-update"})
       \cup When(Lingering(r) /\ other, {"mark-as-draft", "nudge-author"})
       \cup When(OfferMerge(r), {"approve-merge"})
       \cup When(clean /\ ~OfferMerge(r), {"await-update"})
       \cup When(Blockers(r) /\ ~r.draft /\ other, {"mark-as-draft"})
       \cup When(BotThreadsResolvable(r), {"resolve-bot-threads"})
       \cup When(push /\ ~r.draft, {"mark-as-draft"})

SafeToAttempt(r) == r.linked # "OPEN" /\ r.labels \cap {"wontfix", "help-wanted"} = {}

\* _mechanical_generic_issue_triage: the ladder only orders what is offered in
\* any case, but for the fix.
IssueMenu(r) ==
  {"nudge-issue-author", "convert-to-discussion", "label-as-stale", "close-as-stale",
   "prompt", "skip"}
    \cup When(SafeToAttempt(r), {"attempt-fix-issue"})

\* The triager of a queue.
Menu(q, r) ==
  CASE q = "issues" -> IssueMenu(r)
    [] q # "issues" /\ HasHoldLabel(r) -> HeldMenu
    [] q = "failing-dependabot-prs" /\ ~HasHoldLabel(r) -> DependabotMenu(r)
    [] q = "my-prs" /\ ~HasHoldLabel(r) -> MyPRMenu(r)
    [] q = "review-requested" /\ ~HasHoldLabel(r) -> ReviewMenu(r)
    [] OTHER -> GenericMenu(r)
-----------------------------------------------------------------------------
(* The Unblock button.                                                     *)

Nothing == ""

Unblocks(r, actions) ==
  {"approve-merge", "rebase", "fix-precommit", "attempt-fix"} \cap actions # {} /\ ~r.draft

\* Mutant: any bot thread will do.
ResolveAny(r, actions) == "resolve-bot-threads" \in actions

Resolve(r, actions) ==
  /\ "resolve-bot-threads" \in actions
  /\ \E t \in r.threads : ClassifyBotThread(t) \in {"boilerplate", "ambiguous"}

\* pick_unblock_action: the first that applies.
PickUnblockAction(r, actions) ==
  IF ~Unblocks(r, actions) THEN Nothing
  ELSE IF "approve-ci" \in actions /\ r.gated THEN "approve-ci"
  ELSE IF Resolve(r, actions) THEN "resolve-bot-threads"
  ELSE IF "rebase" \in actions /\ r.conflicts THEN "rebase"
  ELSE IF r.ci = "failing" /\ "fix-precommit" \in actions THEN "fix-precommit"
  ELSE IF r.ci = "failing" /\ "attempt-fix" \in actions THEN "attempt-fix"
  ELSE IF "approve-merge" \in actions THEN "approve-merge"
  ELSE Nothing

Unblock == IF queue = "issues" THEN Nothing ELSE PickUnblockAction(raw, menu)
-----------------------------------------------------------------------------
(* An action that bails.                                                   *)

\* What a skill may find in its way.
Signatures == {"conflict", "protection", "ci", "edits"}

\* The true ones: the skill looks at GitHub, not at the card.
Found(p) ==
  {s \in Signatures : /\ s = "conflict" => p.conflicts
                      /\ s = "protection" => p.review
                      /\ s = "ci" => p.ci = "failing"
                      /\ s = "edits" => p.fork = "closed"}

\* _state_drift_followups: of its message and of who wrote the pull request, and of
\* nothing else that is known of it.
StateDriftFollowups(r, message, dependabot) ==
  When("conflict" \in message, {"rebase"} \cup When(dependabot, {"dependabot-rebase"}))
    \cup When("protection" \in message, {"await-update"})
    \cup When("ci" \in message /\ r.author # "bot", {"fix-precommit", "attempt-fix"})
    \cup When("edits" \in message /\ r.author # "bot", {"nudge-author"})

\* A button of the menu.  An issue has nothing that could drift.
Act ==
  /\ card = "triaged" /\ queue # "issues"
  /\ ~running /\ acts < MaxActions
  /\ running' = TRUE /\ acts' = acts + 1
  /\ UNCHANGED <<queue, toggles, card, pull, raw, judged, menu, added, moved>>

\* The hook of its first turn: a needs_human extends the menu of whatever the card
\* is by now.  No message, or none that is known, changes nothing.
Finish ==
  /\ running
  /\ \E message \in SUBSET Found(pull), dependabot \in BOOLEAN :
       /\ dependabot => raw.author = "bot"
       /\ queue = "failing-dependabot-prs" => dependabot
       /\ LET followups == StateDriftFollowups(raw, message, dependabot)
          IN /\ menu' = menu \cup followups
             /\ added' = added \cup (followups \ menu)
  /\ running' = FALSE
  /\ UNCHANGED <<queue, toggles, card, pull, raw, judged, acts, moved>>
-----------------------------------------------------------------------------
NoRaw == [none |-> TRUE]

Verdict(conflicts) == IF conflicts THEN "CONFLICTING" ELSE "MERGEABLE"

Init ==
  /\ queue \in Queues
  /\ toggles \in IF queue = "generic" THEN Toggles ELSE {{}}
  /\ pull \in Opened[queue]
  /\ queue # "issues" => pull.ci # "none"
  /\ queue # "issues" => pull.mergeable \in {"UNKNOWN", Verdict(pull.conflicts)}
  /\ queue = "failing-dependabot-prs" => pull.author = "bot"
  /\ queue = "my-prs" => pull.author = "operator"
  /\ queue = "review-requested" => pull.author # "operator"
  /\ Fetched(queue, pull) # {}
  /\ card = "none" /\ raw = NoRaw /\ judged = NoRaw /\ menu = {} /\ added = {}
  /\ running = FALSE /\ acts = 0 /\ moved = "no"

\* A pull request, touched.
Touched(p) ==
  LET now == [p EXCEPT !.age = 0]
  IN {[now EXCEPT !.label = l] : l \in Labels}
       \cup {[now EXCEPT !.ci = c] : c \in {"passing", "failing"}}
       \cup {[now EXCEPT !.mergeable = Verdict(c), !.conflicts = c] : c \in BOOLEAN}
       \cup {[now EXCEPT !.mergeable = "UNKNOWN", !.conflicts = c] : c \in BOOLEAN}
       \cup {[now EXCEPT !.draft = d] : d \in BOOLEAN}

\* Once: what is compared with triaged_at is updatedAt.
Update ==
  /\ queue # "issues" /\ card # "none" /\ moved = "no"
  /\ pull' \in Touched(pull)
  /\ moved' = IF card = "triaged" THEN "after" ELSE "before"
  /\ UNCHANGED <<queue, toggles, card, raw, judged, menu, added, session>>

\* GitHub has worked the mergeability out, which is not an update.
Decide ==
  /\ queue # "issues" /\ pull.mergeable = "UNKNOWN"
  /\ pull' = [pull EXCEPT !.mergeable = Verdict(pull.conflicts)]
  /\ UNCHANGED <<queue, toggles, card, raw, judged, menu, added, session, moved>>

\* The intake.
Fetch ==
  /\ card = "none"
  /\ raw' \in Fetched(queue, pull)
  /\ card' = "fetched"
  /\ UNCHANGED <<queue, toggles, pull, judged, menu, added, session, moved>>

\* _triage_with_mechanical_first: the rules judge, and the skill is asked.
Judge ==
  /\ card = "fetched"
  /\ card' = "triaging" /\ judged' = raw
  /\ UNCHANGED <<queue, toggles, pull, raw, menu, added, session, moved>>

\* Mutant: the skill's own actions are taken.
RecordSkills ==
  /\ card = "triaging"
  /\ card' = "triaged"
  /\ menu' \in {Menu(queue, judged), {"approve-merge", "prompt"}} /\ added' = {}
  /\ UNCHANGED <<queue, toggles, pull, raw, judged, session, moved>>

\* The skill answered, or failed: set_triage writes the menu.
Record ==
  /\ card = "triaging"
  /\ card' = "triaged" /\ menu' = Menu(queue, judged) /\ added' = {}
  /\ UNCHANGED <<queue, toggles, pull, raw, judged, session, moved>>

\* _refresh_existing_items, and refresh_one_item: what came before the triage
\* was recorded is shown beside its menu, what came after it clears the menu.
Shown(signals) ==
  /\ raw' = signals
  /\ IF card = "triaged" /\ moved = "after"
       THEN card' = "fetched" /\ menu' = {} /\ added' = {} /\ judged' = NoRaw
       ELSE UNCHANGED <<card, menu, added, judged>>
  /\ moved' = IF moved = "no" THEN "no" ELSE "seen"
  /\ UNCHANGED <<queue, toggles, pull, session>>

\* A tick, after an update.
Refresh ==
  /\ card # "none" /\ moved \in {"before", "after"}
  /\ \E signals \in Fetched(queue, pull) : Shown(signals)

\* A tick without one, the fast path: the list is fresh, the hydration carried.
QuietRefresh ==
  /\ card # "none" /\ queue # "issues" /\ moved \in {"no", "seen"}
  /\ Kept(queue, raw)
  /\ raw' = [raw EXCEPT !.mergeable = pull.mergeable]
  /\ UNCHANGED <<queue, toggles, card, pull, judged, menu, added, session, moved>>

RefreshOne == card # "none" /\ queue # "issues" /\ Shown(Listed(pull))

\* retriage_item aborts the triage, if any, and starts another; where the pull
\* request cannot be fetched, on the signals of the card.  An update is then one
\* that comes before the triage is recorded.
Retriage ==
  /\ card # "none"
  /\ card' = "fetched" /\ menu' = {} /\ added' = {} /\ judged' = NoRaw
  /\ \/ /\ raw' = raw
        /\ moved' = IF moved = "after" THEN "before" ELSE moved
     \/ /\ queue # "issues"
        /\ raw' = Listed(pull)
        /\ moved' = IF moved = "no" THEN "no" ELSE "seen"
  /\ UNCHANGED <<queue, toggles, pull, session>>

Next ==
  \/ Update \/ Decide \/ Fetch \/ Judge \/ Record
  \/ Refresh \/ QuietRefresh \/ RefreshOne \/ Retriage
  \/ Act \/ Finish

Spec == Init /\ [][Next]_vars
-----------------------------------------------------------------------------
(* Properties.                                                             *)

\* The keys of ACTIONS (actions.py:107-452).
Known ==
  {"skip", "await-update", "close", "prompt", "rebase", "update-lockfile",
   "address-comments", "attempt-fix", "fix-precommit", "plan-fix", "retrigger-ci",
   "approve-ci", "approve-merge", "resolve-bot-threads", "mark-as-draft",
   "dependabot-rebase", "dependabot-recreate", "add-review-comment", "approve-review",
   "request-changes-review", "request-reviewers", "ping-reviewers",
   "fix-precommit-review", "rebase-review", "nudge-author", "dismiss-review-request",
   "summarize-diff", "assess-on-worktree", "close-as-stale", "label-as-stale",
   "nudge-issue-author", "convert-to-discussion", "attempt-fix-issue"}

\* What an action that bailed may add.
FollowUps ==
  {"rebase", "dependabot-rebase", "await-update", "fix-precommit", "attempt-fix",
   "nudge-author"}

\* Every variable keeps its type, and a card that is triaged has a way on.
TypeOK ==
  /\ queue \in Queues /\ toggles \in Toggles \cup {{}}
  /\ card \in {"none", "fetched", "triaging", "triaged"}
  /\ pull \in Signals(queue)
  /\ IF card = "none" THEN raw = NoRaw ELSE raw \in Signals(queue)
  /\ IF card \in {"none", "fetched"} THEN judged = NoRaw ELSE judged \in Signals(queue)
  /\ menu \subseteq Known \cup {"resolve-conflicts"}
  /\ added \subseteq menu \cap FollowUps
  /\ card = "triaged" => menu \cap {"close", "prompt"} # {}
  /\ running \in BOOLEAN /\ acts \in 0..MaxActions
  /\ moved \in {"no", "before", "after", "seen"}

TriagedPR == card = "triaged" /\ queue # "issues"

\* "Explicitly held - don't propose approve-merge or any auto-fix action"
\* (triage.py:246-248): whatever becomes of the signals, nothing else is offered
\* for what was held when it was judged, and no unblock, until it is judged anew or
\* an action bails.  What that adds is all there is beside, and never a merge; that
\* it adds anything is against "a fixed action menu ... regardless of other signals"
\* (MEMORY.md:74-76).
HeldIsLeftAlone ==
  TriagedPR /\ judged.label \in {"hold", "WIP"} =>
    menu = HeldMenu \cup added /\ Unblock \in added \cup {Nothing}

Pushes == {"rebase", "fix-precommit", "attempt-fix", "plan-fix"}

ClosedPR ==
  TriagedPR /\ queue \in {"review-requested", "generic"} /\ judged.fork = "closed"

\* What pushes to the branch is offered only where the signals that were judged
\* let it: without it a skill bails and "the user wastes a click"
\* (triage.py:626-630); nor is it the unblock when the signals have changed.  But
\* for what an action that bailed has added: of that, the Unblock button may stand
\* for what "the mechanical layer judged unavailable" (triage.py:165-167).
PushIsPossible == ClosedPR => (menu \cup {Unblock}) \cap Pushes \subseteq added

\* approve-merge is offered only where nothing that was judged stands against
\* it: no conflict, no failing check, no thread of others; and on a generic queue,
\* no missing approval on the operator's own pull request (triage.py:669-674).
MergeOnlyWhenClean ==
  TriagedPR /\ "approve-merge" \in menu =>
    /\ judged.ci # "failing" /\ judged.label \notin {"hold", "WIP"}
    /\ queue # "my-prs"
    /\ queue = "failing-dependabot-prs" => judged.mergeable = "MERGEABLE"
    /\ queue # "failing-dependabot-prs" =>
         ~judged.conflicts /\ \A t \in judged.threads : t.by = "operator"
    /\ queue = "generic" => ~(judged.author = "operator" /\ judged.review)

\* However old the menu is beside the signals the card shows by now: the Unblock
\* button stands for an action of that menu, and one that removes something these
\* signals show.  A draft has none, and threads that are all of substance "should
\* NOT be auto-resolved" (triage.py:199-201).
UnblockRemovesBlocker ==
  TriagedPR /\ Unblock # Nothing =>
    /\ Unblock \in menu /\ ~raw.draft
    /\ Unblock = "approve-ci" => raw.gated
    /\ Unblock = "rebase" => raw.conflicts
    /\ Unblock \in {"fix-precommit", "attempt-fix"} => raw.ci = "failing"
    /\ Unblock = "resolve-bot-threads" =>
         \E t \in raw.threads : t.by = "bot" /\ "substantive" \notin t.text

\* What is refetched is "critical" (runner.py:398): the menu "the post-clear triage
\* builds reflects current signals" (runner.py:415), so that approve-merge, which
\* "is safe to click" (triage.py:767), is not offered for conflicts GitHub had
\* all along and knew of, on a queue that asks for them.
MergeReflectsPull ==
  /\ TriagedPR /\ moved = "no" /\ "approve-merge" \in menu
  /\ queue = "generic" => "merge_state" \in toggles
  /\ judged.mergeable # "UNKNOWN"
  => queue = "failing-dependabot-prs" \/ ~pull.conflicts
=============================================================================
