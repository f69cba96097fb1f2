-------------------------- MODULE TriageMenuProofs --------------------------
(***************************************************************************)
(* Proofs about TriageMenu: whatever the discussions, the ages, the        *)
(* toggles, and the order of updates, triages, refreshes and actions that  *)
(* bail, the menu of a card is that of the signals it was judged by and    *)
(* what was added by the actions since, and the promises of the menus      *)
(* follow from what each rule offers.                                      *)
(***************************************************************************)
EXTENDS TriageMenu, TLAPS

\* What the promises rest on: the card is well formed, and its menu is the one
\* its rules make of what was judged, with the follow-ups of the actions that
\* bailed.
Judgement ==
  /\ queue \in Queues
  /\ pull \in Signals(queue)
  /\ card \in {"none", "fetched", "triaging", "triaged"}
  /\ card # "none" => raw \in Signals(queue)
  /\ card \in {"triaging", "triaged"} => judged \in Signals(queue)
  /\ menu = added \cup (IF card = "triaged" THEN Menu(queue, judged) ELSE {})
  /\ added \subseteq FollowUps
-----------------------------------------------------------------------------
(* The fetches.                                                            *)

LEMMA ListedIsPR == ASSUME NEW p \in PRs PROVE Listed(p) \in PRs
BY MenuAssumption DEF Listed, PRs

LEMMA UnhydratedIsPR == ASSUME NEW p \in PRs PROVE Unhydrated(p) \in PRs
BY MenuAssumption DEF Unhydrated, PRs

LEMMA HydratedIsPR == ASSUME NEW p \in PRs PROVE Hydrated(p) \subseteq PRs
<1>1. \A c \in BOOLEAN : [p EXCEPT !.conflicts = c] \in PRs
  BY DEF PRs
<1>2. p.conflicts \in BOOLEAN
  BY DEF PRs
<1> QED
  BY <1>1, <1>2 DEF Hydrated

LEMMA AskedIsPR == ASSUME NEW t, NEW p \in PRs PROVE Asked(t, p) \in PRs
<1>1. ASSUME NEW ci \in {"passing", "failing", "pending", "none"}, NEW c \in BOOLEAN,
             NEW threads \in Discussion, NEW g \in BOOLEAN,
             NEW fork \in {"no", "closed", "open"}
      PROVE  [p EXCEPT !.ci = ci, !.conflicts = c, !.threads = threads, !.gated = g,
                       !.fork = fork] \in PRs
  BY <1>1 DEF PRs
<1>2. /\ p.ci \in {"passing", "failing", "pending", "none"} /\ p.threads \in Discussion
      /\ p.fork \in {"no", "closed", "open"}
  BY DEF PRs
<1> DEFINE graphql == t \cap {"merge_state", "review_threads"} # {}
           ci      == IF "ci_status" \in t THEN p.ci ELSE "none"
           c       == p.conflicts /\ "merge_state" \in t
           threads == IF "review_threads" \in t THEN p.threads ELSE {}
           g       == p.gated /\ graphql
           fork    == IF graphql THEN p.fork ELSE "no"
<1>3. ci \in {"passing", "failing", "pending", "none"}
  BY <1>2
<1>4. threads \in Discussion
  BY <1>2, MenuAssumption
<1>5. fork \in {"no", "closed", "open"}
  BY <1>2
<1>6. c \in BOOLEAN /\ g \in BOOLEAN
  OBVIOUS
<1>7. Asked(t, p) = [p EXCEPT !.ci = ci, !.conflicts = c, !.threads = threads, !.gated = g,
                              !.fork = fork]
  BY Zenon DEF Asked
<1> HIDE DEF ci, c, threads, g, fork
<1>8. [p EXCEPT !.ci = ci, !.conflicts = c, !.threads = threads, !.gated = g,
                !.fork = fork] \in PRs
  BY <1>1, <1>3, <1>4, <1>5, <1>6, Zenon
<1> QED
  BY <1>7, <1>8, Zenon

LEMMA FetchedSignals ==
  ASSUME NEW q \in Queues, NEW p \in Signals(q), NEW r \in Fetched(q, p)
  PROVE  r \in Signals(q)
<1>1. CASE q = "issues"
  BY <1>1 DEF Fetched
<1>2. CASE q # "issues"
  <2>1. p \in PRs /\ Signals(q) = PRs
    BY <1>2 DEF Signals
  <2>2. Hydrated(p) \cup {Unhydrated(p)} \subseteq PRs
    BY <2>1, HydratedIsPR, UnhydratedIsPR
  <2>3. Listed(p) \in PRs
    BY <2>1, ListedIsPR
  <2>4. \A a \in Hydrated(p) \cup {Unhydrated(p)} : Asked(toggles, a) \in PRs
    BY <2>2, AskedIsPR
  <2> QED
    BY <1>2, <2>1, <2>2, <2>3, <2>4 DEF Fetched
<1> QED
  BY <1>1, <1>2

LEMMA TouchedIsPR == ASSUME NEW p \in PRs, NEW r \in Touched(p) PROVE r \in PRs
<1> DEFINE now == [p EXCEPT !.age = 0]
<1>1. now \in PRs
  BY MenuAssumption DEF PRs
<1> HIDE DEF now
<1>2. CASE \E l \in Labels : r = [now EXCEPT !.label = l]
  BY <1>1, <1>2 DEF PRs
<1>3. CASE \E c \in {"passing", "failing"} : r = [now EXCEPT !.ci = c]
  BY <1>1, <1>3 DEF PRs
<1>4. CASE \E c \in BOOLEAN : \/ r = [now EXCEPT !.mergeable = Verdict(c), !.conflicts = c]
                              \/ r = [now EXCEPT !.mergeable = "UNKNOWN", !.conflicts = c]
  <2>1. PICK m \in Mergeability, c \in BOOLEAN :
          r = [now EXCEPT !.mergeable = m, !.conflicts = c]
    BY <1>4 DEF Verdict, Mergeability
  <2> QED
    BY <1>1, <2>1 DEF PRs
<1>5. CASE \E d \in BOOLEAN : r = [now EXCEPT !.draft = d]
  BY <1>1, <1>5 DEF PRs
<1> QED
  BY <1>2, <1>3, <1>4, <1>5 DEF Touched, now
LEMMA DecidedIsPR ==
  ASSUME NEW p \in PRs PROVE [p EXCEPT !.mergeable = Verdict(p.conflicts)] \in PRs
BY DEF PRs, Verdict, Mergeability

LEMMA QuietIsPR ==
  ASSUME NEW p \in PRs, NEW r \in PRs PROVE [r EXCEPT !.mergeable = p.mergeable] \in PRs
BY DEF PRs

LEMMA FollowUpsKnown ==
  ASSUME NEW r, NEW message, NEW dependabot
  PROVE  StateDriftFollowups(r, message, dependabot) \subseteq FollowUps
BY DEF StateDriftFollowups, When, FollowUps
-----------------------------------------------------------------------------
(* The judgement is inductive.                                             *)

LEMMA ShownKeepsJudgement ==
  ASSUME Judgement, card # "none", NEW signals \in Signals(queue), Shown(signals)
  PROVE  Judgement'
BY DEF Judgement, Shown, session

LEMMA FinishKeepsJudgement == ASSUME Judgement, Finish PROVE Judgement'
<1>1. PICK message, dependabot :
        /\ menu' = menu \cup StateDriftFollowups(raw, message, dependabot)
        /\ added' = added \cup (StateDriftFollowups(raw, message, dependabot) \ menu)
  BY DEF Finish
<1>2. StateDriftFollowups(raw, message, dependabot) \subseteq FollowUps
  BY FollowUpsKnown
<1> QED
  BY <1>1, <1>2 DEF Finish, Judgement

\* The inductive invariant: however updates, triages, refreshes and actions that
\* bail follow each other, a triaged card has the menu of the signals it was judged
\* by, and what those actions added (queues.py:130-172).
THEOREM JudgementHolds == Spec => []Judgement
<1>1. Init => Judgement
  BY OpenedAssumption DEF Init, Judgement
<1>2. Judgement /\ [Next]_vars => Judgement'
  <2> SUFFICES ASSUME Judgement, [Next]_vars PROVE Judgement'
    OBVIOUS
  <2>1. CASE Update
    BY <2>1, TouchedIsPR DEF Judgement, Update, Signals
  <2>2. CASE Fetch
    BY <2>2, FetchedSignals DEF Judgement, Fetch
  <2>3. CASE Judge
    BY <2>3 DEF Judgement, Judge
  <2>4. CASE Record
    BY <2>4 DEF Judgement, Record
  <2>5. CASE Refresh
    BY <2>5, FetchedSignals, ShownKeepsJudgement DEF Refresh, Judgement
  <2>6. CASE RefreshOne
    BY <2>6, ListedIsPR, ShownKeepsJudgement DEF RefreshOne, Judgement, Signals
  <2>7. CASE Retriage
    BY <2>7, ListedIsPR DEF Retriage, Judgement, Signals, session
  <2>8. CASE Decide
    BY <2>8, DecidedIsPR DEF Decide, Judgement, Signals, session
  <2>9. CASE QuietRefresh
    BY <2>9, QuietIsPR DEF QuietRefresh, Judgement, Signals, session
  <2>10. CASE Act
    BY <2>10 DEF Act, Judgement
  <2>11. CASE Finish
    BY <2>11, FinishKeepsJudgement
  <2>12. CASE UNCHANGED vars
    BY <2>12 DEF vars, session, Judgement
  <2> QED
    BY <2>1, <2>2, <2>3, <2>4, <2>5, <2>6, <2>7, <2>8, <2>9, <2>10, <2>11, <2>12 DEF Next
<1> QED
  BY <1>1, <1>2, PTL DEF Spec
-----------------------------------------------------------------------------
(* What the rules offer.                                                   *)

\* The unblock is an action of the menu, and for something the signals show.
LEMMA UnblockIsOffered ==
  ASSUME NEW r, NEW actions, PickUnblockAction(r, actions) # Nothing
  PROVE  LET u == PickUnblockAction(r, actions)
         IN /\ u \in actions /\ ~r.draft
            /\ u = "approve-ci" => r.gated
            /\ u = "rebase" => r.conflicts
            /\ u \in {"fix-precommit", "attempt-fix"} => r.ci = "failing"
            /\ u = "resolve-bot-threads" => Resolve(r, actions)
            /\ u \in {"approve-ci", "resolve-bot-threads", "rebase", "fix-precommit",
                      "attempt-fix", "approve-merge"}
BY DEF PickUnblockAction, Unblocks, Nothing, Resolve

LEMMA HeldGetsHeldMenu ==
  ASSUME NEW q \in Queues, q # "issues", NEW r, r.label \in {"hold", "WIP"}
  PROVE  Menu(q, r) = HeldMenu
BY DEF Menu, HasHoldLabel

\* A card judged while held offers what leaves it alone and what the actions that
\* bailed have added, and no unblock but of those, whatever its signals become.
THEOREM HeldCardsAreLeftAlone == Spec => []HeldIsLeftAlone
<1>1. Judgement => HeldIsLeftAlone
  <2> SUFFICES ASSUME Judgement, TriagedPR, judged.label \in {"hold", "WIP"}
               PROVE  menu = HeldMenu \cup added /\ Unblock \in added \cup {Nothing}
    BY DEF HeldIsLeftAlone
  <2>1. menu = HeldMenu \cup added
    BY HeldGetsHeldMenu DEF Judgement, TriagedPR
  <2>2. Unblock = PickUnblockAction(raw, menu)
    BY DEF Unblock, TriagedPR
  <2>3. Unblock # Nothing =>
          Unblock \in menu /\ Unblock \in {"approve-ci", "resolve-bot-threads", "rebase",
                                         "fix-precommit", "attempt-fix", "approve-merge"}
    BY <2>2, UnblockIsOffered
  <2>4. Unblock # Nothing => Unblock \notin HeldMenu
    BY <2>3 DEF HeldMenu
  <2> QED
    BY <2>1, <2>3, <2>4
<1> QED
  BY <1>1, JudgementHolds, PTL

\* However old its menu is, a card's Unblock button removes something in the way.
THEOREM UnblocksRemoveBlockers == Spec => []UnblockRemovesBlocker
<1>1. Judgement => UnblockRemovesBlocker
  <2> SUFFICES ASSUME Judgement, TriagedPR, Unblock # Nothing
               PROVE  /\ Unblock \in menu /\ ~raw.draft
                      /\ Unblock = "approve-ci" => raw.gated
                      /\ Unblock = "rebase" => raw.conflicts
                      /\ Unblock \in {"fix-precommit", "attempt-fix"} => raw.ci = "failing"
                      /\ Unblock = "resolve-bot-threads" =>
                           \E t \in raw.threads : t.by = "bot" /\ "substantive" \notin t.text
    BY DEF UnblockRemovesBlocker
  <2>1. Unblock = PickUnblockAction(raw, menu)
    BY DEF Unblock, TriagedPR
  <2>2. Unblock = "resolve-bot-threads" => Resolve(raw, menu)
    BY <2>1, UnblockIsOffered
  <2>3. Resolve(raw, menu) =>
          \E t \in raw.threads : t.by = "bot" /\ "substantive" \notin t.text
    BY DEF Resolve, ClassifyBotThread
  <2> QED
    BY <2>1, <2>2, <2>3, UnblockIsOffered
<1> QED
  BY <1>1, JudgementHolds, PTL

LEMMA NoPushOffered ==
  ASSUME NEW q \in {"review-requested", "generic"}, NEW r, r.fork = "closed"
  PROVE  Menu(q, r) \cap Pushes = {}
<1>1. ~CanPushBack(r)
  BY DEF CanPushBack
<1>2. HeldMenu \cap Pushes = {}
  BY DEF HeldMenu, Pushes
<1>3. ReviewMenu(r) \cap Pushes = {}
  BY <1>1 DEF ReviewMenu, When, Pushes
<1>4. GenericMenu(r) \cap Pushes = {}
  BY <1>1 DEF GenericMenu, When, Pushes
<1> QED
  BY <1>2, <1>3, <1>4 DEF Menu

\* No push is offered, as an action or as the unblock, for a fork judged closed, but
\* one that an action that bailed has added since.
THEOREM PushesArePossible == Spec => []PushIsPossible
<1>1. Judgement => PushIsPossible
  <2> SUFFICES ASSUME Judgement, ClosedPR
               PROVE  (menu \cup {Unblock}) \cap Pushes \subseteq added
    BY DEF PushIsPossible
  <2>1. menu \cap Pushes \subseteq added
    BY NoPushOffered DEF Judgement, ClosedPR, TriagedPR
  <2>2. Unblock = Nothing \/ Unblock \in menu
    BY UnblockIsOffered DEF Unblock
  <2> QED
    BY <2>1, <2>2 DEF Pushes, Nothing
<1> QED
  BY <1>1, JudgementHolds, PTL

LEMMA MergeOffered ==
  ASSUME NEW q \in Queues, q # "issues", NEW r \in PRs, "approve-merge" \in Menu(q, r)
  PROVE  /\ r.ci # "failing" /\ r.label \notin {"hold", "WIP"}
         /\ q # "my-prs"
         /\ q = "failing-dependabot-prs" => r.mergeable = "MERGEABLE"
         /\ q # "failing-dependabot-prs" =>
              ~r.conflicts /\ \A t \in r.threads : t.by = "operator"
         /\ q = "generic" => ~(r.author = "operator" /\ r.review)
<1>1. "approve-merge" \notin HeldMenu
  BY DEF HeldMenu
<1>2. ~HasHoldLabel(r)
  BY <1>1 DEF Menu
<1>3. CASE q = "failing-dependabot-prs"
  <2>1. "approve-merge" \in DependabotMenu(r)
    BY <1>2, <1>3 DEF Menu
  <2>2. r.mergeable = "MERGEABLE" /\ r.ci = "passing"
    BY <2>1 DEF DependabotMenu, When
  <2> QED
    BY <1>2, <1>3, <2>2 DEF HasHoldLabel
<1>4. CASE q = "my-prs"
  <2>1. "approve-merge" \in MyPRMenu(r)
    BY <1>2, <1>4 DEF Menu
  <2> QED
    BY <2>1 DEF MyPRMenu, When
<1>5. CASE q = "review-requested"
  <2>1. "approve-merge" \in ReviewMenu(r)
    BY <1>2, <1>5 DEF Menu
  <2>2. ~r.conflicts /\ r.ci # "failing" /\ \A t \in r.threads : t.by = "operator"
    BY <2>1 DEF ReviewMenu, When
  <2> QED
    BY <1>2, <1>5, <2>2 DEF HasHoldLabel
<1>6. CASE q = "generic"
  <2>1. "approve-merge" \in GenericMenu(r)
    BY <1>2, <1>6 DEF Menu
  <2>2. OfferMerge(r)
    BY <2>1 DEF GenericMenu, When
  <2> QED
    BY <1>2, <1>6, <2>2 DEF HasHoldLabel, OfferMerge, Blockers
<1> QED
  BY <1>3, <1>4, <1>5, <1>6 DEF Queues

\* approve-merge is offered only for what was judged clean, by each queue's rules.
THEOREM MergesAreClean == Spec => []MergeOnlyWhenClean
<1>1. Judgement => MergeOnlyWhenClean
  <2> SUFFICES ASSUME Judgement, TriagedPR, "approve-merge" \in menu
               PROVE  MergeOnlyWhenClean
    BY DEF MergeOnlyWhenClean
  <2>1. /\ judged \in PRs /\ queue \in Queues /\ queue # "issues"
        /\ "approve-merge" \in Menu(queue, judged)
    BY DEF Judgement, TriagedPR, Signals, FollowUps
  <2> QED
    BY <2>1, MergeOffered DEF MergeOnlyWhenClean
<1> QED
  BY <1>1, JudgementHolds, PTL
-----------------------------------------------------------------------------
(* Every menu is one the program can act on, and leaves a way on.          *)

Offerable == Known \cup {"resolve-conflicts"}

WaysOn == {"close", "prompt"}

LEMMA HeldMenuKnown == HeldMenu \subseteq Offerable /\ HeldMenu \cap WaysOn # {}
BY DEF HeldMenu, Offerable, Known, WaysOn

LEMMA DependabotMenuKnown ==
  ASSUME NEW r PROVE DependabotMenu(r) \subseteq Offerable /\ DependabotMenu(r) \cap WaysOn # {}
<1>1. "close" \in DependabotMenu(r)
  BY DEF DependabotMenu
<1>2. DependabotMenu(r) \subseteq Offerable
  BY DEF DependabotMenu, When, Offerable, Known
<1> QED
  BY <1>1, <1>2 DEF WaysOn

LEMMA MyPRMenuKnown ==
  ASSUME NEW r PROVE MyPRMenu(r) \subseteq Offerable /\ MyPRMenu(r) \cap WaysOn # {}
<1>1. "prompt" \in MyPRMenu(r)
  BY DEF MyPRMenu
<1>2. MyPRMenu(r) \subseteq Offerable
  BY DEF MyPRMenu, When, Offerable, Known
<1> QED
  BY <1>1, <1>2 DEF WaysOn

LEMMA ReviewMenuKnown ==
  ASSUME NEW r PROVE ReviewMenu(r) \subseteq Offerable /\ ReviewMenu(r) \cap WaysOn # {}
<1>1. "prompt" \in ReviewMenu(r)
  BY DEF ReviewMenu
<1>2. ReviewMenu(r) \subseteq Offerable
  BY DEF ReviewMenu, When, Offerable, Known
<1> QED
  BY <1>1, <1>2 DEF WaysOn

LEMMA GenericMenuKnown ==
  ASSUME NEW r PROVE GenericMenu(r) \subseteq Offerable /\ GenericMenu(r) \cap WaysOn # {}
<1>1. "prompt" \in GenericMenu(r)
  BY DEF GenericMenu
<1>2. GenericMenu(r) \subseteq Offerable
  BY DEF GenericMenu, When, Offerable, Known
<1> QED
  BY <1>1, <1>2 DEF WaysOn

LEMMA IssueMenuKnown ==
  ASSUME NEW r PROVE IssueMenu(r) \subseteq Offerable /\ IssueMenu(r) \cap WaysOn # {}
<1>1. "prompt" \in IssueMenu(r)
  BY DEF IssueMenu
<1>2. IssueMenu(r) \subseteq Offerable
  BY DEF IssueMenu, When, Offerable, Known
<1> QED
  BY <1>1, <1>2 DEF WaysOn

LEMMA MenuKnown ==
  ASSUME NEW q, NEW r PROVE Menu(q, r) \subseteq Offerable /\ Menu(q, r) \cap WaysOn # {}
<1>1. Menu(q, r) \in {HeldMenu, DependabotMenu(r), MyPRMenu(r), ReviewMenu(r),
                      GenericMenu(r), IssueMenu(r)}
  BY DEF Menu
<1> QED
  BY <1>1, HeldMenuKnown, DependabotMenuKnown, MyPRMenuKnown, ReviewMenuKnown,
     GenericMenuKnown, IssueMenuKnown

LEMMA ShownKeepsTypes ==
  ASSUME TypeOK, card # "none", NEW signals \in Signals(queue), Shown(signals)
  PROVE  TypeOK'
BY DEF TypeOK, Shown, session

LEMMA FinishKeepsTypes == ASSUME TypeOK, Finish PROVE TypeOK'
<1>1. PICK message, dependabot :
        /\ menu' = menu \cup StateDriftFollowups(raw, message, dependabot)
        /\ added' = added \cup (StateDriftFollowups(raw, message, dependabot) \ menu)
  BY DEF Finish
<1>2. StateDriftFollowups(raw, message, dependabot) \subseteq FollowUps
  BY FollowUpsKnown
<1>3. FollowUps \subseteq Known
  BY DEF FollowUps, Known
<1>4. menu' \subseteq Known \cup {"resolve-conflicts"} /\ added' \subseteq menu' \cap FollowUps
  BY <1>1, <1>2, <1>3 DEF TypeOK
<1>5. menu \subseteq menu'
  BY <1>1
<1> QED
  BY <1>4, <1>5 DEF Finish, TypeOK

\* The card is well typed: its menu is of actions the program knows (but for
\* resolve-conflicts), and always leaves a way on when it is triaged.
THEOREM MenuTypeCorrect == Spec => []TypeOK
<1>1. Init => TypeOK
  <2> SUFFICES ASSUME Init PROVE TypeOK
    OBVIOUS
  <2>1. acts \in 0..MaxActions
    BY MenuAssumption DEF Init
  <2>2. pull \in Signals(queue) /\ toggles \in Toggles \cup {{}}
    BY OpenedAssumption DEF Init
  <2> QED
    BY <2>1, <2>2 DEF Init, TypeOK
<1>2. TypeOK /\ [Next]_vars => TypeOK'
  <2> SUFFICES ASSUME TypeOK, [Next]_vars PROVE TypeOK'
    OBVIOUS
  <2>1. CASE Update
    BY <2>1, TouchedIsPR DEF TypeOK, Update, Signals, session
  <2>2. CASE Fetch
    BY <2>2, FetchedSignals DEF TypeOK, Fetch, session
  <2>3. CASE Judge
    BY <2>3 DEF TypeOK, Judge, session
  <2>4. CASE Record
    <3>1. menu' \subseteq Offerable /\ menu' \cap WaysOn # {}
      BY <2>4, MenuKnown DEF Record
    <3> QED
      BY <2>4, <3>1 DEF TypeOK, Record, Offerable, WaysOn, session
  <2>5. CASE Refresh
    BY <2>5, FetchedSignals, ShownKeepsTypes DEF Refresh, TypeOK
  <2>6. CASE RefreshOne
    BY <2>6, ListedIsPR, ShownKeepsTypes DEF RefreshOne, TypeOK, Signals
  <2>7. CASE Retriage
    BY <2>7, ListedIsPR DEF Retriage, TypeOK, Signals, session
  <2>8. CASE Decide
    BY <2>8, DecidedIsPR DEF Decide, TypeOK, Signals, session
  <2>9. CASE QuietRefresh
    BY <2>9, QuietIsPR DEF QuietRefresh, TypeOK, Signals, session
  <2>10. CASE Act
    <3>1. acts' \in 0..MaxActions /\ running' \in BOOLEAN
      BY <2>10, MenuAssumption DEF Act, TypeOK
    <3> QED
      BY <2>10, <3>1 DEF Act, TypeOK
  <2>11. CASE Finish
    BY <2>11, FinishKeepsTypes
  <2>12. CASE UNCHANGED vars
    BY <2>12 DEF vars, session, TypeOK
  <2> QED
    BY <2>1, <2>2, <2>3, <2>4, <2>5, <2>6, <2>7, <2>8, <2>9, <2>10, <2>11, <2>12 DEF Next
<1> QED
  BY <1>1, <1>2, PTL DEF Spec
-----------------------------------------------------------------------------
(* What GitHub has.  approve-merge may be offered for conflicts GitHub had *)
(* all along, on a queue that asks for them, once GitHub has said whether  *)
(* there are any.  Two kinds of copy are why: the single fetch of a card,  *)
(* fetch_one_pr, leaves the conflicts out (MCStaleMenu.cfg); and a copy    *)
(* made before GitHub knew is carried forward with a fresh mergeable       *)
(* beside it (github.py:401-416).  There is no third.                      *)

\* What a card newly shows is, as a whole, what the fetcher of its queue brings.
QueueFetch == raw' \in Fetched(queue, pull) \cup {raw}

\* The queue asks for conflicts.
Informed ==
  /\ queue \notin {"issues", "failing-dependabot-prs"}
  /\ queue = "generic" => "merge_state" \in toggles

\* A copy that was made when GitHub knew shows the conflicts it had.
Faithful(r) == r.mergeable # "UNKNOWN" => r.conflicts = pull.conflicts

\* GitHub does not contradict itself, and what was not updated since is what it has.
NotOutrun ==
  /\ queue # "issues" /\ pull.mergeable # "UNKNOWN" =>
       pull.mergeable = Verdict(pull.conflicts)
  /\ Informed /\ moved = "no" =>
       /\ card # "none" => Faithful(raw)
       /\ card \in {"triaging", "triaged"} => Faithful(judged)

LEMMA FetchedConflicts ==
  ASSUME Informed, queue \in Queues, pull \in PRs,
         pull.mergeable # "UNKNOWN" => pull.mergeable = Verdict(pull.conflicts),
         NEW r \in Fetched(queue, pull)
  PROVE  Faithful(r)
<1>1. \A a \in Hydrated(pull) :
        a.mergeable = pull.mergeable /\ (a.mergeable # "UNKNOWN" => a.conflicts = pull.conflicts)
  BY DEF Hydrated, PRs
<1>2. LET u == Unhydrated(pull)
      IN u.mergeable = pull.mergeable /\ (u.mergeable # "UNKNOWN" => u.conflicts = pull.conflicts)
  BY DEF Unhydrated, PRs, Verdict
<1>3. \A a \in Hydrated(pull) \cup {Unhydrated(pull)} : a \in PRs /\ Faithful(a)
  BY <1>1, <1>2, HydratedIsPR, UnhydratedIsPR DEF Faithful
<1>4. CASE queue \in {"my-prs", "review-requested"}
  BY <1>3, <1>4 DEF Fetched
<1>5. CASE queue = "generic"
  <2>1. PICK a \in Hydrated(pull) \cup {Unhydrated(pull)} : r = Asked(toggles, a)
    BY <1>5 DEF Fetched
  <2>2. a \in PRs /\ Faithful(a)
    BY <1>3
  <2>3. r.mergeable = a.mergeable /\ r.conflicts = (a.conflicts /\ "merge_state" \in toggles)
    BY <2>1, <2>2 DEF Asked, PRs
  <2>4. "merge_state" \in toggles /\ a.conflicts \in BOOLEAN
    BY <1>5, <2>2 DEF Informed, PRs
  <2> QED
    BY <2>2, <2>3, <2>4 DEF Faithful
<1> QED
  BY <1>4, <1>5 DEF Informed, Queues

LEMMA TouchedAgrees ==
  ASSUME NEW p \in PRs, p.mergeable # "UNKNOWN" => p.mergeable = Verdict(p.conflicts),
         NEW r \in Touched(p), r.mergeable # "UNKNOWN"
  PROVE  r.mergeable = Verdict(r.conflicts)
<1> DEFINE now == [p EXCEPT !.age = 0]
<1>1. now \in PRs /\ now.mergeable = p.mergeable /\ now.conflicts = p.conflicts
  BY MenuAssumption DEF PRs
<1> HIDE DEF now
<1>2. CASE \E l \in Labels : r = [now EXCEPT !.label = l]
  BY <1>1, <1>2 DEF PRs
<1>3. CASE \E c \in {"passing", "failing"} : r = [now EXCEPT !.ci = c]
  BY <1>1, <1>3 DEF PRs
<1>4. CASE \E c \in BOOLEAN : r = [now EXCEPT !.mergeable = Verdict(c), !.conflicts = c]
  BY <1>1, <1>4 DEF PRs
<1>5. CASE \E c \in BOOLEAN : r = [now EXCEPT !.mergeable = "UNKNOWN", !.conflicts = c]
  BY <1>1, <1>5 DEF PRs
<1>6. CASE \E d \in BOOLEAN : r = [now EXCEPT !.draft = d]
  BY <1>1, <1>6 DEF PRs
<1> QED
  BY <1>2, <1>3, <1>4, <1>5, <1>6 DEF Touched, now

LEMMA NotOutrunNext ==
  ASSUME Judgement, NotOutrun, [Next]_vars, [QueueFetch]_vars
  PROVE  NotOutrun'
<1>1. CASE UNCHANGED vars
  BY <1>1 DEF vars, NotOutrun, Informed, Faithful
<1>2. CASE Update
  <2>1. pull \in PRs /\ pull' \in Touched(pull) /\ moved' # "no" /\ queue' = queue
    BY <1>2 DEF Update, Judgement, Signals
  <2>2. pull'.mergeable # "UNKNOWN" => pull'.mergeable = Verdict(pull'.conflicts)
    BY <2>1, TouchedAgrees, <1>2 DEF NotOutrun, Update
  <2> QED
    BY <2>1, <2>2 DEF NotOutrun
<1>3. CASE Decide
  <2>1. pull \in PRs
    BY <1>3 DEF Decide, Judgement, Signals
  <2>2. pull'.conflicts = pull.conflicts /\ pull'.mergeable = Verdict(pull.conflicts)
    BY <1>3, <2>1 DEF Decide, PRs
  <2> QED
    BY <1>3, <2>2 DEF Decide, NotOutrun, Informed, Faithful
<1>4. ASSUME NEW signals \in Fetched(queue, pull), Informed
      PROVE  Faithful(signals)
  BY <1>4, FetchedConflicts DEF NotOutrun, Judgement, Informed, Signals
<1>5. CASE Fetch
  BY <1>4, <1>5 DEF Fetch, NotOutrun, Informed, Faithful
<1>6. CASE Judge \/ Record \/ Act \/ Finish
  BY <1>6 DEF Judge, Record, Act, Finish, NotOutrun, Informed, Faithful, session
<1>7. ASSUME NEW signals, Shown(signals), card # "none", QueueFetch
      PROVE  NotOutrun'
  BY <1>4, <1>7 DEF Shown, QueueFetch, NotOutrun, Informed, Faithful
<1>8. CASE (Refresh \/ RefreshOne) /\ ~UNCHANGED vars
  BY <1>7, <1>8 DEF Refresh, RefreshOne
<1>9. CASE (QuietRefresh \/ Retriage) /\ ~UNCHANGED vars
  <2>1. UNCHANGED <<queue, toggles, pull>> /\ card # "none" /\ QueueFetch
    BY <1>9 DEF QuietRefresh, Retriage
  <2>2. moved' = "no" => moved = "no"
    BY <1>9 DEF QuietRefresh, Retriage
  <2>3. card' \in {"triaging", "triaged"} => card' = card /\ judged' = judged
    BY <1>9 DEF QuietRefresh, Retriage
  <2> QED
    BY <1>4, <2>1, <2>2, <2>3 DEF QueueFetch, NotOutrun, Informed, Faithful
<1> QED
  BY <1>1, <1>2, <1>3, <1>5, <1>6, <1>8, <1>9 DEF Next

\* Were what a card shows always, as a whole, what the fetcher of its queue brings,
\* approve-merge would not be offered for conflicts that GitHub had, and knew of, when
\* the card was judged (runner.py:415, triage.py:767).
THEOREM QueueFetchesReflectPull ==
  Spec /\ [][QueueFetch]_vars => []MergeReflectsPull
<1>1. Init => NotOutrun
  BY DEF Init, NotOutrun
<1>2. Judgement /\ NotOutrun => MergeReflectsPull
  <2> SUFFICES ASSUME Judgement, NotOutrun, TriagedPR, moved = "no", "approve-merge" \in menu,
                      queue = "generic" => "merge_state" \in toggles,
                      judged.mergeable # "UNKNOWN", queue # "failing-dependabot-prs"
               PROVE  ~pull.conflicts
    BY DEF MergeReflectsPull
  <2>1. /\ judged \in PRs /\ queue \in Queues /\ queue # "issues"
        /\ "approve-merge" \in Menu(queue, judged)
    BY DEF Judgement, TriagedPR, Signals, FollowUps
  <2>2. ~judged.conflicts
    BY <2>1, MergeOffered
  <2>3. Faithful(judged)
    BY <2>1 DEF NotOutrun, Informed, TriagedPR
  <2> QED
    BY <2>2, <2>3 DEF Faithful
<1> QED
  BY <1>1, <1>2, NotOutrunNext, JudgementHolds, PTL DEF Spec
=============================================================================
