------------------------------- MODULE MCMenus -------------------------------
(* The instance of TriageMenu for the model checker: a discussion of each    *)
(* kind that the rules tell apart, and of the signals of a pull request      *)
(* those that the rules of its queue look at.                                *)
EXTENDS TriageMenu

Operator == [by |-> "operator", text |-> {}]
Person   == [by |-> "person", text |-> {"boilerplate"}]
Process  == [by |-> "bot", text |-> {"boilerplate"}]
Concern  == [by |-> "bot", text |-> {"boilerplate", "substantive"}]

MCDiscussion == {{}, {Operator}, {Person}, {Concern}, {Operator, Process, Concern}}

\* What is left out comes by an update, or the rules treat it as they do what is kept.
\* A fork open to its maintainers is as good as a branch, WIP as good as hold; where
\* it holds, threads, age and approvals are not looked at; nor is the age where
\* something else stands in the way.
Looked ==
  {p \in PRs :
     /\ p.label # "WIP" /\ p.fork # "open"
     /\ p.review => p.author # "bot"
     /\ p.label = "hold" => p.threads = {} /\ p.age = 0 /\ ~p.gated /\ ~p.draft}

MCOpened ==
  [q \in Queues |->
     CASE q = "issues" -> Issues
       [] q = "failing-dependabot-prs" ->
            {p \in Looked : p.threads = {} /\ ~p.gated /\ p.fork = "no"}
       [] q = "my-prs" ->
            {p \in Looked : ~p.gated /\ p.fork = "no" /\ p.age = 0}
       [] q = "review-requested" ->
            {p \in Looked : /\ ~p.gated /\ p.age = 0 /\ ~p.review
                            /\ p.mergeable = "UNKNOWN" => p.conflicts}
       [] OTHER ->
            {p \in Looked :
               /\ p.threads \in {{}, {Operator, Process, Concern}}
               /\ p.age > 0 => p.ci = "passing" /\ ~p.gated /\ ~p.draft
               /\ p.review => p.author = "operator"
               /\ p.mergeable = "UNKNOWN" => p.conflicts}]

MCToggles == {{}, {"ci_status", "merge_state", "review_threads"}}
=============================================================================
