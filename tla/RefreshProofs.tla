--------------------------- MODULE RefreshProofs ---------------------------
(***************************************************************************)
(* Theorems about Refresh, for any number of pull requests, runners and    *)
(* callers, and any number of updates.                                     *)
(***************************************************************************)
EXTENDS Refresh, FiniteSetTheorems, TLAPS

\* A copy as good as CopyNotBehind asks for, in every local a copy passes through.
LocalsNotBehind ==
  /\ \A r \in Runner, p \in PR :
       /\ NotBehind(p, run[r].prior[p])
       /\ NotBehind(p, run[r].fetched[p])
  /\ \A c \in Caller : call[c].raw.merge # "known"

\* What was listed is not newer than the pull request, which is what its past
\* ends with.
ListedBefore ==
  /\ \A p \in PR : upstream[p] \in past[p] /\ upstream[p].at <= clock
  /\ \A r \in Runner, p \in PR : run[r].fetched[p].at <= upstream[p].at

Inv == TypeOK /\ CopyNotBehind /\ LocalsNotBehind /\ ListedBefore

-----------------------------------------------------------------------------
(* Copies and cards.                                                       *)

\* The fetch of a pull request brings a copy.
LEMMA FetchedTyped ==
  ASSUME NEW prior \in Raws, NEW at \in Nat, NEW u \in Versions,
         NEW raw \in Fetched(prior, at, u)
  PROVE  raw \in Raws /\ raw.at = at
<1>1. Hydrated(at, u) \in Raws /\ Hydrated(at, u).at = at
  BY DEF Hydrated, Raws, Versions, Merges
<1>2. Unhydrated(at) \in Raws /\ Unhydrated(at).at = at
  BY DEF Unhydrated, Raws, Merges, Verdicts
<1>3. Carried(prior) \in Raws /\ Carried(prior).at = prior.at
  BY DEF Carried, Raws
<1> QED
  BY <1>1, <1>2, <1>3 DEF Fetched

LEMMA NoRawTyped == NoRaw \in Raws /\ NoRaw.merge # "known" /\ NoRaw.at = 0
BY DEF NoRaw, Raws, Merges, Verdicts, None

LEMMA SingleTyped ==
  ASSUME NEW u \in Versions
  PROVE  Single(u) \in Raws /\ Single(u).merge # "known"
BY DEF Single, Raws, Versions, Merges, None

LEMMA NoCardTyped == NoCard \in Cards /\ NoCard.raw = NoRaw /\ NoCard.state = None
BY DEF NoCard, Cards, Marks, Signals, NoRaw, Raws, Merges, Verdicts, States, None, Initial

LEMMA NewTyped ==
  ASSUME NEW raw \in Raws
  PROVE  New(raw) \in Cards /\ New(raw).raw = raw /\ New(raw).state # None
BY NoCardTyped DEF New, NoCard, Cards, States, Initial, None

LEMMA BackTyped ==
  ASSUME NEW c \in Cards, NEW raw \in Raws
  PROVE  Back(c, raw) \in Cards /\ Back(c, raw).raw = raw /\ Back(c, raw).state # None
BY DEF Back, Cards, States, Initial, None

LEMMA ParkedTyped ==
  ASSUME NEW c \in Cards
  PROVE  Parked(c) \in Cards /\ Parked(c).raw = c.raw /\ Parked(c).state # None
BY DEF Parked, Cards, States, Initial, None, Signals, Raws, Marks

\* A refresh stores the data it was given, on a card that stays on the board.
LEMMA RefreshedTyped ==
  ASSUME NEW c \in Cards, c.state # None, NEW raw \in Raws
  PROVE  /\ Refreshed(c, raw) \in Cards
         /\ Refreshed(c, raw).raw = raw
         /\ Refreshed(c, raw).state # None
<1>1. /\ Unparked(c, raw) \in Cards /\ Unparked(c, raw).raw = raw
      /\ Unparked(c, raw).state # None
  BY BackTyped, NoCardTyped DEF Unparked, Cards
<1>2. /\ [c EXCEPT !.raw = raw] \in Cards /\ [c EXCEPT !.raw = raw].raw = raw
      /\ [c EXCEPT !.raw = raw].state # None
  BY DEF Cards
<1>3. /\ [c EXCEPT !.raw = raw, !.triaged = 0] \in Cards
      /\ [c EXCEPT !.raw = raw, !.triaged = 0].raw = raw
      /\ [c EXCEPT !.raw = raw, !.triaged = 0].state # None
  BY DEF Cards
<1>4. \/ Refreshed(c, raw) = [c EXCEPT !.raw = raw]
      \/ Refreshed(c, raw) = Unparked(c, raw)
      \/ Refreshed(c, raw) = Back(c, raw)
      \/ Refreshed(c, raw) = [c EXCEPT !.raw = raw, !.triaged = 0]
  BY DEF Refreshed
<1> QED
  BY <1>1, <1>2, <1>3, <1>4, BackTyped
-----------------------------------------------------------------------------
(* Runs.                                                                   *)

LEMMA IdleTyped ==
  /\ Idle \in Runs
  /\ \A p \in PR : Idle.prior[p] = NoRaw /\ Idle.fetched[p] = NoRaw
BY NoRawTyped DEF Idle, Runs

LEMMA PlacesTyped ==
  ASSUME NEW m \in Nat, NEW n \in Nat
  PROVE  Places(m, n) \in Nat /\ Min2(m, n) \in Nat
BY DEF Places, Min2

LEMMA NonDoneFinite == Cardinality(NonDone) \in Nat
<1>1. NonDone \subseteq PR
  BY DEF NonDone
<1>2. IsFiniteSet(NonDone)
  BY <1>1, RefreshAssumption, FS_Subset DEF RefreshAssumption
<1> QED
  BY <1>2, FS_CardinalityType

\* The past of a pull request only grows, and what a copy showed of it stays true.
LEMMA PastGrows ==
  ASSUME NEW p \in PR, NEW raw, NotBehind(p, raw), past[p] \subseteq past'[p]
  PROVE  NotBehind(p, raw)'
BY DEF NotBehind

\* A copy shows what the fetch found, or what the copy before it showed.
LEMMA FetchedNotBehind ==
  ASSUME TypeOK, ListedBefore, NEW r \in Runner, NEW p \in PR,
         NotBehind(p, run[r].prior[p]),
         NEW raw \in Fetched(run[r].prior[p], run[r].fetched[p].at, upstream[p])
  PROVE  NotBehind(p, raw)
<1> DEFINE at == run[r].fetched[p].at
           prior == run[r].prior[p]
<1>1. /\ upstream[p] \in past[p] /\ upstream[p].at >= at
      /\ at \in Nat /\ prior \in Raws /\ upstream[p] \in Versions
  BY DEF TypeOK, ListedBefore, Runs, Raws, Versions
<1>2. NotBehind(p, Hydrated(at, upstream[p]))
  BY <1>1 DEF NotBehind, Hydrated
<1>3. NotBehind(p, Unhydrated(at))
  BY DEF NotBehind, Unhydrated
<1>4. NotBehind(p, Carried(prior))
  BY <1>1 DEF NotBehind, Carried, Raws
<1> QED
  BY <1>2, <1>3, <1>4 DEF Fetched
-----------------------------------------------------------------------------
(* The invariant holds at the start and is kept by every step.             *)

LEMMA InitInv == Init => Inv
<1> SUFFICES ASSUME Init PROVE Inv
  OBVIOUS
<1> USE DEF Init
<1>1. PICK f \in [PR -> Contents] :
        upstream = [p \in PR |-> [at |-> 1, head |-> 1, ci |-> f[p].ci,
                                  threads |-> f[p].threads]]
  OBVIOUS
<1>2. \A p \in PR : f[p] \in [ci : Verdicts, threads : BOOLEAN]
  BY RefreshAssumption DEF RefreshAssumption
<1>3. upstream \in [PR -> Versions] /\ \A p \in PR : upstream[p].at = 1
  BY <1>1, <1>2 DEF Versions
<1>4. past \in [PR -> SUBSET Versions] /\ \A p \in PR : upstream[p] \in past[p]
  BY <1>3
<1>5. run \in [Runner -> Runs] /\ \A r \in Runner : run[r] = Idle
  BY IdleTyped
<1>6. call \in [Caller -> Calls] /\ \A c \in Caller : call[c] = NoCall
  BY NoRawTyped DEF NoCall, Calls
<1>7. triage \in [Worker -> Triages] /\ \A w \in Worker : triage[w] = NoTriage
  BY DEF NoTriage, Triages
<1>8. TypeOK
  BY <1>3, <1>4, <1>5, <1>6, <1>7, NoCardTyped DEF TypeOK, NoCall, NoTriage
<1>9. CopyNotBehind
  BY NoCardTyped, NoRawTyped DEF CopyNotBehind, NotBehind
<1>10. LocalsNotBehind
  BY <1>5, <1>6, IdleTyped, NoRawTyped DEF LocalsNotBehind, NotBehind, NoCall
<1>11. ListedBefore
  BY <1>3, <1>4, <1>5, IdleTyped, NoRawTyped DEF ListedBefore
<1> QED
  BY <1>8, <1>9, <1>10, <1>11 DEF Inv

\* A step that leaves the pull requests and the board alone, and a call with no
\* hydrated copy in its hands.
LEMMA RunStep ==
  ASSUME Inv, UNCHANGED <<githubVars, boardVars, call>>, UNCHANGED triageVars,
         NEW r \in Runner, NEW s \in Runs, run' = [run EXCEPT ![r] = s],
         \A p \in PR : /\ NotBehind(p, s.prior[p]) /\ NotBehind(p, s.fetched[p])
                       /\ s.fetched[p].at <= upstream[p].at
  PROVE  Inv'
<1> USE DEF Inv, githubVars, boardVars, triageVars
<1>1. TypeOK'
  BY DEF TypeOK
<1>2. CopyNotBehind'
  BY DEF CopyNotBehind, NotBehind
<1>3. LocalsNotBehind'
  <2>1. \A q \in Runner, p \in PR :
          NotBehind(p, run'[q].prior[p]) /\ NotBehind(p, run'[q].fetched[p])
    BY DEF LocalsNotBehind, TypeOK
  <2> QED
    BY <2>1 DEF LocalsNotBehind, NotBehind
<1>4. ListedBefore'
  BY DEF ListedBefore, TypeOK
<1> QED
  BY <1>1, <1>2, <1>3, <1>4

\* A step that writes cards: what it writes are cards, with copies not behind.
LEMMA CardStep ==
  ASSUME Inv, UNCHANGED <<githubVars, run, triageVars>>,
         moves' \in Nat, calls' \in Nat,
         call' \in [Caller -> Calls],
         \A c \in Caller : /\ call'[c].pc # "idle" => call'[c].pr \in PR
                          /\ call'[c].raw.merge # "known",
         card' \in [PR -> Cards],
         \A p \in PR : card'[p].state = None => card'[p] = NoCard,
         \A p \in PR : NotBehind(p, card'[p].raw)
  PROVE  Inv'
<1> USE DEF Inv, githubVars, triageVars
<1>1. TypeOK'
  BY DEF TypeOK
<1>2. CopyNotBehind'
  BY DEF CopyNotBehind, NotBehind
<1>3. LocalsNotBehind'
  BY DEF LocalsNotBehind, NotBehind
<1>4. ListedBefore'
  BY DEF ListedBefore
<1> QED
  BY <1>1, <1>2, <1>3, <1>4

\* A step of the triage threads, or of those who stop them.
LEMMA TriageStep ==
  ASSUME Inv, UNCHANGED <<githubVars, card, run>>,
         moves' \in Nat, calls' \in Nat,
         call' \in [Caller -> Calls],
         \A c \in Caller : /\ call'[c].pc # "idle" => call'[c].pr \in PR
                          /\ call'[c].raw.merge # "known",
         triage' \in [Worker -> Triages],
         \A w \in Worker : triage'[w].phase # "free" => triage'[w].pr \in PR,
         aborted' \subseteq Worker
  PROVE  Inv'
<1> USE DEF Inv, githubVars
<1>1. TypeOK'
  BY DEF TypeOK
<1>2. CopyNotBehind'
  BY DEF CopyNotBehind, NotBehind
<1>3. LocalsNotBehind'
  BY DEF LocalsNotBehind, NotBehind
<1>4. ListedBefore'
  BY DEF ListedBefore
<1> QED
  BY <1>1, <1>2, <1>3, <1>4

LEMMA UpdateInv ==
  ASSUME Inv, NEW p \in PR, Update(p)
  PROVE  Inv'
<1> USE DEF Inv
<1> DEFINE u == upstream'[p]
<1>1. PICK c \in Contents, n \in {0, 1} :
        upstream' = [upstream EXCEPT ![p] =
          [at |-> clock + 1, head |-> @.head + n, ci |-> c.ci, threads |-> c.threads]]
  BY DEF Update
<1>2. c \in [ci : Verdicts, threads : BOOLEAN]
  BY RefreshAssumption DEF RefreshAssumption
<1>3. /\ clock' = clock + 1 /\ clock \in Nat
      /\ past' = [past EXCEPT ![p] = @ \cup {u}]
      /\ feed' \subseteq PR
      /\ UNCHANGED <<card, moves, calls, run, call, triage, aborted>>
  BY DEF Update, boardVars, triageVars, TypeOK
<1>4. upstream[p] \in Versions
  BY DEF TypeOK
<1>5. u = [at |-> clock + 1, head |-> upstream[p].head + n, ci |-> c.ci,
           threads |-> c.threads]
  BY <1>1 DEF TypeOK
<1>6. u \in Versions /\ u.at = clock + 1
  BY <1>2, <1>3, <1>4, <1>5 DEF Versions
<1>7. upstream' \in [PR -> Versions] /\ \A q \in PR : q # p => upstream'[q] = upstream[q]
  BY <1>1, <1>5, <1>6 DEF TypeOK
<1> HIDE DEF u
<1>8. /\ past' \in [PR -> SUBSET Versions] /\ u \in past'[p]
      /\ \A q \in PR : past[q] \subseteq past'[q]
  BY <1>3, <1>6 DEF TypeOK
<1>9. TypeOK'
  BY <1>3, <1>7, <1>8 DEF TypeOK
<1>10. CopyNotBehind' /\ LocalsNotBehind'
  BY <1>3, <1>8, PastGrows DEF CopyNotBehind, LocalsNotBehind
<1>11. ListedBefore'
  <2>1. \A q \in PR : upstream'[q] \in past'[q]
    BY <1>7, <1>8 DEF ListedBefore, u
  <2>2. \A q \in PR : upstream[q].at \in Nat /\ upstream[q].at <= upstream'[q].at
                      /\ upstream'[q].at <= clock'
    BY <1>3, <1>6, <1>7 DEF ListedBefore, u, TypeOK, Versions
  <2>3. \A r \in Runner, q \in PR : run[r].fetched[q].at \in Nat
    BY DEF TypeOK, Runs, Raws
  <2>4. \A q \in PR : upstream'[q].at \in Nat
    BY <1>7 DEF Versions
  <2>5. \A r \in Runner, q \in PR : run'[r].fetched[q].at <= upstream'[q].at
    BY <1>3, <2>2, <2>3, <2>4 DEF ListedBefore
  <2> QED
    BY <2>1, <2>2, <2>5 DEF ListedBefore
<1> QED
  BY <1>9, <1>10, <1>11
-----------------------------------------------------------------------------
(* The steps of run_queue.                                                 *)

LEMMA BeginInv ==
  ASSUME Inv, NEW r \in Runner, Begin(r)
  PROVE  Inv'
<1> DEFINE s == [Idle EXCEPT !.pc = "list", !.prior = [p \in PR |-> card[p].raw],
                             !.slots = Places(MaxInFlight, Cardinality(NonDone))]
<1>1. \A p \in PR : card[p].raw \in Raws /\ NotBehind(p, card[p].raw)
  BY DEF Inv, TypeOK, Cards, CopyNotBehind
<1>2. Places(MaxInFlight, Cardinality(NonDone)) \in Nat
  BY PlacesTyped, NonDoneFinite, RefreshAssumption DEF RefreshAssumption
<1>3. s \in Runs
  BY <1>1, <1>2, IdleTyped DEF Runs
<1>4. \A p \in PR : s.prior[p] = card[p].raw /\ s.fetched[p] = NoRaw
  BY IdleTyped DEF Idle
<1>5. \A p \in PR : upstream[p].at \in Nat
  BY DEF Inv, TypeOK, Versions
<1>6. run' = [run EXCEPT ![r] = s]
  BY DEF Begin
<1> HIDE DEF s
<1>7. \A p \in PR : /\ NotBehind(p, s.prior[p]) /\ NotBehind(p, s.fetched[p])
                    /\ s.fetched[p].at <= upstream[p].at
  BY <1>1, <1>4, <1>5, NoRawTyped DEF NotBehind
<1> QED
  BY <1>3, <1>6, <1>7, RunStep DEF Begin

LEMMA ListInv ==
  ASSUME Inv, NEW r \in Runner, List(r)
  PROVE  Inv'
<1> DEFINE f == [p \in PR |-> IF p \in feed THEN [NoRaw EXCEPT !.at = upstream[p].at]
                                           ELSE NoRaw]
           pc == IF feed = {} THEN "apply" ELSE "hydrate"
           s == [run[r] EXCEPT !.pc = pc, !.picked = PR \ feed, !.fetched = f]
<1>1. \A p \in PR : upstream[p].at \in Nat
  BY DEF Inv, TypeOK, Versions
<1>2. \A p \in PR : /\ f[p] \in Raws /\ f[p].merge # "known" /\ f[p].at <= upstream[p].at
  BY <1>1, NoRawTyped DEF Raws
<1>3. run[r] \in Runs
  BY DEF Inv, TypeOK
<1>4. f \in [PR -> Raws]
  BY <1>2
<1>6. run' = [run EXCEPT ![r] = s]
  BY DEF List, Inv, TypeOK
<1> HIDE DEF f
<1>5. s \in Runs /\ s.prior = run[r].prior /\ s.fetched = f
  BY <1>3, <1>4 DEF Runs
<1> HIDE DEF s
<1>7. \A p \in PR : /\ NotBehind(p, s.prior[p]) /\ NotBehind(p, s.fetched[p])
                    /\ s.fetched[p].at <= upstream[p].at
  BY <1>1, <1>2, <1>5 DEF NotBehind, Inv, LocalsNotBehind
<1> QED
  BY <1>5, <1>6, <1>7, RunStep DEF List

LEMMA HydrateInv ==
  ASSUME Inv, NEW r \in Runner, NEW p \in PR, Hydrate(r, p)
  PROVE  Inv'
<1> DEFINE s(raw) == Answered(run[r], p, raw)
<1>1. PICK got \in Fetched(run[r].prior[p], run[r].fetched[p].at, upstream[p]) :
        Take(r, p, got)
  BY DEF Hydrate
<1> DEFINE raw == IF LeftOut(got) THEN NoRaw ELSE got
<1>0. run' = [run EXCEPT ![r] = s(raw)]
  BY <1>1 DEF Take
<1>2. run[r] \in Runs /\ upstream[p] \in Versions
  BY DEF Inv, TypeOK
<1>3. run[r].prior[p] \in Raws /\ run[r].fetched[p].at \in Nat
  BY <1>2 DEF Runs, Raws
<1>4. raw \in Raws /\ raw.at <= upstream[p].at
  <2>1. got \in Raws /\ got.at = run[r].fetched[p].at
    BY <1>1, <1>2, <1>3, FetchedTyped
  <2>2. upstream[p].at \in Nat /\ run[r].fetched[p].at <= upstream[p].at
    BY <1>2 DEF Versions, Inv, ListedBefore
  <2> QED
    BY <2>1, <2>2, NoRawTyped
<1>5. NotBehind(p, raw)
  <2>1. NotBehind(p, got)
    BY <1>1, FetchedNotBehind DEF Inv, LocalsNotBehind
  <2>2. NotBehind(p, NoRaw)
    BY NoRawTyped DEF NotBehind
  <2> QED
    BY <2>1, <2>2
<1>7. UNCHANGED <<githubVars, boardVars, call>> /\ UNCHANGED triageVars
  BY <1>1 DEF Take
<1> HIDE DEF raw
<1>6. /\ s(raw) \in Runs /\ s(raw).prior = run[r].prior
      /\ s(raw).fetched[p] = raw
      /\ \A q \in PR : q # p => s(raw).fetched[q] = run[r].fetched[q]
  BY <1>2, <1>4 DEF Runs, Answered
<1> HIDE DEF s
<1>8. \A q \in PR : /\ NotBehind(q, s(raw).prior[q]) /\ NotBehind(q, s(raw).fetched[q])
                    /\ s(raw).fetched[q].at <= upstream[q].at
  BY <1>4, <1>5, <1>6 DEF Inv, LocalsNotBehind, ListedBefore
<1> QED
  BY <1>0, <1>6, <1>7, <1>8, RunStep

LEMMA IdleStep ==
  ASSUME Inv, UNCHANGED <<githubVars, boardVars, call>>, UNCHANGED triageVars,
         NEW r \in Runner, NEW pc \in {"idle", "fanout"},
         run' = [run EXCEPT ![r] = [Idle EXCEPT !.pc = pc]]
  PROVE  Inv'
<1> DEFINE s == [Idle EXCEPT !.pc = pc]
<1>1. /\ s \in Runs
      /\ \A p \in PR : s.prior[p] = NoRaw /\ s.fetched[p] = NoRaw
  BY IdleTyped DEF Runs
<1>2. \A p \in PR : upstream[p].at \in Nat
  BY DEF Inv, TypeOK, Versions
<1> HIDE DEF s
<1>3. \A p \in PR : /\ NotBehind(p, s.prior[p]) /\ NotBehind(p, s.fetched[p])
                    /\ s.fetched[p].at <= upstream[p].at
  BY <1>1, <1>2, NoRawTyped DEF NotBehind
<1>4. run' = [run EXCEPT ![r] = s]
  BY DEF s
<1> QED
  BY <1>1, <1>3, <1>4, RunStep

LEMMA ListFailsInv ==
  ASSUME Inv, NEW r \in Runner, ListFails(r)
  PROVE  Inv'
<1>1. Idle = [Idle EXCEPT !.pc = "idle"]
  BY DEF Idle
<1> QED
  BY <1>1, IdleStep DEF ListFails

\* A refresh hands every card on the board what was fetched.
LEMMA ApplyInv ==
  ASSUME Inv, NEW r \in Runner, Apply(r)
  PROVE  Inv'
<1> USE DEF Inv
<1> DEFINE demoted == {p \in PR : Demoted(card[p], card'[p])}
           s == [run[r] EXCEPT !.pc = IF demoted = {} THEN "intake" ELSE "abort",
                               !.prior = Idle.prior, !.picked = demoted]
<1>1. /\ card' = [p \in PR |-> IF OnBoard(p) /\ p \in Brought(r)
                              THEN Refreshed(card[p], run[r].fetched[p]) ELSE card[p]]
      /\ UNCHANGED <<clock, upstream, feed, past, moves, calls, call, triage, aborted>>
  BY DEF Apply, githubVars, triageVars
<1>2. run' = [run EXCEPT ![r] = s]
  BY DEF Apply
<1>3. /\ run[r] \in Runs
      /\ \A p \in PR : card[p] \in Cards /\ run[r].fetched[p] \in Raws
  BY DEF TypeOK, Runs
<1>4. \A p \in PR : /\ card'[p] \in Cards
                    /\ card'[p].raw \in {card[p].raw, run[r].fetched[p]}
                    /\ card'[p].state = None => card'[p] = NoCard
  BY <1>1, <1>3, RefreshedTyped DEF OnBoard, TypeOK
<1>5. /\ s \in Runs /\ s.fetched = run[r].fetched /\ s.prior = Idle.prior
  BY <1>3, IdleTyped DEF Runs
<1> HIDE DEF s
<1>6. run' \in [Runner -> Runs]
  BY <1>2, <1>5 DEF TypeOK
<1>7. card' \in [PR -> Cards]
  BY <1>1, <1>4
<1>8. TypeOK'
  BY <1>1, <1>4, <1>6, <1>7 DEF TypeOK
<1>9. CopyNotBehind'
  BY <1>1, <1>4 DEF CopyNotBehind, LocalsNotBehind, NotBehind
<1>10. \A q \in Runner : /\ run'[q].fetched = run[q].fetched
                         /\ run'[q].prior \in {run[q].prior, Idle.prior}
  BY <1>2, <1>5 DEF TypeOK
<1>11. LocalsNotBehind'
  <2>1. \A q \in Runner, p \in PR :
          NotBehind(p, run'[q].prior[p]) /\ NotBehind(p, run'[q].fetched[p])
    BY <1>10, IdleTyped, NoRawTyped DEF LocalsNotBehind, NotBehind
  <2> QED
    BY <1>1, <2>1 DEF LocalsNotBehind, NotBehind
<1>12. ListedBefore'
  BY <1>1, <1>10 DEF ListedBefore
<1> QED
  BY <1>8, <1>9, <1>11, <1>12

\* A change of a run that leaves its copies alone.
LEMMA LocalStep ==
  ASSUME Inv, NEW r \in Runner, NEW pc \in {"intake", "upsert"}, NEW ps \in SUBSET PR
  PROVE  LET s == [run[r] EXCEPT !.pc = pc, !.picked = ps]
         IN /\ s \in Runs
            /\ \A p \in PR : /\ NotBehind(p, s.prior[p]) /\ NotBehind(p, s.fetched[p])
                             /\ s.fetched[p].at <= upstream[p].at
<1>1. run[r] \in Runs
  BY DEF Inv, TypeOK
<1> DEFINE s == [run[r] EXCEPT !.pc = pc, !.picked = ps]
<1>2. s \in Runs /\ s.prior = run[r].prior /\ s.fetched = run[r].fetched
  BY <1>1 DEF Runs
<1> HIDE DEF s
<1>3. \A p \in PR : /\ NotBehind(p, s.prior[p]) /\ NotBehind(p, s.fetched[p])
                    /\ s.fetched[p].at <= upstream[p].at
  BY <1>2 DEF Inv, LocalsNotBehind, ListedBefore
<1> QED
  BY <1>2, <1>3 DEF s

LEMMA AbortTriageTyped ==
  ASSUME TypeOK, NEW ps
  PROVE  AbortTriage(ps) \subseteq Worker
BY DEF AbortTriage, WithSession, TypeOK

LEMMA AbortDemotedInv ==
  ASSUME Inv, NEW r \in Runner, AbortDemoted(r)
  PROVE  Inv'
<1> USE DEF Inv
<1> DEFINE s == [run[r] EXCEPT !.pc = "intake", !.picked = {}]
<1>1. /\ run' = [run EXCEPT ![r] = s]
      /\ aborted' = AbortTriage(run[r].picked)
      /\ UNCHANGED <<clock, upstream, feed, past, card, moves, calls, call, triage>>
  BY DEF AbortDemoted, githubVars, boardVars
<1>2. /\ s \in Runs
      /\ \A p \in PR : /\ NotBehind(p, s.prior[p]) /\ NotBehind(p, s.fetched[p])
                       /\ s.fetched[p].at <= upstream[p].at
  BY LocalStep
<1> HIDE DEF s
<1>3. aborted' \subseteq Worker
  BY <1>1, AbortTriageTyped
<1>4. TypeOK'
  BY <1>1, <1>2, <1>3 DEF TypeOK
<1>5. CopyNotBehind'
  BY <1>1 DEF CopyNotBehind, NotBehind
<1>6. \A q \in Runner, p \in PR :
        /\ NotBehind(p, run'[q].prior[p]) /\ NotBehind(p, run'[q].fetched[p])
        /\ run'[q].fetched[p].at <= upstream[p].at
  BY <1>1, <1>2 DEF LocalsNotBehind, ListedBefore, TypeOK
<1>7. LocalsNotBehind'
  BY <1>1, <1>6 DEF LocalsNotBehind, NotBehind
<1>8. ListedBefore'
  BY <1>1, <1>6 DEF ListedBefore
<1> QED
  BY <1>4, <1>5, <1>7, <1>8

LEMMA PickInv ==
  ASSUME Inv, NEW r \in Runner, Pick(r)
  PROVE  Inv'
<1>1. PICK ps \in SUBSET PR :
        run' = [run EXCEPT ![r] =
          IF ps = {} THEN [Idle EXCEPT !.pc = "fanout"]
                     ELSE [@ EXCEPT !.pc = "upsert", !.picked = ps]]
  BY DEF Pick, Brought
<1>2. UNCHANGED <<githubVars, boardVars, call>> /\ UNCHANGED triageVars
  BY DEF Pick
<1>3. CASE ps = {}
  BY <1>1, <1>2, <1>3, IdleStep
<1>4. CASE ps # {}
  <2> DEFINE s == [run[r] EXCEPT !.pc = "upsert", !.picked = ps]
  <2>1. run' = [run EXCEPT ![r] = s]
    BY <1>1, <1>4
  <2>2. /\ s \in Runs
        /\ \A p \in PR : /\ NotBehind(p, s.prior[p]) /\ NotBehind(p, s.fetched[p])
                         /\ s.fetched[p].at <= upstream[p].at
    BY LocalStep
  <2> HIDE DEF s
  <2> QED
    BY <1>2, <2>1, <2>2, RunStep
<1> QED
  BY <1>3, <1>4

LEMMA UpsertInv ==
  ASSUME Inv, NEW r \in Runner, Upsert(r)
  PROVE  Inv'
<1> USE DEF Inv
<1> DEFINE s == [Idle EXCEPT !.pc = "fanout"]
<1>1. /\ run' = [run EXCEPT ![r] = s]
      /\ card' = [p \in PR |->
           IF p \notin run[r].picked THEN card[p]
             ELSE IF OnBoard(p) THEN [card[p] EXCEPT !.raw = run[r].fetched[p]]
                                ELSE New(run[r].fetched[p])]
      /\ UNCHANGED <<clock, upstream, feed, past, moves, calls, call, triage, aborted>>
  BY DEF Upsert, githubVars, triageVars
<1>2. /\ s \in Runs
      /\ \A p \in PR : s.prior[p] = NoRaw /\ s.fetched[p] = NoRaw
  BY IdleTyped DEF Runs
<1> HIDE DEF s
<1>3. \A p \in PR : card[p] \in Cards /\ run[r].fetched[p] \in Raws
  BY DEF TypeOK, Runs
<1>4. ASSUME NEW p \in PR
      PROVE  /\ card'[p] \in Cards
             /\ card'[p].raw \in {card[p].raw, run[r].fetched[p]}
             /\ card'[p].state = None => card'[p] = NoCard
  <2>1. /\ [card[p] EXCEPT !.raw = run[r].fetched[p]] \in Cards
        /\ [card[p] EXCEPT !.raw = run[r].fetched[p]].raw = run[r].fetched[p]
        /\ [card[p] EXCEPT !.raw = run[r].fetched[p]].state = card[p].state
    BY <1>3 DEF Cards
  <2> QED
    BY <1>1, <1>3, <2>1, NewTyped DEF OnBoard, TypeOK
<1>5. run' \in [Runner -> Runs]
  BY <1>1, <1>2 DEF TypeOK
<1>6. card' \in [PR -> Cards]
  BY <1>1, <1>4
<1>7. TypeOK'
  BY <1>1, <1>4, <1>5, <1>6 DEF TypeOK
<1>8. CopyNotBehind'
  <2>1. \A p \in PR : NotBehind(p, card'[p].raw)
    BY <1>4 DEF CopyNotBehind, LocalsNotBehind
  <2> QED
    BY <1>1, <2>1 DEF CopyNotBehind, NotBehind
<1>9. \A p \in PR : upstream[p].at \in Nat
  BY DEF TypeOK, Versions
<1>10. \A q \in Runner, p \in PR :
        /\ NotBehind(p, run'[q].prior[p]) /\ NotBehind(p, run'[q].fetched[p])
        /\ run'[q].fetched[p].at <= upstream[p].at
  <2>1. \A p \in PR : NotBehind(p, NoRaw) /\ NoRaw.at <= upstream[p].at
    BY <1>9, NoRawTyped DEF NotBehind
  <2> QED
    BY <1>1, <1>2, <2>1 DEF LocalsNotBehind, ListedBefore, TypeOK
<1>11. LocalsNotBehind'
  BY <1>1, <1>10 DEF LocalsNotBehind, NotBehind
<1>12. ListedBefore'
  BY <1>1, <1>10 DEF ListedBefore
<1> QED
  BY <1>7, <1>8, <1>11, <1>12

LEMMA FanOutInv ==
  ASSUME Inv, NEW r \in Runner, FanOut(r)
  PROVE  Inv'
<1> USE DEF Inv
<1> DEFINE s == [Idle EXCEPT !.pc = "idle"]
<1>1. PICK ps \in SUBSET {p \in PR : Waiting(p)}, ws \in SUBSET Free :
        \E f \in [ws -> ps] :
          triage' = [w \in Worker |-> IF w \in ws THEN Started(f[w]) ELSE triage[w]]
  BY DEF FanOut
<1>0. PICK f \in [ws -> ps] :
        triage' = [w \in Worker |-> IF w \in ws THEN Started(f[w]) ELSE triage[w]]
  BY <1>1
<1>2. /\ run' = [run EXCEPT ![r] = s]
      /\ UNCHANGED <<clock, upstream, feed, past, card, moves, calls, call, aborted>>
  BY DEF FanOut, githubVars, boardVars, Idle
<1>3. /\ s \in Runs
      /\ \A p \in PR : s.prior[p] = NoRaw /\ s.fetched[p] = NoRaw
  BY IdleTyped DEF Runs
<1> HIDE DEF s
<1>4. \A w \in Worker : /\ triage'[w] \in Triages
                        /\ triage'[w].phase # "free" => triage'[w].pr \in PR
  BY <1>0 DEF Started, Triages, TypeOK
<1>5. triage' \in [Worker -> Triages]
  BY <1>0, <1>4
<1>6. TypeOK'
  BY <1>2, <1>3, <1>4, <1>5 DEF TypeOK
<1>7. CopyNotBehind'
  BY <1>2 DEF CopyNotBehind, NotBehind
<1>8. \A p \in PR : NotBehind(p, NoRaw) /\ NoRaw.at <= upstream[p].at
  BY NoRawTyped DEF NotBehind, TypeOK, Versions
<1>9. \A q \in Runner, p \in PR :
        /\ NotBehind(p, run'[q].prior[p]) /\ NotBehind(p, run'[q].fetched[p])
        /\ run'[q].fetched[p].at <= upstream[p].at
  BY <1>2, <1>3, <1>8 DEF LocalsNotBehind, ListedBefore, TypeOK
<1>10. LocalsNotBehind'
  BY <1>2, <1>9 DEF LocalsNotBehind, NotBehind
<1>11. ListedBefore'
  BY <1>2, <1>9 DEF ListedBefore
<1> QED
  BY <1>6, <1>7, <1>10, <1>11

LEMMA RunInv ==
  ASSUME Inv, NEW r \in Runner, RunQueue(r) \/ List(r) \/ ListFails(r)
  PROVE  Inv'
BY BeginInv, ListInv, ListFailsInv, HydrateInv, ApplyInv, AbortDemotedInv, PickInv,
   UpsertInv, FanOutInv DEF RunQueue
-----------------------------------------------------------------------------
(* Triage threads, calls and moves.                                        *)

\* What the other steps need of the types.
LEMMA CallFacts ==
  ASSUME Inv
  PROVE  /\ call \in [Caller -> Calls] /\ moves \in Nat /\ calls \in Nat
         /\ \A c \in Caller : /\ call[c].pc # "idle" => call[c].pr \in PR
                              /\ call[c].raw.merge # "known"
         /\ triage \in [Worker -> Triages] /\ aborted \subseteq Worker
         /\ \A w \in Worker : triage[w].phase # "free" => triage[w].pr \in PR
         /\ card \in [PR -> Cards] /\ run \in [Runner -> Runs]
         /\ \A p \in PR : card[p].state = None => card[p] = NoCard
         /\ \A p \in PR : NotBehind(p, card[p].raw)
         /\ upstream \in [PR -> Versions]
BY DEF Inv, TypeOK, CopyNotBehind, LocalsNotBehind

LEMMA TriagerInv ==
  ASSUME Inv, NEW w \in Worker, Triager(w)
  PROVE  Inv'
<1> USE CallFacts
<1>0. ASSUME NEW to \in {"live", "answered", "idle"}, NEW from \in {"started", "live", "answered"},
             Moves(w, from, to)
      PROVE  /\ triage' \in [Worker -> Triages]
             /\ \A v \in Worker : triage'[v].phase # "free" => triage'[v].pr \in PR
             /\ UNCHANGED <<githubVars, run, call>>
  BY <1>0 DEF Moves, Triages
<1>1. CASE Register(w)
  BY <1>0, <1>1, TriageStep DEF Register, boardVars
<1>2. CASE Answer(w)
  BY <1>0, <1>2, TriageStep DEF Answer, boardVars
<1>3. CASE Record(w)
  <2>1. /\ triage' \in [Worker -> Triages]
        /\ \A v \in Worker : triage'[v].phase # "free" => triage'[v].pr \in PR
        /\ UNCHANGED <<githubVars, run, call, moves, calls, aborted>>
    BY <1>0, <1>3 DEF Record
  <2> DEFINE p == triage[w].pr
  <2>2. p \in PR
    BY <1>3 DEF Record, Moves
  <2>3. card' = [card EXCEPT ![p] = IF @.state = None THEN @ ELSE [@ EXCEPT !.triaged = clock]]
    BY <1>3 DEF Record
  <2>4. clock \in Nat
    BY DEF Inv, TypeOK
  <2>5. \A q \in PR : /\ card'[q] \in Cards /\ card'[q].raw = card[q].raw
                      /\ card'[q].state = None => card'[q] = NoCard
    BY <2>2, <2>3, <2>4 DEF Cards
  <2>6. card' \in [PR -> Cards]
    BY <2>3, <2>5
  <2>7. TypeOK'
    BY <2>1, <2>5, <2>6 DEF Inv, TypeOK, githubVars
  <2>8. CopyNotBehind' /\ LocalsNotBehind' /\ ListedBefore'
    BY <2>1, <2>5 DEF Inv, CopyNotBehind, LocalsNotBehind, ListedBefore, NotBehind, githubVars
  <2> QED
    BY <2>7, <2>8 DEF Inv
<1>4. CASE Expire(w)
  <2>1. /\ triage' \in [Worker -> Triages]
        /\ \A v \in Worker : triage'[v].phase # "free" => triage'[v].pr \in PR
    BY <1>4 DEF Expire, NoTriage, Triages
  <2> QED
    BY <1>4, <2>1, TriageStep DEF Expire, boardVars
<1> QED
  BY <1>1, <1>2, <1>3, <1>4 DEF Triager

LEMMA NoCallTyped == NoCall \in Calls /\ NoCall.pc = "idle" /\ NoCall.raw.merge # "known"
BY NoRawTyped DEF NoCall, Calls

\* A caller goes on, with no copy that was hydrated.
LEMMA CallerStep ==
  ASSUME Inv, NEW c \in Caller, NEW s \in Calls, call' = [call EXCEPT ![c] = s],
         s.pc # "idle" => s.pr \in PR, s.raw.merge # "known"
  PROVE  /\ call' \in [Caller -> Calls]
         /\ \A d \in Caller : /\ call'[d].pc # "idle" => call'[d].pr \in PR
                              /\ call'[d].raw.merge # "known"
BY CallFacts

LEMMA CallInv ==
  ASSUME Inv, NEW c \in Caller, NEW p \in PR, RefreshCall(c, p) \/ RetriageCall(c, p)
  PROVE  Inv'
<1> USE CallFacts
<1>1. PICK pc \in {"apply", "reset"}, raw \in {Single(upstream[p]), NoRaw} :
        Serve(c, p, [pc |-> pc, pr |-> p, raw |-> raw])
  BY DEF RefreshCall, RetriageCall
<1> DEFINE s == [pc |-> pc, pr |-> p, raw |-> raw]
<1>2. s \in Calls /\ s.pr \in PR /\ s.raw.merge # "known"
  BY NoRawTyped, SingleTyped DEF Calls
<1>3. /\ call' = [call EXCEPT ![c] = s] /\ calls' \in Nat
      /\ UNCHANGED <<githubVars, card, moves, run, triage>>
  BY <1>1 DEF Serve
<1> HIDE DEF s
<1>4. aborted' \subseteq Worker
  BY AbortTriageTyped DEF RefreshCall, RetriageCall, Inv
<1>5. /\ call' \in [Caller -> Calls]
      /\ \A d \in Caller : /\ call'[d].pc # "idle" => call'[d].pr \in PR
                           /\ call'[d].raw.merge # "known"
  BY <1>2, <1>3, CallerStep
<1> QED
  BY <1>3, <1>4, <1>5, TriageStep

LEMMA ApplyOneInv ==
  ASSUME Inv, NEW c \in Caller, ApplyOne(c)
  PROVE  Inv'
<1> USE CallFacts
<1> DEFINE p == call[c].pr
           raw == call[c].raw
<1>1. p \in PR /\ raw \in Raws /\ raw.merge # "known" /\ call[c] \in Calls
  BY DEF ApplyOne, Calls
<1>2. UNCHANGED <<githubVars, run, triageVars>> /\ moves' \in Nat /\ calls' \in Nat
  BY DEF ApplyOne
<1>3. CASE ~OnBoard(p)
  <2>1. call' = [call EXCEPT ![c] = NoCall] /\ card' = card
    BY <1>3 DEF ApplyOne
  <2>2. /\ call' \in [Caller -> Calls]
        /\ \A d \in Caller : /\ call'[d].pc # "idle" => call'[d].pr \in PR
                             /\ call'[d].raw.merge # "known"
    BY <2>1, NoCallTyped, CallerStep
  <2> QED
    BY <1>2, <2>1, <2>2, CardStep
<1>4. CASE OnBoard(p)
  <2>1. card' = [card EXCEPT ![p] = Refreshed(card[p], raw)]
    BY <1>4 DEF ApplyOne
  <2>2. PICK s \in {NoCall, [call[c] EXCEPT !.raw = NoRaw, !.pc = "stop"],
                           [call[c] EXCEPT !.raw = NoRaw, !.pc = "start"]} :
          call' = [call EXCEPT ![c] = s]
    <3>1. CASE ~Noticed(card[p], raw)
      BY <1>4, <3>1 DEF ApplyOne
    <3>2. CASE Noticed(card[p], raw) /\ Demoted(card[p], card'[p])
      BY <1>4, <3>2 DEF ApplyOne
    <3>3. CASE Noticed(card[p], raw) /\ ~Demoted(card[p], card'[p])
      BY <1>4, <3>3 DEF ApplyOne
    <3> QED
      BY <3>1, <3>2, <3>3
  <2>3. s \in Calls /\ (s.pc # "idle" => s.pr \in PR) /\ s.raw.merge # "known"
    BY <1>1, <2>2, NoCallTyped, NoRawTyped DEF Calls
  <2>4. /\ call' \in [Caller -> Calls]
        /\ \A d \in Caller : /\ call'[d].pc # "idle" => call'[d].pr \in PR
                             /\ call'[d].raw.merge # "known"
    BY <2>2, <2>3, CallerStep
  <2>5. /\ Refreshed(card[p], raw) \in Cards /\ Refreshed(card[p], raw).raw = raw
        /\ Refreshed(card[p], raw).state # None
    BY <1>1, <1>4, RefreshedTyped DEF OnBoard
  <2>6. NotBehind(p, raw)
    BY <1>1 DEF NotBehind
  <2> HIDE DEF p, raw
  <2>7. \A q \in PR : /\ card'[q] \in Cards /\ NotBehind(q, card'[q].raw)
                      /\ card'[q].state = None => card'[q] = NoCard
    BY <1>1, <2>1, <2>5, <2>6
  <2>8. card' \in [PR -> Cards]
    BY <2>1, <2>7
  <2> QED
    BY <1>2, <2>4, <2>7, <2>8, CardStep
<1> QED
  BY <1>3, <1>4

LEMMA ResetInv ==
  ASSUME Inv, NEW c \in Caller, Reset(c)
  PROVE  Inv'
<1> USE CallFacts
<1> DEFINE p == call[c].pr
           raw == IF call[c].raw = NoRaw THEN card[p].raw ELSE call[c].raw
           s == [call[c] EXCEPT !.pc = "restart", !.raw = NoRaw]
<1>1. p \in PR /\ call[c].raw \in Raws /\ call[c].raw.merge # "known" /\ call[c] \in Calls
  BY DEF Reset, Calls
<1>2. raw \in Raws /\ NotBehind(p, raw)
  BY <1>1 DEF Cards, NotBehind
<1>3. /\ UNCHANGED <<githubVars, run, triageVars>> /\ moves' \in Nat /\ calls' \in Nat
      /\ card' = [card EXCEPT ![p] = IF card[p].state = None THEN card[p]
                                     ELSE Back(card[p], raw)]
      /\ call' = [call EXCEPT ![c] = s]
  BY DEF Reset
<1>4. s \in Calls /\ (s.pc # "idle" => s.pr \in PR) /\ s.raw.merge # "known"
  BY <1>1, NoRawTyped DEF Calls
<1>5. /\ call' \in [Caller -> Calls]
      /\ \A d \in Caller : /\ call'[d].pc # "idle" => call'[d].pr \in PR
                           /\ call'[d].raw.merge # "known"
  BY <1>3, <1>4, CallerStep
<1>6. /\ Back(card[p], raw) \in Cards /\ Back(card[p], raw).raw = raw
      /\ Back(card[p], raw).state # None
  BY <1>1, <1>2, BackTyped
<1> HIDE DEF p, raw, s
<1>7. \A q \in PR : /\ card'[q] \in Cards /\ NotBehind(q, card'[q].raw)
                    /\ card'[q].state = None => card'[q] = NoCard
  BY <1>1, <1>2, <1>3, <1>6
<1>8. card' \in [PR -> Cards]
  BY <1>3, <1>7
<1> QED
  BY <1>3, <1>5, <1>7, <1>8, CardStep

\* The steps of a caller that start or stop a triage.
LEMMA ServesInv ==
  ASSUME Inv, NEW c \in Caller, Serves(c)
  PROVE  Inv'
<1> USE CallFacts
<1> DEFINE Typed == /\ triage' \in [Worker -> Triages]
                    /\ \A w \in Worker : triage'[w].phase # "free" => triage'[w].pr \in PR
<1>1. CASE StartIfWaiting(c) \/ StartAnyway(c)
  <2>1. call[c].pr \in PR
    BY <1>1 DEF StartIfWaiting, StartAnyway
  <2>2. \/ triage' = triage
        \/ \E w \in Free : triage' = [triage EXCEPT ![w] = Started(call[c].pr)]
    BY <1>1 DEF StartIfWaiting, StartAnyway
  <2> DEFINE t == Started(call[c].pr)
  <2>3. Typed
    <3>1. t \in Triages /\ t.pr \in PR
      BY <2>1 DEF Started, Triages
    <3> HIDE DEF t
    <3>2. ASSUME NEW w \in Free, triage' = [triage EXCEPT ![w] = t]
          PROVE  Typed
      BY <3>1, <3>2 DEF Free
    <3> QED
      BY <2>2, <3>2 DEF t
  <2>4. /\ call' = [call EXCEPT ![c] = NoCall]
        /\ UNCHANGED <<githubVars, card, moves, calls, run, aborted>>
    BY <1>1 DEF StartIfWaiting, StartAnyway, boardVars
  <2>5. /\ call' \in [Caller -> Calls]
        /\ \A d \in Caller : /\ call'[d].pc # "idle" => call'[d].pr \in PR
                             /\ call'[d].raw.merge # "known"
    BY <2>4, NoCallTyped, CallerStep
  <2> QED
    BY <2>3, <2>4, <2>5, TriageStep
<1>2. CASE StopTriage(c)
  <2> DEFINE s == [call[c] EXCEPT !.pc = "start"]
  <2>1. /\ call' = [call EXCEPT ![c] = s] /\ aborted' = AbortTriage({call[c].pr})
        /\ UNCHANGED <<githubVars, card, moves, calls, run, triage>>
    BY <1>2 DEF StopTriage, boardVars
  <2>2. s \in Calls /\ s.pr \in PR /\ s.raw.merge # "known"
    BY <1>2 DEF StopTriage, Calls
  <2> HIDE DEF s
  <2>3. /\ call' \in [Caller -> Calls]
        /\ \A d \in Caller : /\ call'[d].pc # "idle" => call'[d].pr \in PR
                             /\ call'[d].raw.merge # "known"
    BY <2>1, <2>2, CallerStep
  <2>4. aborted' \subseteq Worker
    BY <2>1, AbortTriageTyped DEF Inv
  <2> QED
    BY <2>1, <2>3, <2>4, TriageStep
<1> QED
  BY <1>1, <1>2, ApplyOneInv, ResetInv DEF Serves

LEMMA MoveInv ==
  ASSUME Inv, NEW p \in PR,
         Delete(p) \/ \E s \in States \ {None, Initial} : Move(p, s)
  PROVE  Inv'
<1> USE CallFacts
<1> DEFINE To(d) == /\ card' = [card EXCEPT ![p] = d]
                    /\ \/ d.raw = card[p].raw /\ d.state # None
                       \/ d = NoCard
<1>1. PICK d \in Cards : To(d)
  <2>1. CASE Delete(p)
    BY <2>1, NoCardTyped DEF Delete
  <2>2. ASSUME NEW s \in States \ {None, Initial}, Move(p, s)
        PROVE  \E d \in Cards : To(d)
    <3>1. card[p] \in Cards
      OBVIOUS
    <3>2. CASE s = "awaiting update"
      <4>1. card' = [card EXCEPT ![p] = Parked(card[p])]
        BY <2>2, <3>2 DEF Move
      <4> QED
        BY <3>1, <4>1, ParkedTyped
    <3>3. CASE s # "awaiting update"
      <4>1. /\ [card[p] EXCEPT !.state = s] \in Cards
            /\ [card[p] EXCEPT !.state = s].raw = card[p].raw
            /\ [card[p] EXCEPT !.state = s].state # None
        BY <3>1 DEF Cards
      <4>2. card' = [card EXCEPT ![p] = [card[p] EXCEPT !.state = s]]
        BY <2>2, <3>3 DEF Move
      <4> QED
        BY <4>1, <4>2
    <3> QED
      BY <3>2, <3>3
  <2> QED
    BY <2>1, <2>2
<1>2. /\ UNCHANGED <<clock, upstream, feed, past, calls, run, call, triage>>
      /\ moves' = moves + 1 /\ aborted' \subseteq Worker
  BY AbortTriageTyped DEF Delete, Move, Inv, githubVars
<1>3. \A q \in PR : /\ card'[q] \in Cards /\ NotBehind(q, card'[q].raw)
                    /\ card'[q].state = None => card'[q] = NoCard
  BY <1>1, NoCardTyped, NoRawTyped DEF NotBehind
<1>4. card' \in [PR -> Cards]
  BY <1>1, <1>3
<1>5. TypeOK'
  BY <1>2, <1>3, <1>4 DEF Inv, TypeOK
<1>6. CopyNotBehind' /\ LocalsNotBehind' /\ ListedBefore'
  BY <1>2, <1>3 DEF Inv, CopyNotBehind, LocalsNotBehind, ListedBefore, NotBehind
<1> QED
  BY <1>5, <1>6 DEF Inv
-----------------------------------------------------------------------------
LEMMA NextInv == Inv /\ [Next]_vars => Inv'
<1> SUFFICES ASSUME Inv, [Next]_vars PROVE Inv'
  OBVIOUS
<1>1. CASE UNCHANGED vars
  BY <1>1, CallFacts, TriageStep DEF vars, boardVars, triageVars
<1>2. CASE Next
  BY <1>2, UpdateInv, MoveInv, RunInv, TriagerInv, CallInv, ServesInv DEF Next
<1> QED
  BY <1>1, <1>2

\* The inductive invariant: every copy, on the board or in the hands of a run,
\* shows at least what its time says.
THEOREM RefreshInvariance == Spec => []Inv
BY InitInv, NextInv, PTL DEF Spec

\* Every variable of Refresh keeps its type, and nothing is left of a deleted
\* card, however runs, calls and triages overlap.
THEOREM RefreshTypeCorrect == Spec => []TypeOK
<1>1. Inv => TypeOK
  BY DEF Inv
<1> QED
  BY <1>1, RefreshInvariance, PTL

\* The fast path of the fetchers is sound: a copy carried forward never shows
\* less than its pull request did at the time it bears.
THEOREM QuietIsSafe == Spec => []CopyNotBehind
<1>1. Inv => CopyNotBehind
  BY DEF Inv
<1> QED
  BY <1>1, RefreshInvariance, PTL
=============================================================================
