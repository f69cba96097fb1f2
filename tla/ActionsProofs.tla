--------------------------- MODULE ActionsProofs ---------------------------
(***************************************************************************)
(* Theorems about Actions, for any number of sessions, calls and restarts. *)
(***************************************************************************)
EXTENDS Actions, FiniteSetTheorems, TLAPS

Fields ==
  {"present", "state", "action", "status", "sdk", "plan", "drafts", "session", "parked"}

\* The fields that a partial record has are those of a card.
Fits(w) ==
  /\ "present" \in DOMAIN w => w["present"] \in BOOLEAN
  /\ "sdk" \in DOMAIN w => w["sdk"] \in BOOLEAN
  /\ "parked" \in DOMAIN w => w["parked"] \in BOOLEAN
  /\ "state" \in DOMAIN w => w["state"] \in QueueStates \cup {FailureState}
  /\ "action" \in DOMAIN w => w["action"] \in Actions \cup {None}
  /\ "status" \in DOMAIN w => w["status"] \in ResultStatuses \cup {None}
  /\ "plan" \in DOMAIN w => w["plan"] \in Offers \cup {None}
  /\ "drafts" \in DOMAIN w => w["drafts"] \in Offers \cup {None}
  /\ "session" \in DOMAIN w => w["session"] \in Session \cup {None}

\* _mutate: a partial record that fits leaves a card a card.
LEMMA OverlayFits ==
  ASSUME NEW c \in Cards, NEW w, Fits(w)
  PROVE  Overlay(w, c) \in Cards
<1> DEFINE o == Overlay(w, c)
<1>1. DOMAIN c = Fields
  BY DEF Cards, Fields
<1>2. o = [f \in Fields |-> IF f \in DOMAIN w THEN w[f] ELSE c[f]]
  BY <1>1 DEF Overlay
<1>4. /\ c["present"] \in BOOLEAN /\ c["sdk"] \in BOOLEAN /\ c["parked"] \in BOOLEAN
      /\ c["state"] \in QueueStates \cup {FailureState}
      /\ c["action"] \in Actions \cup {None}
      /\ c["status"] \in ResultStatuses \cup {None}
      /\ c["plan"] \in Offers \cup {None} /\ c["drafts"] \in Offers \cup {None}
      /\ c["session"] \in Session \cup {None}
  BY DEF Cards
<1>6. /\ o["present"] \in BOOLEAN /\ o["sdk"] \in BOOLEAN /\ o["parked"] \in BOOLEAN
      /\ o["state"] \in QueueStates \cup {FailureState}
      /\ o["action"] \in Actions \cup {None}
      /\ o["status"] \in ResultStatuses \cup {None}
      /\ o["plan"] \in Offers \cup {None} /\ o["drafts"] \in Offers \cup {None}
      /\ o["session"] \in Session \cup {None}
  BY <1>2, <1>4 DEF Fields, Fits
<1>7. o = [present |-> o["present"], state |-> o["state"], action |-> o["action"],
           status |-> o["status"], sdk |-> o["sdk"], plan |-> o["plan"],
           drafts |-> o["drafts"], session |-> o["session"], parked |-> o["parked"]]
  BY <1>2 DEF Fields
<1> HIDE DEF o
<1>8. o \in Cards
  BY <1>6, <1>7 DEF Cards
<1> QED
  BY <1>8 DEF o

\* Every write that a thread or a hook makes fits.
LEMMA WritesFit ==
  ASSUME NEW w \in Writes
  PROVE  Fits(w)
<1>3. InitialStates \subseteq QueueStates
  BY ActionsAssumption DEF ActionsAssumption
<1> USE DEF Fits
<1>1. CASE w \in [state : QueueStates \cup {FailureState}]
  BY <1>3, <1>1
<1>2. CASE w \in [action : Actions, status : ResultStatuses \cup {None}, sdk : BOOLEAN]
  BY <1>3, <1>2
<1>4. CASE w \in [state : InitialStates, action : {None}, status : {None}, sdk : {FALSE}]
  BY <1>3, <1>4
<1>5. CASE w \in [plan : Offers]
  BY <1>3, <1>5
<1>9. CASE w \in [drafts : Offers]
  BY <1>3, <1>9
<1>6. CASE w \in [parked : {TRUE}]
  BY <1>3, <1>6
<1>7. CASE w \in [session : Session]
  BY <1>3, <1>7
<1>8. CASE w \in [present : {FALSE}]
  BY <1>3, <1>8
<1> QED
  BY <1>1, <1>2, <1>4, <1>5, <1>6, <1>7, <1>8, <1>9 DEF Writes

-----------------------------------------------------------------------------
(* What the threads and the hooks have to write.                           *)

States == QueueStates \cup {FailureState}

\* One write, and then another list of them, is a list of writes.
LEMMA WriteSingle ==
  ASSUME NEW w \in Writes
  PROVE  <<w>> \in Seq(Writes)
OBVIOUS

\* Two lists of writes, one after the other, are a list of writes.
LEMMA WriteConcat ==
  ASSUME NEW s \in Seq(Writes), NEW t \in Seq(Writes)
  PROVE  s \o t \in Seq(Writes)
OBVIOUS

\* A state write, which is left out where a spec names no state.
LEMMA WriteState ==
  ASSUME NEW s \in States \cup {None}
  PROVE  State(s) \in Seq(Writes)
<1>1. CASE s = None
  BY <1>1 DEF State
<1>2. CASE s # None
  <2>1. [state |-> s] \in Writes
    BY <1>2 DEF Writes, States
  <2> QED
    BY <1>2, <2>1, WriteSingle DEF State
<1> QED
  BY <1>1, <1>2

\* set_item_last_result.
LEMMA WriteResult ==
  ASSUME NEW a \in Actions, NEW st \in ResultStatuses \cup {None}, NEW sdk \in BOOLEAN
  PROVE  Result(a, st, sdk) \in Seq(Writes)
<1>1. [action |-> a, status |-> st, sdk |-> sdk] \in Writes
  BY DEF Writes
<1> QED
  BY <1>1, WriteSingle DEF Result

\* set_item_plan_status and set_item_drafts_status.
LEMMA WriteOffer ==
  ASSUME NEW a, NEW p \in Offers
  PROVE  Offer(a, p) \in Seq(Writes)
<1>1. [plan |-> p] \in Writes /\ [drafts |-> p] \in Writes
  BY DEF Writes
<1> QED
  BY <1>1, WriteSingle DEF Offer

\* stamp_parked_at.
LEMMA WriteBaseline == Baseline \in Seq(Writes)
<1>1. [parked |-> TRUE] \in Writes
  BY DEF Writes
<1> QED
  BY <1>1, WriteSingle DEF Baseline

\* What triaging again and unparking write: the result is forgotten.
LEMMA WriteForget ==
  ASSUME NEW s \in InitialStates
  PROVE  Forget(s) \in Writes
BY DEF Forget, Writes

\* The states of the actions' specs are the queue's, but for the failure state.
LEMMA SpecStates ==
  ASSUME NEW a \in Actions
  PROVE  /\ InProgress(a) \in States \cup {None}
         /\ Terminal(a) \in States \cup {None}
         /\ Failure(a) \in States \cup {None}
BY ActionsAssumption
   DEF ActionsAssumption, Actions, States, InProgress, Terminal, Failure, Instant, Reading, Parking

\* The words for results are as they should be.
LEMMA SpecResults ==
  /\ Outcomes \subseteq ResultStatuses
  /\ {"queued", "running", "parked", "skipped", "interrupted"} \subseteq ResultStatuses
  /\ {"plan-fix", "address-comments"} \subseteq Actions
  /\ {"proposed", "executing", "done", "discarded", "error"} \subseteq Offers
  /\ {"done", "awaiting update", "in progress"} \subseteq States
BY ActionsAssumption
   DEF ActionsAssumption, ResultStatuses, Outcomes, Success, Actions, Offers, States

\* What is written when a plan or drafts have been handed over.
LEMMA WriteExecuting ==
  ASSUME NEW a \in Actions
  PROVE  Executing(a) \in Seq(Writes)
BY WriteOffer, WriteResult, WriteConcat, SpecResults DEF Executing

\* What the plan endpoint writes when dispatch returns to it.
LEMMA WriteAfterwards ==
  ASSUME NEW j \in Jobs
  PROVE  Afterwards(j) \in Seq(Writes)
<1>1. Executing("plan-fix") \in Seq(Writes)
  BY WriteExecuting, SpecResults
<1> QED
  BY <1>1 DEF Afterwards

\* _on_first_turn writes what it should, if the session has an action.
LEMMA WriteFirstHook ==
  ASSUME NEW j \in Jobs, NEW outcome \in Outcomes, j.action # None
  PROVE  FirstHook(j, outcome) \in Seq(Writes)
<1> DEFINE recorded == Result(j.action, outcome, TRUE)
           parks    == j.action = "nudge-author" /\ ~j.resumed
<1>1. j.action \in Actions
  BY DEF Jobs
<1>2. recorded \in Seq(Writes)
  BY <1>1, WriteResult, SpecResults
<1>3. State(Terminal(j.action)) \in Seq(Writes) /\ State(Failure(j.action)) \in Seq(Writes)
  BY <1>1, SpecStates, WriteState
<1>4. (IF parks THEN Baseline ELSE <<>>) \in Seq(Writes)
  BY WriteBaseline
<1>5. Offer(j.action, "proposed") \in Seq(Writes)
  BY WriteOffer, SpecResults
<1>6. FirstHook(j, outcome) =
        CASE outcome = Success ->
               State(Terminal(j.action)) \o (IF parks THEN Baseline ELSE <<>>) \o recorded
          [] outcome = "proposal" /\ j.action \in TwoPhase ->
               Offer(j.action, "proposed") \o recorded
          [] outcome = "needs_human" /\ ~j.resumed -> State(Failure(j.action)) \o recorded
          [] OTHER -> recorded
  BY DEF FirstHook
<1> HIDE DEF recorded, parks
<1>7. State(Terminal(j.action)) \o (IF parks THEN Baseline ELSE <<>>) \o recorded \in Seq(Writes)
  BY <1>2, <1>3, <1>4, WriteConcat
<1>8. Offer(j.action, "proposed") \o recorded \in Seq(Writes)
  BY <1>2, <1>5, WriteConcat
<1>9. State(Failure(j.action)) \o recorded \in Seq(Writes)
  BY <1>2, <1>3, WriteConcat
<1> QED
  BY <1>2, <1>6, <1>7, <1>8, <1>9 DEF Success

\* _on_turn_done writes what it should.
LEMMA WriteNextHook ==
  ASSUME NEW j \in Jobs, NEW outcome \in Outcomes
  PROVE  NextHook(j, outcome) \in Seq(Writes)
<1> DEFINE recorded == Result(j.action, outcome, TRUE)
           settled  == State("done") \o Offer(j.action, "done")
<1>1. CASE j.action \notin TwoPhase
  <2>1. NextHook(j, outcome) = <<>>
    BY <1>1 DEF NextHook
  <2> QED
    BY <2>1
<1>2. CASE j.action \in TwoPhase
  <2>1. j.action \in Actions
    BY <1>2 DEF TwoPhase, Actions
  <2>2. recorded \in Seq(Writes)
    BY <2>1, WriteResult, SpecResults
  <2>3. settled \in Seq(Writes) /\ <<>> \in Seq(Writes)
    <3>1. State("done") \in Seq(Writes)
      BY WriteState, SpecResults
    <3>2. Offer(j.action, "done") \in Seq(Writes)
      BY WriteOffer, SpecResults
    <3> QED
      BY <3>1, <3>2, WriteConcat
  <2>4. NextHook(j, outcome) =
          IF j.action \notin TwoPhase \/ j.resumed \/ outcome = "proposal" THEN <<>>
          ELSE (IF outcome = Success THEN settled ELSE <<>>) \o recorded
    BY DEF NextHook
  <2> HIDE DEF recorded, settled
  <2>5. (IF outcome = Success THEN settled ELSE <<>>) \o recorded \in Seq(Writes)
    BY <2>2, <2>3, WriteConcat
  <2> QED
    BY <2>3, <2>4, <2>5
<1> QED
  BY <1>1, <1>2
-----------------------------------------------------------------------------
(* Types.  A hook records the outcome under the action its session was      *)
(* started for, so it must be known that there is one.                      *)

JobsNamed ==
  /\ \A r \in Request : pc[r] # "idle" => job[r].action # None
  /\ \A s \in Session : phase[s] # None => doing[s].action # None

TypeInv == TypeOK /\ JobsNamed

\* A card as the intake makes it.
LEMMA FreshCard ==
  ASSUME NEW s \in InitialStates
  PROVE  Fresh(s) \in Cards
BY ActionsAssumption DEF ActionsAssumption, Fresh, Cards, Offers

\* The types hold at the start.
LEMMA InitTypes == Init => TypeInv
<1> SUFFICES ASSUME Init PROVE TypeInv
  OBVIOUS
<1>1. card \in Cards
  BY FreshCard DEF Init
<1>2. NoJob \in Jobs
  BY DEF NoJob, Jobs
<1>3. todo \in [Request \cup Session -> Seq(Writes)]
  BY DEF Init
<1>4. RequestsOK /\ SessionsOK
  BY <1>2 DEF Init, RequestsOK, SessionsOK
<1> QED
  BY <1>1, <1>3, <1>4 DEF Init, TypeOK, TypeInv, JobsNamed

\* The next write of a thread or a hook keeps them.
LEMMA WriteTypes ==
  ASSUME TypeInv, NEW x \in Request \cup Session, Write(x)
  PROVE  TypeInv'
<1> USE DEF TypeInv, TypeOK
<1>1. Head(todo[x]) \in Writes /\ Tail(todo[x]) \in Seq(Writes)
  BY DEF Write
<1>2. card' \in Cards
  BY <1>1, WritesFit, OverlayFits DEF Write
<1>3. todo' \in [Request \cup Session -> Seq(Writes)]
  BY <1>1 DEF Write
<1> QED
  BY <1>2, <1>3
     DEF Write, requestVars, sessionVars, RequestsOK, SessionsOK, JobsNamed

\* What a thread's step writes and remembers is well typed, so is what follows.
LEMMA ReturnTypes ==
  ASSUME TypeInv, NEW r \in Request, NEW w \in Seq(Writes), Return(r, w)
  PROVE  /\ todo' \in [Request \cup Session -> Seq(Writes)]
         /\ RequestsOK'
         /\ \A q \in Request : pc'[q] # "idle" => job'[q].action # None
<1>1. NoJob \in Jobs
  BY DEF NoJob, Jobs
<1> QED
  BY <1>1 DEF Return, TypeInv, TypeOK, RequestsOK, JobsNamed

\* The same of a step that goes on to the next.
LEMMA ProceedTypes ==
  ASSUME TypeInv, NEW r \in Request, NEW w \in Seq(Writes), NEW j \in Jobs, j.action # None,
         NEW where \in {"guard", "prepare", "spawn", "posting"}, Proceed(r, where, j, w)
  PROVE  /\ todo' \in [Request \cup Session -> Seq(Writes)]
         /\ RequestsOK'
         /\ \A q \in Request : pc'[q] # "idle" => job'[q].action # None
BY DEF Proceed, TypeInv, TypeOK, RequestsOK, JobsNamed

\* A message put into a queue.
LEMMA Appended ==
  ASSUME NEW T, NEW q \in Seq(T), NEW m \in T
  PROVE  Append(q, m) \in Seq(T)
OBVIOUS

\* The same of the messages there are.
LEMMA MessageAppended ==
  ASSUME NEW q \in Seq({Abort, "approved", "nudge"}),
         NEW m \in {Abort, "approved", "nudge"}
  PROVE  Append(q, m) \in Seq({Abort, "approved", "nudge"})
BY Appended

\* Telling the sessions of a card to stop leaves them well typed.
LEMMA AbortTypes ==
  ASSUME TypeInv, AbortAll
  PROVE  SessionsOK' /\ \A s \in Session : phase'[s] # None => doing'[s].action # None
<1> DEFINE S == {s \in Session : Live(s) /\ HasQueue(s)}
<1>1. \A s \in Session : Append(inbox[s], Abort) \in Seq({Abort, "approved", "nudge"})
  BY MessageAppended DEF TypeInv, TypeOK, SessionsOK
<1>2. inbox' \in [Session -> Seq({Abort, "approved", "nudge"})]
  BY <1>1 DEF AbortAll, TypeInv, TypeOK, SessionsOK
<1>3. closing' \subseteq Session
  BY DEF AbortAll, TypeInv, TypeOK, SessionsOK
<1> QED
  BY <1>2, <1>3 DEF AbortAll, TypeInv, TypeOK, SessionsOK, JobsNamed

\* So does a message for the session the card points at.
LEMMA PostTypes ==
  ASSUME TypeInv, NEW text \in {"approved", "nudge"}, Post(text)
  PROVE  inbox' \in [Session -> Seq({Abort, "approved", "nudge"})]
<1>1. \A s \in Session : Append(inbox[s], text) \in Seq({Abort, "approved", "nudge"})
  BY MessageAppended DEF TypeInv, TypeOK, SessionsOK
<1> QED
  BY <1>1 DEF Post, TypeInv, TypeOK, SessionsOK

\* The part of the types that a step of a thread may change.
ThreadOK ==
  /\ todo \in [Request \cup Session -> Seq(Writes)]
  /\ RequestsOK
  /\ \A r \in Request : pc[r] # "idle" => job[r].action # None

SessionsNamed ==
  SessionsOK /\ \A s \in Session : phase[s] # None => doing[s].action # None

\* So does leaving them alone.
LEMMA SessionsStay ==
  ASSUME TypeInv, UNCHANGED sessionVars
  PROVE  SessionsNamed'
BY DEF sessionVars, TypeInv, TypeOK, SessionsOK, JobsNamed, SessionsNamed

\* A call that leaves threads and sessions well typed keeps all types.
LEMMA CallTypes ==
  ASSUME TypeInv, NEW r \in Request, NEW e, Call(r, e), UNCHANGED card,
         ThreadOK', SessionsNamed'
  PROVE  TypeInv'
BY DEF Call, TypeInv, TypeOK, JobsNamed, ThreadOK, SessionsNamed

\* An endpoint writes and remembers what it should.
LEMMA EndpointTypes ==
  ASSUME TypeInv, NEW r \in Request, Endpoint(r)
  PROVE  TypeInv'
<1>1. ASSUME NEW a \in Action, ActInstant(r, a) PROVE TypeInv'
  <2>1. a \in Actions
    BY <1>1, ActionsAssumption DEF ActionsAssumption
  <2>2. /\ State(Terminal(a)) \in Seq(Writes)
        /\ Result(a, "parked", FALSE) \in Seq(Writes)
        /\ Result(a, "skipped", FALSE) \in Seq(Writes)
    BY <2>1, SpecStates, SpecResults, WriteState, WriteResult
  <2>3. /\ State(Terminal(a)) \o Baseline \o Result(a, "parked", FALSE) \in Seq(Writes)
        /\ State(Terminal(a)) \o Result(a, "skipped", FALSE) \in Seq(Writes)
    BY <2>2, WriteBaseline, WriteConcat
  <2>4. PICK w \in Seq(Writes) : Return(r, w)
    BY <1>1, <2>3 DEF ActInstant
  <2>5. ThreadOK'
    BY <2>4, ReturnTypes DEF ThreadOK
  <2>6. SessionsNamed'
    BY <1>1, AbortTypes DEF ActInstant, SessionsNamed
  <2> QED
    BY <1>1, <2>5, <2>6, CallTypes DEF ActInstant
<1>2. ASSUME NEW a \in Action, Act(r, a) PROVE TypeInv'
  <2> DEFINE j == [action |-> a, resumed |-> FALSE, approved |-> FALSE]
  <2>1. a \in Actions
    BY <1>2, ActionsAssumption DEF ActionsAssumption
  <2>2. j \in Jobs /\ j.action # None
    BY <2>1 DEF Actions, Jobs, None
  <2>3. Proceed(r, "guard", j, <<>>) /\ <<>> \in Seq(Writes)
    BY <1>2 DEF Act
  <2> HIDE DEF j
  <2>4. ThreadOK'
    BY <2>2, <2>3, ProceedTypes DEF ThreadOK
  <2> QED
    BY <1>2, <2>4, SessionsStay, CallTypes DEF Act
<1>3. ASSUME Approve(r) PROVE TypeInv'
  <2>1. CASE Reachable
    <3>1. Post("approved") /\ Return(r, Executing("plan-fix")) /\ UNCHANGED <<phase, closing, doing>>
      BY <1>3, <2>1 DEF Approve
    <3>2. Executing("plan-fix") \in Seq(Writes)
      BY WriteExecuting, SpecResults
    <3>3. ThreadOK'
      BY <3>1, <3>2, ReturnTypes DEF ThreadOK
    <3>4. SessionsNamed'
      BY <3>1, PostTypes DEF TypeInv, TypeOK, SessionsOK, JobsNamed, SessionsNamed
    <3> QED
      BY <1>3, <3>3, <3>4, CallTypes DEF Approve
  <2>2. CASE ~Reachable
    <3> DEFINE j == [action |-> "plan-fix", resumed |-> FALSE, approved |-> TRUE]
    <3>1. j \in Jobs /\ j.action # None
      BY DEF Actions, Jobs, None
    <3>2. Proceed(r, "guard", j, <<>>) /\ UNCHANGED sessionVars /\ <<>> \in Seq(Writes)
      BY <1>3, <2>2 DEF Approve
    <3> HIDE DEF j
    <3>3. ThreadOK'
      BY <3>1, <3>2, ProceedTypes DEF ThreadOK
    <3> QED
      BY <1>3, <3>2, <3>3, SessionsStay, CallTypes DEF Approve
  <2> QED
    BY <2>1, <2>2
<1>4. ASSUME Nudge(r) PROVE TypeInv'
  <2>1. ThreadOK'
    BY <1>4 DEF Nudge, TypeInv, TypeOK, RequestsOK, JobsNamed, ThreadOK
  <2>2. SessionsNamed'
    BY <1>4, PostTypes DEF Nudge, TypeInv, TypeOK, SessionsOK, JobsNamed, SessionsNamed
  <2> QED
    BY <1>4, <2>1, <2>2, CallTypes DEF Nudge
<1>5. ASSUME Continue(r) PROVE TypeInv'
  <2>1. card.action \in Actions /\ card.action # None
    BY <1>5 DEF Continue, Continuable, TypeInv, TypeOK, Cards
  <2>2. Resumption \in Jobs /\ Resumption.action # None
    BY <2>1 DEF Resumption, Jobs
  <2>3. ResumeWrites \in Seq(Writes)
    BY <2>1, SpecStates, SpecResults, WriteState, WriteResult, WriteConcat DEF ResumeWrites
  <2>4. ThreadOK'
    BY <1>5, <2>2, <2>3, ProceedTypes DEF Continue, ThreadOK
  <2> QED
    BY <1>5, <2>4, SessionsStay, CallTypes DEF Continue
<1>6. ASSUME Discard(r) PROVE TypeInv'
  <2>1. PICK a \in TwoPhase : Return(r, Offer(a, "discarded"))
    BY <1>6 DEF Discard, TwoPhase
  <2>3. Offer(a, "discarded") \in Seq(Writes)
    BY WriteOffer, SpecResults
  <2>2. ThreadOK'
    BY <2>1, <2>3, ReturnTypes DEF ThreadOK
  <2> QED
    BY <1>6, <2>2, SessionsStay, CallTypes DEF Discard
<1>7. ASSUME Retriage(r) PROVE TypeInv'
  <2>1. PICK s \in InitialStates : Return(r, <<Forget(s)>>)
    BY <1>7 DEF Retriage
  <2>2. <<Forget(s)>> \in Seq(Writes)
    BY WriteForget
  <2>3. ThreadOK'
    BY <2>1, <2>2, ReturnTypes DEF ThreadOK
  <2> QED
    BY <1>7, <2>3, SessionsStay, CallTypes DEF Retriage
<1>8. ASSUME Delete(r) PROVE TypeInv'
  <2>1. [present |-> FALSE] \in Writes
    BY DEF Writes
  <2>2. <<[present |-> FALSE]>> \in Seq(Writes)
    BY <2>1
  <2>3. ThreadOK'
    BY <1>8, <2>2, ReturnTypes DEF Delete, ThreadOK
  <2>4. SessionsNamed'
    BY <1>8, AbortTypes DEF Delete, SessionsNamed
  <2> QED
    BY <1>8, <2>3, <2>4, CallTypes DEF Delete
<1>9. ASSUME PostDrafts(r) PROVE TypeInv'
  <2>1. CASE Reachable
    <3>1. /\ Post("approved") /\ Return(r, Executing("address-comments"))
          /\ UNCHANGED <<phase, closing, doing>>
      BY <1>9, <2>1 DEF PostDrafts
    <3>2. Executing("address-comments") \in Seq(Writes)
      BY WriteExecuting, SpecResults
    <3>3. ThreadOK'
      BY <3>1, <3>2, ReturnTypes DEF ThreadOK
    <3>4. SessionsNamed'
      BY <3>1, PostTypes DEF TypeInv, TypeOK, SessionsOK, JobsNamed, SessionsNamed
    <3> QED
      BY <1>9, <3>3, <3>4, CallTypes DEF PostDrafts
  <2>2. CASE ~Reachable
    <3> DEFINE j == [action |-> "address-comments", resumed |-> FALSE, approved |-> FALSE]
    <3>1. j \in Jobs /\ j.action # None
      BY DEF Actions, Jobs, None
    <3>2. Proceed(r, "posting", j, <<>>) /\ UNCHANGED sessionVars /\ <<>> \in Seq(Writes)
      BY <1>9, <2>2 DEF PostDrafts
    <3> HIDE DEF j
    <3>3. ThreadOK'
      BY <3>1, <3>2, ProceedTypes DEF ThreadOK
    <3> QED
      BY <1>9, <3>2, <3>3, SessionsStay, CallTypes DEF PostDrafts
  <2> QED
    BY <2>1, <2>2
<1> QED
  BY <1>1, <1>2, <1>3, <1>4, <1>5, <1>6, <1>7, <1>8, <1>9 DEF Endpoint

\* So does the rest of a dispatch.
LEMMA ThreadTypes ==
  ASSUME TypeInv, NEW r \in Request, Thread(r)
  PROVE  TypeInv'
<1> USE DEF TypeInv, TypeOK
<1>1. job[r] \in Jobs /\ (pc[r] # "idle" => job[r].action \in Actions)
  BY DEF RequestsOK, JobsNamed, Jobs
<1>2. Afterwards(job[r]) \in Seq(Writes)
  BY <1>1, WriteAfterwards
<1>3. ASSUME Guard(r) PROVE TypeInv'
  <2>1. CASE AnyLive
    BY <1>2, <1>3, <2>1, ReturnTypes
       DEF Guard, sessionVars, SessionsOK, JobsNamed
  <2>2. CASE ~AnyLive
    <3> DEFINE w == State(InProgress(job[r].action)) \o Result(job[r].action, "queued", FALSE)
    <3>1. job[r].action \in Actions /\ job[r].action # None
      BY <1>1, <1>3 DEF Guard, JobsNamed
    <3>2. w \in Seq(Writes)
      BY <3>1, SpecStates, SpecResults, WriteState, WriteResult, WriteConcat
    <3>3. Proceed(r, "prepare", job[r], w)
      BY <1>3, <2>2 DEF Guard
    <3> HIDE DEF w
    <3> QED
      BY <1>1, <1>3, <3>1, <3>2, <3>3, ProceedTypes
         DEF Guard, sessionVars, SessionsOK, JobsNamed
  <2> QED
    BY <2>1, <2>2
<1>4. ASSUME Prepare(r) PROVE TypeInv'
  <2>1. job[r].action \in Actions /\ job[r].action # None
    BY <1>1, <1>4 DEF Prepare, JobsNamed
  <2>2. CASE Ready(r)
    <3>1. Proceed(r, "spawn", job[r], <<>>)
      BY <2>2 DEF Ready
    <3> QED
      BY <1>1, <1>4, <2>1, <3>1, ProceedTypes DEF Prepare, sessionVars, SessionsOK, JobsNamed
  <2>3. \A st \in {"needs_human", "error"} :
          State(Failure(job[r].action)) \o Result(job[r].action, st, FALSE)
            \o Afterwards(job[r]) \in Seq(Writes)
    <3>1. State(Failure(job[r].action)) \in Seq(Writes)
      BY <2>1, SpecStates, WriteState
    <3>2. {"needs_human", "error"} \subseteq ResultStatuses
      BY SpecResults DEF Outcomes
    <3> QED
      BY <1>2, <2>1, <3>1, <3>2, WriteResult, WriteConcat
  <2>4. CASE CannotPush(r)
    BY <1>4, <2>3, <2>4, ReturnTypes
       DEF CannotPush, Prepare, sessionVars, SessionsOK, JobsNamed
  <2>5. CASE Raises(r)
    <3> DEFINE w == IF job[r].resumed
                      THEN <<>>
                      ELSE State(Failure(job[r].action))
                             \o Result(job[r].action, "error", FALSE) \o Afterwards(job[r])
    <3>1. w \in Seq(Writes)
      <4>1. <<>> \in Seq(Writes)
        OBVIOUS
      <4>2. State(Failure(job[r].action))
              \o Result(job[r].action, "error", FALSE) \o Afterwards(job[r]) \in Seq(Writes)
        BY <2>3
      <4> QED
        BY <4>1, <4>2
    <3>2. Return(r, w)
      BY <2>5 DEF Raises
    <3> HIDE DEF w
    <3> QED
      BY <1>4, <3>1, <3>2, ReturnTypes DEF Prepare, sessionVars, SessionsOK, JobsNamed
  <2> QED
    BY <1>4, <2>2, <2>4, <2>5 DEF Prepare
<1>5. ASSUME NEW s \in Session, Spawn(r, s) PROVE TypeInv'
  <2> DEFINE w == <<[session |-> s]>> \o Afterwards(job[r])
  <2>1. w \in Seq(Writes)
    <3>1. [session |-> s] \in Writes
      BY DEF Writes
    <3> QED
      BY <1>2, <3>1, WriteSingle, WriteConcat
  <2>2. Return(r, w)
    BY <1>5 DEF Spawn
  <2>3. job[r].action # None
    BY <1>5 DEF Spawn, JobsNamed
  <2>4. SessionsOK' /\ \A q \in Session : phase'[q] # None => doing'[q].action # None
    BY <1>1, <1>5, <2>3 DEF Spawn, SessionsOK, JobsNamed, Alive
  <2> HIDE DEF w
  <2> QED
    BY <1>5, <2>1, <2>2, <2>4, ReturnTypes DEF Spawn, JobsNamed
<1>6. ASSUME PostReplies(r) PROVE TypeInv'
  <2> DEFINE a == "address-comments"
             Good == Offer(a, "done") \o State("done") \o Result(a, Success, FALSE)
             Bad(status) == Offer(a, "error") \o Result(a, status, FALSE)
  <2>1. Good \in Seq(Writes)
    BY WriteOffer, WriteState, WriteResult, WriteConcat, SpecResults DEF Outcomes
  <2>2. \A status \in {"error", "needs_human"} : Bad(status) \in Seq(Writes)
    BY WriteOffer, WriteResult, WriteConcat, SpecResults DEF Outcomes
  <2>3. PICK w \in Seq(Writes) : Return(r, w)
    BY <1>6, <2>1, <2>2 DEF PostReplies
  <2> QED
    BY <1>6, <2>3, ReturnTypes DEF PostReplies, sessionVars, SessionsOK, JobsNamed
<1> QED
  BY <1>3, <1>4, <1>5, <1>6 DEF Thread

\* A session's step: its phase, and the writes of its hooks.
LEMMA MovesTypes ==
  ASSUME TypeInv, NEW s \in Session, NEW from, from # None,
         NEW to \in Alive \cup Over, NEW w \in Seq(Writes),
         Moves(s, from, to, w), closing' \subseteq Session,
         inbox' \in [Session -> Seq({Abort, "approved", "nudge"})]
  PROVE  TypeInv'
<1>1. todo' \in [Request \cup Session -> Seq(Writes)]
  BY DEF Moves, TypeInv, TypeOK
<1>2. RequestsOK' /\ \A r \in Request : pc'[r] # "idle" => job'[r].action # None
  BY DEF Moves, requestVars, TypeInv, TypeOK, RequestsOK, JobsNamed
<1>3. phase' = [phase EXCEPT ![s] = to] /\ phase[s] = from /\ doing' = doing
  BY DEF Moves
<1>4. SessionsOK' /\ \A q \in Session : phase'[q] # None => doing'[q].action # None
  BY <1>3 DEF TypeInv, TypeOK, SessionsOK, JobsNamed
<1> QED
  BY <1>1, <1>2, <1>4 DEF Moves, requestVars, TypeInv, TypeOK, JobsNamed

\* Every step of a coroutine, by the lemma before.
LEMMA CoroutineTypes ==
  ASSUME TypeInv, NEW s \in Session, Coroutine(s)
  PROVE  TypeInv'
<1> DEFINE Messages == {Abort, "approved", "nudge"}
           Inbox    == [Session -> Seq(Messages)]
<1>0. closing \subseteq Session /\ inbox \in Inbox /\ doing[s] \in Jobs
  BY DEF TypeInv, TypeOK, SessionsOK
<1>1a. phase[s] # None => doing[s].action # None
  BY DEF TypeInv, JobsNamed
<1>1b. <<>> \in Seq(Writes)
  OBVIOUS
<1>1. /\ closing \subseteq Session /\ inbox \in Inbox
      /\ doing[s] \in Jobs /\ (phase[s] # None => doing[s].action # None)
      /\ <<>> \in Seq(Writes)
  BY <1>0, <1>1a, <1>1b
<1>2. {"scheduled", "queued", "starting", "first", "stamped", "top", "idle", "again", "turn",
       "closed", "failed"} \subseteq Alive \cup Over
  BY DEF Alive, Over
<1>3. /\ None \notin {"scheduled", "queued", "starting", "first", "stamped", "top", "idle",
                      "again", "turn"}
  BY DEF None
<1>4. ASSUME Begin(s) PROVE TypeInv'
  BY <1>1, <1>2, <1>3, <1>4, MovesTypes DEF Begin, StatusSet
<1>5. ASSUME Start(s) PROVE TypeInv'
  <2>1. phase[s] = "queued"
    BY <1>5 DEF Start, Moves
  <2>2. doing[s].action \in Actions
    BY <1>1, <1>3, <2>1 DEF Jobs
  <2>3. Result(doing[s].action, "running", FALSE) \in Seq(Writes)
    BY <2>2, WriteResult, SpecResults
  <2> QED
    BY <1>1, <1>2, <1>3, <1>5, <2>3, MovesTypes DEF Start, StatusSet
<1>6. ASSUME FirstTurn(s) PROVE TypeInv'
  BY <1>1, <1>2, <1>3, <1>6, MovesTypes DEF FirstTurn, StatusSet
<1>7. ASSUME Stamp(s) PROVE TypeInv'
  <2> DEFINE w == IF card.present /\ card.action # None
                    THEN Result(card.action, card.status, TRUE) ELSE <<>>
  <2>1. /\ card.action \in Actions \cup {None}
        /\ card.status \in ResultStatuses \cup {None}
    BY DEF TypeInv, TypeOK, Cards
  <2>2. w \in Seq(Writes)
    BY <1>1, <2>1, WriteResult
  <2>3. Moves(s, "first", "stamped", w) /\ UNCHANGED <<closing, inbox>>
    BY <1>7 DEF Stamp
  <2> HIDE DEF w
  <2> QED
    BY <1>1, <1>2, <1>3, <2>2, <2>3, MovesTypes
<1>8. ASSUME NEW outcome \in Outcomes, EndFirstTurn(s, outcome) PROVE TypeInv'
  <2>1. phase[s] = "stamped"
    BY <1>8 DEF EndFirstTurn, Moves
  <2>2. FirstHook(doing[s], outcome) \in Seq(Writes)
    BY <1>1, <1>3, <2>1, WriteFirstHook
  <2> QED
    BY <1>1, <1>2, <1>3, <1>8, <2>2, MovesTypes DEF EndFirstTurn
<1>9. ASSUME Park(s) PROVE TypeInv'
  BY <1>1, <1>2, <1>3, <1>9, MovesTypes DEF Park, StatusSet
<1>10. ASSUME Take(s) PROVE TypeInv'
  <2>1. inbox' \in Inbox
    <3> HIDE DEF Messages
    <3>1. inbox[s] \in Seq(Messages) /\ inbox[s] # <<>>
      BY <1>1, <1>10 DEF Take
    <3>2. Tail(inbox[s]) \in Seq(Messages)
      BY <3>1
    <3> QED
      BY <1>1, <1>10, <3>2 DEF Take
  <2>3. closing' \subseteq Session
    BY <1>1, <1>10 DEF Take, StatusSet
  <2>2. Moves(s, "idle", "closed", <<>>) \/ Moves(s, "idle", "again", <<>>)
    BY <1>10 DEF Take
  <2> QED
    BY <1>1, <1>2, <1>3, <2>1, <2>2, <2>3, MovesTypes
<1>11. ASSUME NextTurn(s) PROVE TypeInv'
  BY <1>1, <1>2, <1>3, <1>11, MovesTypes DEF NextTurn, StatusSet
<1>12. ASSUME NEW outcome \in Outcomes, EndNextTurn(s, outcome) PROVE TypeInv'
  <2>1. NextHook(doing[s], outcome) \in Seq(Writes)
    BY <1>1, WriteNextHook
  <2> QED
    BY <1>1, <1>2, <1>3, <1>12, <2>1, MovesTypes DEF EndNextTurn
<1>13. ASSUME IdleTimeout(s) PROVE TypeInv'
  BY <1>1, <1>2, <1>3, <1>13, MovesTypes DEF IdleTimeout
<1>14. ASSUME Fail(s) PROVE TypeInv'
  <2>1. PICK from \in {"starting", "first", "stamped", "turn"} : Moves(s, from, "failed", <<>>)
    BY <1>14 DEF Fail
  <2>2. UNCHANGED <<closing, inbox>> /\ from # None
    BY <1>3, <1>14 DEF Fail
  <2> QED
    BY <1>1, <1>2, <2>1, <2>2, MovesTypes
<1> QED
  BY <1>4, <1>5, <1>6, <1>7, <1>8, <1>9, <1>10, <1>11, <1>12, <1>13, <1>14 DEF Coroutine
\* The records that the refresh and the sweep write fit too.
LEMMA RefreshFits ==
  ASSUME NEW initial \in InitialStates
  PROVE  /\ Fits([parked |-> FALSE])
         /\ Fits(Forget(initial)) /\ Fits([session |-> None])
         /\ Fits([state |-> initial, status |-> "interrupted"])
<1>1. initial \in QueueStates
  BY ActionsAssumption DEF ActionsAssumption
<1>2. "interrupted" \in ResultStatuses
  BY SpecResults
<1>3. Fits(Forget(initial))
  BY <1>1 DEF Fits, Forget
<1>4. Fits([parked |-> FALSE])
  BY DEF Fits
<1>5. Fits([session |-> None]) /\ Fits([state |-> initial, status |-> "interrupted"])
  BY <1>1, <1>2 DEF Fits
<1> QED
  BY <1>3, <1>4, <1>5

\* _refresh_existing_items and refresh_one_item leave a card a card.
LEMMA RefreshedCard ==
  ASSUME card \in Cards, NEW recover, NEW differs, NEW stale, NEW initial \in InitialStates
  PROVE  Refreshed(recover, differs, stale, initial) \in Cards
<1> DEFINE c == IF recover THEN Recovered ELSE card
<1>1. c \in Cards
  <2>1. Again(card.plan) \in Offers \cup {None} /\ Again(card.drafts) \in Offers \cup {None}
    BY DEF Again, Cards, Offers
  <2>2. Recovered = [card EXCEPT !.plan = Again(card.plan), !.drafts = Again(card.drafts)]
    BY DEF Recovered
  <2>3. Recovered \in Cards
    BY <2>1, <2>2 DEF Cards
  <2> QED
    BY <2>3
<1> HIDE DEF c
<1>2. Overlay(Forget(initial), c) \in Cards
  BY <1>1, RefreshFits, OverlayFits
<1>3. Overlay([parked |-> FALSE], Overlay(Forget(initial), c)) \in Cards
  BY <1>2, RefreshFits, OverlayFits
<1>4. Refreshed(recover, differs, stale, initial) =
        CASE c.state = "awaiting update" ->
               IF c.parked /\ differs
                 THEN Overlay([parked |-> FALSE], Overlay(Forget(initial), c)) ELSE c
          [] c.state = "done" /\ stale -> Overlay(Forget(initial), c)
          [] OTHER -> c
  BY DEF Refreshed, c
<1> QED
  BY <1>1, <1>2, <1>3, <1>4

\* Whatever the pull request turns out to be.
LEMMA RefreshesCards ==
  ASSUME card \in Cards, NEW recover
  PROVE  Refreshes(recover) \subseteq Cards
BY RefreshedCard DEF Refreshes

\* So does the sweep at boot.
LEMMA SweptCard ==
  ASSUME card \in Cards, NEW initial \in InitialStates
  PROVE  Swept(initial) \in Cards
<1> DEFINE c == Overlay([session |-> None], card)
<1>1. c \in Cards
  BY RefreshFits, OverlayFits
<1> HIDE DEF c
<1>2. Overlay([state |-> initial, status |-> "interrupted"], c) \in Cards
  BY <1>1, RefreshFits, OverlayFits
<1> QED
  BY <1>1, <1>2 DEF Swept, c

\* A step that touches the card and the snapshot only.
LEMMA CardTypes ==
  ASSUME TypeInv, card' \in Cards, snapshot' \in {None, "live", "dead"},
         UNCHANGED <<todo, requestVars, sessionVars, restarts>>
  PROVE  TypeInv'
BY DEF requestVars, sessionVars, TypeInv, TypeOK, RequestsOK, SessionsOK, JobsNamed

\* The refresh and the intake keep the types.
LEMMA RefreshTypes ==
  ASSUME TypeInv, RefreshLooks \/ RefreshApplies \/ RefreshOne \/ Readd
  PROVE  TypeInv'
<1>1. card \in Cards /\ snapshot \in {None, "live", "dead"}
  BY DEF TypeInv, TypeOK
<1>2. CASE RefreshLooks
  BY <1>1, <1>2, CardTypes DEF RefreshLooks
<1>3. CASE RefreshApplies
  <2>1. card' \in Cards
    BY <1>1, <1>3, RefreshesCards DEF RefreshApplies
  <2> QED
    BY <1>3, <2>1, CardTypes DEF RefreshApplies
<1>4. CASE RefreshOne
  <2>1. card' \in Cards
    BY <1>1, <1>4, RefreshesCards DEF RefreshOne
  <2> QED
    BY <1>1, <1>4, <2>1, CardTypes DEF RefreshOne
<1>5. CASE Readd
  <2>1. card' \in Cards
    BY <1>5, FreshCard DEF Readd
  <2> QED
    BY <1>1, <1>5, <2>1, CardTypes DEF Readd
<1> QED
  BY <1>2, <1>3, <1>4, <1>5

\* A restart keeps them: the sessions that were started are gone, and the thread
\* that continues one is as Continue would have it.
LEMMA RestartTypes ==
  ASSUME TypeInv, NEW resume \in Request \cup {None}, Restart(resume)
  PROVE  TypeInv'
<1>1. card' \in Cards
  BY SweptCard DEF Restart, TypeInv, TypeOK
<1>2. SessionsOK' /\ \A s \in Session : phase'[s] # None => doing'[s].action # None
  <2>1. <<>> \in Seq({Abort, "approved", "nudge"})
    OBVIOUS
  <2>2. phase' \in [Session -> Alive \cup Over \cup {None, "gone"}]
    BY DEF Restart
  <2> QED
    BY <2>1, <2>2 DEF Restart, TypeInv, TypeOK, SessionsOK, JobsNamed
<1>3. /\ todo' \in [Request \cup Session -> Seq(Writes)]
      /\ RequestsOK'
      /\ \A r \in Request : pc'[r] # "idle" => job'[r].action # None
  <2>1. DOMAIN todo = Request \cup Session /\ <<>> \in Seq(Writes)
    BY DEF TypeInv, TypeOK
  <2>2. NoJob \in Jobs
    BY DEF NoJob, Jobs
  <2>3. CASE /\ todo' = [x \in DOMAIN todo |-> <<>>]
             /\ pc' = [r \in Request |-> "idle"]
             /\ job' = [r \in Request |-> NoJob]
    BY <2>1, <2>2, <2>3 DEF RequestsOK
  <2>4. CASE /\ Continuable
             /\ todo' = [x \in DOMAIN todo |-> IF x = resume THEN ResumeWrites ELSE <<>>]
             /\ pc' = [r \in Request |-> IF r = resume THEN "prepare" ELSE "idle"]
             /\ job' = [r \in Request |-> IF r = resume THEN Resumption ELSE NoJob]
    <3>1. card.action \in Actions /\ card.action # None
      BY <2>4 DEF Continuable, TypeInv, TypeOK, Cards
    <3>2. Resumption \in Jobs /\ Resumption.action # None
      BY <3>1 DEF Resumption, Jobs
    <3>3. ResumeWrites \in Seq(Writes)
      BY <3>1, SpecStates, SpecResults, WriteState, WriteResult, WriteConcat DEF ResumeWrites
    <3> QED
      BY <2>1, <2>2, <2>4, <3>2, <3>3 DEF RequestsOK
  <2> QED
    BY <2>3, <2>4 DEF Restart
<1> QED
  BY <1>1, <1>2, <1>3 DEF Restart, TypeInv, TypeOK, JobsNamed

\* Nothing happens: nothing changes.
LEMMA StutterTypes == TypeInv /\ UNCHANGED vars => TypeInv'
BY DEF vars, requestVars, sessionVars, TypeInv, TypeOK, RequestsOK, SessionsOK, JobsNamed

\* Whatever the threads, the sessions, the refresh and restarts do to a card, and
\* however their writes interleave, it is a well-formed card, nothing but
\* well-formed writes wait to be made, and a thread or a session that is under way
\* knows the action it is there for.
THEOREM ActionsTypeCorrect == Spec => []TypeOK
<1>1. TypeInv /\ [Next]_vars => TypeInv'
  BY StutterTypes, WriteTypes, EndpointTypes, ThreadTypes, CoroutineTypes,
     RefreshTypes, RestartTypes DEF Next
<1>2. TypeInv => TypeOK
  BY DEF TypeInv
<1> QED
  BY InitTypes, <1>1, <1>2, PTL DEF Spec
-----------------------------------------------------------------------------
(* One live session per card.  dispatch looks for a live session and starts *)
(* its own later, without a lock in between (actions.py:890-910), so two     *)
(* dispatches may pass the look together.  That is the only way: as long as  *)
(* no two threads are between the look and the start, one session at a time  *)
(* is live, whatever the sessions, the other endpoints, the refresh and      *)
(* restarts do meanwhile.                                                   *)

PastGuard == {"prepare", "spawn"}

\* No two threads are past the guard at a time.
Serial ==
  \A r, q \in Request : pc[r] \in PastGuard /\ pc[q] \in PastGuard => r = q

HasAbort(s) == \E i \in DOMAIN inbox[s] : inbox[s][i] = Abort

Dispatched == {s \in Wanted : ~doing[s].resumed}

\* A status that reads "closing" is overwritten by the coroutine's next one; the
\* sentinel in the queue is what lasts.
AbortSticks ==
  \A s \in closing : phase[s] # None /\ (phase[s] \in Alive => HasAbort(s))

AtMostOne == \A s, t \in Dispatched : s = t

\* What a thread saw at the guard is still so when it comes to start its session.
Cleared ==
  \A r \in Request : pc[r] \in PastGuard /\ ~job[r].resumed => Dispatched = {}

SessionInv == AbortSticks /\ AtMostOne /\ Cleared

\* Nobody resumes an action where the board has no button for it.
NoResumption ==
  /\ \A r \in Request : ~job[r].resumed
  /\ \A s \in Session : ~doing[s].resumed

\* The sessions that count, spelled out.
LEMMA DispatchedIs ==
  Dispatched = {s \in Session : /\ phase[s] \in Alive /\ s \notin closing
                                /\ ~HasAbort(s) /\ ~doing[s].resumed}
BY DEF Dispatched, Wanted, Aborted, HasAbort

\* A step starts no session, and takes no sentinel from one that goes on.
StartsNone ==
  /\ \A q \in Session :
       /\ phase'[q] \in Alive => phase[q] \in Alive /\ (HasAbort(q) => HasAbort(q)')
       /\ phase[q] # None => phase'[q] # None
  /\ \A q \in closing' :
       q \in Session /\ (q \in closing \/ (phase'[q] # None /\ HasAbort(q)'))
  /\ doing' = doing

\* A step lets no thread past the guard, unless it resumes an action.
ClearsNone ==
  \A r \in Request : pc'[r] \in PastGuard /\ ~job'[r].resumed =>
     pc[r] \in PastGuard /\ ~job[r].resumed

\* After such a step, no session counts that did not count before.
LEMMA NoneRevived ==
  ASSUME SessionInv, StartsNone
  PROVE  Dispatched' \subseteq Dispatched
<1> SUFFICES ASSUME NEW q \in Dispatched' PROVE q \in Dispatched
  OBVIOUS
<1>1. /\ q \in Session /\ phase'[q] \in Alive /\ q \notin closing'
      /\ ~HasAbort(q)' /\ ~doing'[q].resumed
  BY DEF Dispatched, Wanted, Aborted, HasAbort
<1>2. phase[q] \in Alive /\ ~HasAbort(q) /\ ~doing[q].resumed
  BY <1>1 DEF StartsNone
<1>3. q \notin closing
  BY <1>2 DEF SessionInv, AbortSticks
<1> QED
  BY <1>1, <1>2, <1>3, DispatchedIs

\* Such a step keeps the invariant, if it lets nobody past the guard but where
\* there is no session.
LEMMA Shrinks ==
  ASSUME SessionInv, StartsNone, ClearsNone \/ Dispatched = {}
  PROVE  SessionInv'
<1>1. \A q \in Dispatched' : q \in Dispatched
  BY NoneRevived
<1>2. AbortSticks'
  BY DEF SessionInv, AbortSticks, StartsNone
<1>3. AtMostOne'
  BY <1>1 DEF SessionInv, AtMostOne
<1>4. Cleared'
  BY <1>1 DEF SessionInv, Cleared, ClearsNone
<1> QED
  BY <1>2, <1>3, <1>4 DEF SessionInv

\* A step of which the sessions and the threads know nothing.
LEMMA Unaffected ==
  ASSUME SessionInv, UNCHANGED <<pc, job>>, UNCHANGED sessionVars
  PROVE  SessionInv'
BY DEF sessionVars, SessionInv, AbortSticks, AtMostOne, Cleared, Dispatched, Wanted,
       Aborted, HasAbort

\* Returning from a call lets nobody past the guard, nor does a resumption.
LEMMA ReturnClears ==
  ASSUME TypeInv, NEW r \in Request, NEW w, Return(r, w)
  PROVE  ClearsNone
BY DEF ClearsNone, Return, TypeInv, TypeOK, RequestsOK, PastGuard

\* Going on to a step before the guard, or to resume, lets nobody past it.
LEMMA ProceedClears ==
  ASSUME TypeInv, NEW r \in Request, NEW where, NEW j, NEW w, Proceed(r, where, j, w),
         where \notin PastGuard \/ j.resumed
  PROVE  ClearsNone
BY DEF ClearsNone, Proceed, TypeInv, TypeOK, RequestsOK

\* A message, or the sentinel, is put behind what is in the queue already.
LEMMA AppendKeeps ==
  ASSUME NEW T, NEW q \in Seq(T), NEW m
  PROVE  /\ \A i \in DOMAIN q : i \in DOMAIN Append(q, m) /\ Append(q, m)[i] = q[i]
         /\ Len(q) + 1 \in DOMAIN Append(q, m) /\ Append(q, m)[Len(q) + 1] = m
OBVIOUS

\* Taking a message that is not the sentinel leaves the sentinel there.
LEMMA TailKeeps ==
  ASSUME NEW T, NEW q \in Seq(T), q # <<>>, Head(q) # Abort,
         NEW i \in DOMAIN q, q[i] = Abort
  PROVE  \E k \in DOMAIN Tail(q) : Tail(q)[k] = Abort
<1>1. i # 1
  OBVIOUS
<1>2. i - 1 \in DOMAIN Tail(q) /\ Tail(q)[i - 1] = q[i]
  BY <1>1
<1> QED
  BY <1>2

\* abort_sessions_for_item: who is told to stop has the sentinel.
LEMMA AbortPosts ==
  ASSUME TypeInv, AbortAll
  PROVE  StartsNone
<1> DEFINE targets == {s \in Session : Live(s) /\ HasQueue(s)}
           M == {Abort, "approved", "nudge"}
<1>1. /\ closing' = closing \cup targets
      /\ inbox' = [s \in Session |-> IF s \in targets THEN Append(inbox[s], Abort)
                                                      ELSE inbox[s]]
      /\ phase' = phase /\ doing' = doing
  BY DEF AbortAll
<1>2. \A q \in Session : inbox[q] \in Seq(M)
  BY DEF TypeInv, TypeOK, SessionsOK
<1>3. closing \subseteq Session /\ targets \subseteq Session
  BY DEF TypeInv, TypeOK, SessionsOK
<1> HIDE DEF targets, M
<1>4. ASSUME NEW q \in targets PROVE HasAbort(q)'
  <2>1. q \in Session /\ inbox'[q] = Append(inbox[q], Abort) /\ inbox[q] \in Seq(M)
    BY <1>1, <1>2, <1>3, <1>4
  <2>2. Len(inbox[q]) + 1 \in DOMAIN inbox'[q] /\ inbox'[q][Len(inbox[q]) + 1] = Abort
    BY <2>1, AppendKeeps
  <2> QED
    BY <2>2 DEF HasAbort
<1>5. ASSUME NEW q \in Session, HasAbort(q) PROVE HasAbort(q)'
  <2>1. CASE q \in targets
    BY <1>4, <2>1
  <2>2. CASE q \notin targets
    BY <1>1, <1>5, <2>2 DEF HasAbort
  <2> QED
    BY <2>1, <2>2
<1>6. \A q \in targets : phase[q] # None
  BY DEF targets, Live, Alive, None
<1> QED
  BY <1>1, <1>3, <1>4, <1>5, <1>6 DEF StartsNone

\* send_user_message takes no sentinel away.
LEMMA PostKeeps ==
  ASSUME TypeInv, NEW text, Post(text), UNCHANGED <<phase, closing, doing>>
  PROVE  StartsNone
<1> DEFINE M == {Abort, "approved", "nudge"}
<1>1. inbox \in [Session -> Seq(M)] /\ closing \subseteq Session
  BY DEF TypeInv, TypeOK, SessionsOK
<1> HIDE DEF M
<1>2. ASSUME NEW q \in Session, HasAbort(q) PROVE HasAbort(q)'
  <2>1. PICK i \in DOMAIN inbox[q] : inbox[q][i] = Abort
    BY <1>2 DEF HasAbort
  <2>2. inbox'[q] = inbox[q] \/ inbox'[q] = Append(inbox[q], text)
    BY <1>1 DEF Post
  <2>3. i \in DOMAIN inbox'[q] /\ inbox'[q][i] = Abort
    BY <1>1, <2>1, <2>2, AppendKeeps
  <2> QED
    BY <2>3 DEF HasAbort
<1> QED
  BY <1>1, <1>2 DEF StartsNone

\* Nor does a step that leaves the sessions alone.
LEMMA StayKeeps ==
  ASSUME TypeInv, UNCHANGED sessionVars
  PROVE  StartsNone
BY DEF StartsNone, sessionVars, HasAbort, TypeInv, TypeOK, SessionsOK

\* The endpoints start nothing themselves, and let nobody past the guard.
LEMMA EndpointStarts ==
  ASSUME TypeInv, NEW r \in Request, Endpoint(r)
  PROVE  StartsNone /\ ClearsNone
<1>1. ASSUME NEW a \in Action, ActInstant(r, a) PROVE StartsNone /\ ClearsNone
  BY <1>1, AbortPosts, ReturnClears DEF ActInstant
<1>2. ASSUME NEW a \in Action, Act(r, a) PROVE StartsNone /\ ClearsNone
  <2>1. PICK j : Proceed(r, "guard", j, <<>>)
    BY <1>2 DEF Act
  <2> QED
    BY StayKeeps, <1>2, <2>1, ProceedClears DEF Act, PastGuard
<1>3. ASSUME Approve(r) PROVE StartsNone /\ ClearsNone
  <2>1. CASE Reachable
    BY <1>3, <2>1, PostKeeps, ReturnClears DEF Approve
  <2>2. CASE ~Reachable
    <3>1. PICK j : Proceed(r, "guard", j, <<>>)
      BY <1>3, <2>2 DEF Approve
    <3> QED
      BY StayKeeps, <1>3, <2>2, <3>1, ProceedClears DEF Approve, PastGuard
  <2> QED
    BY <2>1, <2>2
<1>4. ASSUME Nudge(r) PROVE StartsNone /\ ClearsNone
  BY <1>4, PostKeeps DEF Nudge, ClearsNone
<1>5. ASSUME Continue(r) PROVE StartsNone /\ ClearsNone
  <2>1. Resumption.resumed
    BY DEF Resumption
  <2> QED
    BY StayKeeps, <1>5, <2>1, ProceedClears DEF Continue
<1>6. ASSUME Discard(r) PROVE StartsNone /\ ClearsNone
  BY StayKeeps, <1>6, ReturnClears DEF Discard
<1>7. ASSUME Retriage(r) PROVE StartsNone /\ ClearsNone
  BY StayKeeps, <1>7, ReturnClears DEF Retriage
<1>8. ASSUME Delete(r) PROVE StartsNone /\ ClearsNone
  BY <1>8, AbortPosts, ReturnClears DEF Delete
<1>9. ASSUME PostDrafts(r) PROVE StartsNone /\ ClearsNone
  <2>1. CASE Reachable
    BY <1>9, <2>1, PostKeeps, ReturnClears DEF PostDrafts
  <2>2. CASE ~Reachable
    <3>1. PICK j : Proceed(r, "posting", j, <<>>)
      BY <1>9, <2>2 DEF PostDrafts
    <3> QED
      BY StayKeeps, <1>9, <2>2, <3>1, ProceedClears DEF PostDrafts, PastGuard
  <2> QED
    BY <2>1, <2>2
<1> QED
  BY <1>1, <1>2, <1>3, <1>4, <1>5, <1>6, <1>7, <1>8, <1>9 DEF Endpoint

\* So the invariant is kept.
LEMMA EndpointSession ==
  ASSUME TypeInv, SessionInv, NEW r \in Request, Endpoint(r)
  PROVE  SessionInv'
BY EndpointStarts, Shrinks

\* A thread passes the guard when there is no session, and starts one while, by
\* Serial, no other thread relies on there being none.
LEMMA ThreadSession ==
  ASSUME TypeInv, SessionInv, Serial, NEW r \in Request, Thread(r)
  PROVE  SessionInv'
<1>1. ASSUME Guard(r) PROVE SessionInv'
  <2>1. CASE AnyLive
    BY StayKeeps, <1>1, <2>1, ReturnClears, Shrinks DEF Guard
  <2>2. CASE ~AnyLive
    <3>1. Dispatched = {}
      BY <2>2, DispatchedIs DEF AnyLive, Live
    <3> QED
      BY StayKeeps, <1>1, <3>1, Shrinks DEF Guard
  <2> QED
    BY <2>1, <2>2
<1>2. ASSUME Prepare(r) PROVE SessionInv'
  <2>1. CASE Ready(r)
    <3>1. ClearsNone
      BY <1>2, <2>1
         DEF ClearsNone, Prepare, Ready, Proceed, PastGuard, TypeInv, TypeOK, RequestsOK
    <3> QED
      BY StayKeeps, <1>2, <3>1, Shrinks DEF Prepare
  <2>2. CASE CannotPush(r) \/ Raises(r)
    <3>1. PICK w : Return(r, w)
      BY <2>2 DEF CannotPush, Raises
    <3> QED
      BY StayKeeps, <1>2, <3>1, ReturnClears, Shrinks DEF Prepare
  <2> QED
    BY <1>2, <2>1, <2>2 DEF Prepare
<1>3. ASSUME NEW s \in Session, Spawn(r, s) PROVE SessionInv'
  <2>1. /\ pc[r] = "spawn" /\ phase[s] = None
        /\ phase' = [phase EXCEPT ![s] = "scheduled"]
        /\ doing' = [doing EXCEPT ![s] = job[r]]
        /\ closing' = closing /\ inbox' = inbox
    BY <1>3 DEF Spawn
  <2>2. /\ \A q \in Session \ {s} : phase'[q] = phase[q] /\ doing'[q] = doing[q]
        /\ phase'[s] = "scheduled" /\ doing'[s] = job[r]
    BY <2>1 DEF TypeInv, TypeOK, SessionsOK
  <2>3. AbortSticks'
    <3>1. s \notin closing
      BY <2>1 DEF SessionInv, AbortSticks
    <3>2. closing \subseteq Session
      BY DEF TypeInv, TypeOK, SessionsOK
    <3> QED
      BY <2>1, <2>2, <3>1, <3>2 DEF SessionInv, AbortSticks, HasAbort
  <2>4. \A q \in Dispatched' : q \in Dispatched \/ (q = s /\ ~job[r].resumed)
    BY <2>1, <2>2 DEF Dispatched, Wanted, Aborted
  <2>5. ~job[r].resumed => Dispatched = {}
    BY <2>1 DEF SessionInv, Cleared, PastGuard
  <2>6. AtMostOne'
    BY <2>4, <2>5 DEF SessionInv, AtMostOne
  <2>7. \A q \in Request : pc'[q] \notin PastGuard
    <3>1. \A q \in Request \ {r} : pc'[q] = pc[q]
      BY <1>3 DEF Spawn, Return, TypeInv, TypeOK, RequestsOK
    <3>2. pc'[r] = "idle"
      BY <1>3 DEF Spawn, Return, TypeInv, TypeOK, RequestsOK
    <3> QED
      BY <2>1, <3>1, <3>2 DEF Serial, PastGuard
  <2>8. Cleared'
    BY <2>7 DEF Cleared
  <2> QED
    BY <2>3, <2>6, <2>8 DEF SessionInv
<1>4. ASSUME PostReplies(r) PROVE SessionInv'
  <2>1. PICK w : Return(r, w)
    BY <1>4 DEF PostReplies
  <2> QED
    BY StayKeeps, <1>4, <2>1, ReturnClears, Shrinks DEF PostReplies
<1> QED
  BY <1>1, <1>2, <1>3, <1>4 DEF Thread

\* A session that goes on keeps its sentinel.
LEMMA MovesKeep ==
  ASSUME TypeInv, NEW s \in Session, NEW from \in Alive, NEW to \in Alive \cup Over,
         NEW w, Moves(s, from, to, w), closing' \subseteq closing, inbox' = inbox
  PROVE  StartsNone /\ ClearsNone
<1>1. phase' = [phase EXCEPT ![s] = to] /\ phase[s] = from /\ doing' = doing
      /\ pc' = pc /\ job' = job
  BY DEF Moves, requestVars
<1>2. None \notin Alive \cup Over
  BY DEF None, Alive, Over
<1> QED
  BY <1>1, <1>2 DEF StartsNone, ClearsNone, HasAbort, TypeInv, TypeOK, SessionsOK

\* So it does when it takes a message.
LEMMA TakeKeeps ==
  ASSUME TypeInv, NEW s \in Session, Take(s)
  PROVE  StartsNone /\ ClearsNone
<1> DEFINE M == {Abort, "approved", "nudge"}
<1>1. inbox \in [Session -> Seq(M)] /\ closing \subseteq Session
      /\ phase \in [Session -> Alive \cup Over \cup {None, "gone"}]
  BY DEF TypeInv, TypeOK, SessionsOK
<1> HIDE DEF M
<1>2. /\ inbox[s] # <<>> /\ inbox' = [inbox EXCEPT ![s] = Tail(@)]
      /\ doing' = doing /\ pc' = pc /\ job' = job /\ closing' \subseteq closing
      /\ phase[s] = "idle"
      /\ \/ Head(inbox[s]) = Abort /\ phase' = [phase EXCEPT ![s] = "closed"]
         \/ Head(inbox[s]) # Abort /\ phase' = [phase EXCEPT ![s] = "again"]
  BY DEF Take, Moves, StatusSet, requestVars
<1>3. ASSUME NEW q \in Session, phase'[q] \in Alive
      PROVE  phase[q] \in Alive /\ (HasAbort(q) => HasAbort(q)')
  <2>1. CASE q # s
    BY <1>1, <1>2, <1>3, <2>1 DEF HasAbort
  <2>2. CASE q = s
    <3>1. Head(inbox[s]) # Abort
      BY <1>1, <1>2, <1>3, <2>2 DEF Alive
    <3>2. inbox'[s] = Tail(inbox[s]) /\ inbox[s] \in Seq(M)
      BY <1>1, <1>2
    <3>3. HasAbort(s) => HasAbort(s)'
      BY <1>2, <3>1, <3>2, TailKeeps DEF HasAbort
    <3> QED
      BY <1>2, <2>2, <3>3 DEF Alive
  <2> QED
    BY <2>1, <2>2
<1>4. \A q \in Session : phase[q] # None => phase'[q] # None
  BY <1>1, <1>2 DEF None
<1> QED
  BY <1>1, <1>2, <1>3, <1>4 DEF StartsNone, ClearsNone

\* The sessions run, park and end: none of it starts or revives a session.
LEMMA CoroutineStarts ==
  ASSUME TypeInv, NEW s \in Session, Coroutine(s)
  PROVE  StartsNone /\ ClearsNone
<1>1. CASE Take(s)
  BY <1>1, TakeKeeps
<1>2. CASE ~Take(s)
  <2>1. PICK from \in Alive, to \in Alive \cup Over : \E w : Moves(s, from, to, w)
    BY <1>2 DEF Coroutine, Begin, Start, FirstTurn, Stamp, Park, NextTurn, IdleTimeout,
                Fail, EndFirstTurn, EndNextTurn, Alive, Over
  <2>2. closing' \subseteq closing /\ inbox' = inbox
    BY <1>2 DEF Coroutine, Begin, Start, FirstTurn, Stamp, Park, NextTurn, IdleTimeout,
                Fail, EndFirstTurn, EndNextTurn, StatusSet
  <2> QED
    BY <2>1, <2>2, MovesKeep
<1> QED
  BY <1>1, <1>2

\* So the invariant is kept.
LEMMA CoroutineSession ==
  ASSUME TypeInv, SessionInv, NEW s \in Session, Coroutine(s)
  PROVE  SessionInv'
BY CoroutineStarts, Shrinks

\* After a restart there is no session.
LEMMA RestartSession ==
  ASSUME NEW resume \in Request \cup {None}, Restart(resume)
  PROVE  SessionInv'
<1>1. closing' = {} /\ \A s \in Session : phase'[s] \notin Alive
  BY DEF Restart, Alive, None
<1>2. Dispatched' = {}
  BY <1>1 DEF Dispatched, Wanted
<1> QED
  BY <1>1, <1>2 DEF SessionInv, AbortSticks, AtMostOne, Cleared

\* At the start there is no session.
LEMMA InitSession == Init => SessionInv
<1> SUFFICES ASSUME Init PROVE SessionInv
  OBVIOUS
<1>1. Dispatched = {}
  BY DEF Init, Dispatched, Wanted, Alive, None
<1> QED
  BY <1>1 DEF Init, SessionInv, AbortSticks, AtMostOne, Cleared

\* Of a set any two members of which are one and the same.
LEMMA AtMostOneMember ==
  ASSUME NEW S, \A s, t \in S : s = t
  PROVE  Cardinality(S) <= 1
<1>1. CASE S = {}
  BY <1>1, FS_EmptySet
<1>2. CASE S # {}
  <2>1. PICK s \in S : S = {s}
    BY <1>2
  <2>2. Cardinality({s}) = 1
    BY FS_Singleton
  <2> QED
    BY <2>1, <2>2
<1> QED
  BY <1>1, <1>2

\* Types and sessions together, under the proviso that dispatches do not overlap.
LEMMA SessionInvariant == Spec /\ []Serial => []SessionInv
<1>1. TypeInv /\ SessionInv /\ Serial /\ [Next]_vars => SessionInv'
  <2> SUFFICES ASSUME TypeInv, SessionInv, Serial, [Next]_vars PROVE SessionInv'
    OBVIOUS
  <2>1. ASSUME NEW x \in Request \cup Session, Write(x) PROVE SessionInv'
    BY <2>1, Unaffected DEF Write, requestVars
  <2>2. CASE RefreshLooks \/ RefreshApplies \/ RefreshOne \/ Readd
    BY <2>2, Unaffected DEF RefreshLooks, RefreshApplies, RefreshOne, Readd, requestVars
  <2>3. CASE UNCHANGED vars
    BY <2>3, Unaffected DEF vars, requestVars
  <2> QED
    BY <2>1, <2>2, <2>3, EndpointSession, ThreadSession, CoroutineSession, RestartSession
       DEF Next
<1>2. TypeInv /\ [Next]_vars => TypeInv'
  BY StutterTypes, WriteTypes, EndpointTypes, ThreadTypes, CoroutineTypes,
     RefreshTypes, RestartTypes DEF Next
<1> QED
  BY InitTypes, InitSession, <1>1, <1>2, PTL DEF Spec

\* Nothing but two dispatches past their guards at the same time makes two live
\* sessions of those that dispatch starts: with any number of threads, sessions,
\* calls and restarts, and with continue_action among the calls, the guard does
\* what actions.py:891 says if only it were held until the session is there.
THEOREM SerialDispatch == Spec /\ []Serial => []OneDispatched
<1>1. SessionInv => OneDispatched
  BY AtMostOneMember DEF SessionInv, AtMostOne, Dispatched, OneDispatched
<1> QED
  BY SessionInvariant, <1>1, PTL

\* With one thread nothing has to be assumed of the interleaving, and continue_action
\* may be among the calls.
THEOREM OneThreadDispatched ==
  ASSUME \A r, q \in Request : r = q
  PROVE  Spec => []OneDispatched
<1>1. Serial
  BY DEF Serial
<1> QED
  BY <1>1, SerialDispatch, PTL

\* Where the board offers no continuation, no job is ever a resumed one.
LEMMA NeverResumed ==
  ASSUME "continue" \notin Endpoints
  PROVE  Spec => []NoResumption
<1>1. Init => NoResumption
  BY DEF Init, NoResumption, NoJob
<1>2. TypeInv /\ NoResumption /\ [Next]_vars => NoResumption'
  <2> SUFFICES ASSUME TypeInv, NoResumption, [Next]_vars PROVE NoResumption'
    OBVIOUS
  <2>1. ~NoJob.resumed
    BY DEF NoJob
  <2>2. ASSUME NEW r \in Request, Endpoint(r) PROVE NoResumption'
    <3>1. doing' = doing
      BY <2>2 DEF Endpoint, ActInstant, Act, Approve, PostDrafts, Nudge, Continue, Discard, Retriage,
                  Delete, AbortAll, sessionVars
    <3>2. ~Continue(r)
      BY DEF Continue, Call
    <3>3. ASSUME NEW w, Return(r, w) PROVE NoResumption'
      BY <2>1, <3>1, <3>3 DEF Return, NoResumption, TypeInv, TypeOK, RequestsOK
    <3>4. ASSUME NEW where, NEW j, NEW w, Proceed(r, where, j, w), ~j.resumed
          PROVE  NoResumption'
      BY <3>1, <3>4 DEF Proceed, NoResumption, TypeInv, TypeOK, RequestsOK
    <3>5. ASSUME NEW a \in Action, ActInstant(r, a) PROVE NoResumption'
      BY <3>3, <3>5 DEF ActInstant
    <3>6. ASSUME NEW a \in Action, Act(r, a) PROVE NoResumption'
      <4>1. PICK j : Proceed(r, "guard", j, <<>>) /\ ~j.resumed
        BY <3>6 DEF Act
      <4> QED
        BY <3>4, <4>1
    <3>7. ASSUME Approve(r) PROVE NoResumption'
      <4>1. CASE Reachable
        BY <3>3, <3>7, <4>1 DEF Approve
      <4>2. CASE ~Reachable
        <5>1. PICK j : Proceed(r, "guard", j, <<>>) /\ ~j.resumed
          BY <3>7, <4>2 DEF Approve
        <5> QED
          BY <3>4, <5>1
      <4> QED
        BY <4>1, <4>2
    <3>8. ASSUME Nudge(r) PROVE NoResumption'
      BY <3>1, <3>8 DEF Nudge, NoResumption
    <3>9. ASSUME Discard(r) \/ Retriage(r) \/ Delete(r) PROVE NoResumption'
      BY <3>3, <3>9 DEF Discard, Retriage, Delete
    <3>10. ASSUME PostDrafts(r) PROVE NoResumption'
      <4>1. CASE Reachable
        BY <3>3, <3>10, <4>1 DEF PostDrafts
      <4>2. CASE ~Reachable
        <5>1. PICK j : Proceed(r, "posting", j, <<>>) /\ ~j.resumed
          BY <3>10, <4>2 DEF PostDrafts
        <5> QED
          BY <3>4, <5>1
      <4> QED
        BY <4>1, <4>2
    <3> QED
      BY <2>2, <3>2, <3>5, <3>6, <3>7, <3>8, <3>9, <3>10 DEF Endpoint
  <2>3. ASSUME NEW r \in Request, Thread(r) PROVE NoResumption'
    <3>1. doing' = doing \/ \E s \in Session : doing' = [doing EXCEPT ![s] = job[r]]
      BY <2>3 DEF Thread, Guard, Prepare, PostReplies, Spawn, sessionVars
    <3>2. \/ job' = [job EXCEPT ![r] = NoJob]
          \/ job' = [job EXCEPT ![r] = job[r]]
      BY <2>3 DEF Thread, Guard, Prepare, PostReplies, Spawn, Ready, CannotPush, Raises, Return, Proceed
    <3> QED
      BY <2>1, <3>1, <3>2 DEF NoResumption, TypeInv, TypeOK, RequestsOK, SessionsOK
  <2>4. ASSUME NEW s \in Session, Coroutine(s) PROVE NoResumption'
    BY <2>4 DEF Coroutine, Begin, Start, FirstTurn, Stamp, Park, Take, NextTurn, IdleTimeout,
                Fail, EndFirstTurn, EndNextTurn, Moves, requestVars, NoResumption
  <2>5. ASSUME NEW resume \in Request \cup {None}, Restart(resume) PROVE NoResumption'
    BY <2>1, <2>5 DEF Restart, NoResumption
  <2>6. ASSUME NEW x \in Request \cup Session, Write(x) PROVE NoResumption'
    BY <2>6 DEF Write, requestVars, sessionVars, NoResumption
  <2>7. CASE RefreshLooks \/ RefreshApplies \/ RefreshOne \/ Readd
    BY <2>7 DEF RefreshLooks, RefreshApplies, RefreshOne, Readd, requestVars, sessionVars,
                NoResumption
  <2>8. CASE UNCHANGED vars
    BY <2>8 DEF vars, requestVars, sessionVars, NoResumption
  <2> QED
    BY <2>2, <2>3, <2>4, <2>5, <2>6, <2>7, <2>8 DEF Next
<1>3. TypeInv /\ [Next]_vars => TypeInv'
  BY StutterTypes, WriteTypes, EndpointTypes, ThreadTypes, CoroutineTypes,
     RefreshTypes, RestartTypes DEF Next
<1> QED
  BY InitTypes, <1>1, <1>2, <1>3, PTL DEF Spec

\* With no continuation either, there is no second live session of any kind: the
\* other hole is that continue_action has no guard.
THEOREM SerialOneLive ==
  ASSUME "continue" \notin Endpoints
  PROVE  Spec /\ []Serial => []OneLiveSession
<1>1. SessionInv /\ NoResumption => OneLiveSession
  <2> SUFFICES ASSUME SessionInv, NoResumption PROVE OneLiveSession
    OBVIOUS
  <2>1. Wanted = Dispatched
    BY DEF Wanted, Dispatched, NoResumption
  <2> QED
    BY <2>1, AtMostOneMember DEF SessionInv, AtMostOne, OneLiveSession
<1> QED
  BY SessionInvariant, NeverResumed, <1>1, PTL
=============================================================================
