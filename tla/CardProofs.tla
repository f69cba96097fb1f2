---------------------------- MODULE CardProofs ----------------------------
(***************************************************************************)
(* What the card says, and whether it is so: an action that the card calls *)
(* queued or running has a session, a parked card has a baseline, and the  *)
(* card's pointer leads to the session that is live.                       *)
(***************************************************************************)
EXTENDS ActionsProofs

Everyone == Request \cup Session

\* A thread that is on its way to its next step has written what it had to write.
Settled ==
  \A r \in Request : pc[r] \in {"guard", "spawn", "posting"} => todo[r] = <<>>
-----------------------------------------------------------------------------
(* An action under way has a session.                                      *)

\* The phases of a session whose outcome is not on the card yet.
Early == {"scheduled", "queued", "starting", "first", "stamped"}

\* A plan, or drafts, that was handed to a session is called running by the
\* endpoint that handed it over, whether the session still reads it or not.
HandedOver(a) == a \in TwoPhase /\ Endpoints \cap {"approve", "post"} # {}

UnderWay(a, status) == status \in Pending /\ ~HandedOver(a)

Announces(w) == "status" \in DOMAIN w /\ UnderWay(w["action"], w["status"])
Settles(w)   == "status" \in DOMAIN w /\ w["status"] \notin Pending

Calm == {w \in Writes : ~Announces(w)}

Settling(l) == \E i \in DOMAIN l : Settles(l[i])

\* A thread or a session that will have more to say of its action.
Custodian(x) ==
  (x \in Request /\ pc[x] \in PastGuard) \/ (x \in Session /\ phase[x] \in Early)

OthersAreCalm == \A x \in Everyone : todo[x] \in Seq(Calm) \/ Custodian(x)

Answered ==
  \/ \E x \in Everyone : Custodian(x) \/ Settling(todo[x])
  \/ \E s \in Session : phase[s] = "failed"

UnderWayIsAnswered ==
  card.present /\ UnderWay(card.action, card.status) => Answered

\* An approved plan is only dispatched where plans can be approved.
ApprovedOK == \A r \in Request : job[r].approved => "approve" \in Endpoints

RunningInv == Settled /\ ApprovedOK /\ OthersAreCalm /\ UnderWayIsAnswered

\* Nothing in an empty list answers for an action.
LEMMA SettlingNone == ~Settling(<<>>) /\ <<>> \in Seq(Calm)
BY DEF Settling

\* A list that answers for an action does so in its first write, or later.
LEMMA SettlingHead ==
  ASSUME NEW l \in Seq(Writes), l # <<>>, Settling(l)
  PROVE  Settles(Head(l)) \/ Settling(Tail(l))
<1>1. PICK i \in DOMAIN l : Settles(l[i])
  BY DEF Settling
<1>2. CASE i = 1
  BY <1>1, <1>2
<1>3. CASE i # 1
  <2>1. i - 1 \in DOMAIN Tail(l) /\ Tail(l)[i - 1] = l[i]
    BY <1>3
  <2> QED
    BY <1>1, <2>1 DEF Settling
<1> QED
  BY <1>2, <1>3

\* A list answers for an action if it begins or ends with one that does.
LEMMA SettlingConcat ==
  ASSUME NEW s \in Seq(Writes), NEW t \in Seq(Writes), Settling(s) \/ Settling(t)
  PROVE  Settling(s \o t)
<1>1. CASE Settling(s)
  <2>1. PICK i \in DOMAIN s : Settles(s[i])
    BY <1>1 DEF Settling
  <2>2. i \in DOMAIN (s \o t) /\ (s \o t)[i] = s[i]
    OBVIOUS
  <2> QED
    BY <2>1, <2>2 DEF Settling
<1>2. CASE Settling(t)
  <2>1. PICK i \in DOMAIN t : Settles(t[i])
    BY <1>2 DEF Settling
  <2>2. Len(s) + i \in DOMAIN (s \o t) /\ (s \o t)[Len(s) + i] = t[i]
    OBVIOUS
  <2> QED
    BY <2>1, <2>2 DEF Settling
<1> QED
  BY <1>1, <1>2

\* An outcome answers for its action.
LEMMA ResultSettles ==
  ASSUME NEW a, NEW st, NEW sdk, st \notin Pending
  PROVE  Settling(Result(a, st, sdk))
<1>1. Result(a, st, sdk) = <<[action |-> a, status |-> st, sdk |-> sdk]>>
  BY DEF Result
<1>2. Settles([action |-> a, status |-> st, sdk |-> sdk])
  BY DEF Settles
<1> QED
  BY <1>1, <1>2 DEF Settling

\* Two lists that announce no action announce none together.
LEMMA CalmConcat ==
  ASSUME NEW s \in Seq(Calm), NEW t \in Seq(Calm)
  PROVE  s \o t \in Seq(Calm)
OBVIOUS

\* One write that announces no action.
LEMMA CalmSingle ==
  ASSUME NEW w \in Writes, ~Announces(w)
  PROVE  <<w>> \in Seq(Calm)
<1>1. w \in Calm
  BY DEF Calm
<1> QED
  BY <1>1

\* States, plans and baselines announce no action.
LEMMA CalmWrites ==
  /\ \A s \in States \cup {None} : State(s) \in Seq(Calm)
  /\ \A a, p : p \in Offers => Offer(a, p) \in Seq(Calm)
  /\ Baseline \in Seq(Calm)
<1>1. \A s \in States : [state |-> s] \in Writes /\ ~Announces([state |-> s])
  BY DEF Writes, States, Announces
<1>2. \A p \in Offers : /\ [plan |-> p] \in Writes /\ ~Announces([plan |-> p])
                         /\ [drafts |-> p] \in Writes /\ ~Announces([drafts |-> p])
  BY DEF Writes, Announces
<1>3. [parked |-> TRUE] \in Writes /\ ~Announces([parked |-> TRUE])
  BY DEF Writes, Announces
<1>4. \A s \in States \cup {None} : State(s) \in Seq(Calm)
  <2> SUFFICES ASSUME NEW s \in States \cup {None} PROVE State(s) \in Seq(Calm)
    OBVIOUS
  <2>1. CASE s = None
    BY <2>1, SettlingNone DEF State
  <2>2. CASE s # None
    BY <1>1, <2>2, CalmSingle DEF State
  <2> QED
    BY <2>1, <2>2
<1>5. \A a, p : p \in Offers => Offer(a, p) \in Seq(Calm)
  BY <1>2, CalmSingle DEF Offer
<1>6. Baseline \in Seq(Calm)
  BY <1>3, CalmSingle DEF Baseline
<1> QED
  BY <1>4, <1>5, <1>6

\* Nor does an outcome.
LEMMA CalmResult ==
  ASSUME NEW a \in Actions, NEW st \in ResultStatuses \cup {None}, NEW sdk \in BOOLEAN,
         ~UnderWay(a, st)
  PROVE  Result(a, st, sdk) \in Seq(Calm)
<1>1. [action |-> a, status |-> st, sdk |-> sdk] \in Writes
  BY DEF Writes
<1>2. ~Announces([action |-> a, status |-> st, sdk |-> sdk])
  BY DEF Announces
<1> QED
  BY <1>1, <1>2, CalmSingle DEF Result

\* Handing a plan over announces it, but not as under way.
LEMMA CalmExecuting ==
  ASSUME NEW a \in TwoPhase, Endpoints \cap {"approve", "post"} # {}
  PROVE  Executing(a) \in Seq(Calm)
<1>1. a \in Actions /\ HandedOver(a)
  BY DEF TwoPhase, Actions, HandedOver
<1>2. Result(a, "running", FALSE) \in Seq(Calm)
  BY <1>1, CalmResult, SpecResults DEF UnderWay
<1>3. Offer(a, "executing") \in Seq(Calm)
  BY CalmWrites, SpecResults
<1> QED
  BY <1>2, <1>3, CalmConcat DEF Executing

\* Nor does what is left to do when a dispatch returns.
LEMMA CalmAfterwards ==
  ASSUME NEW j, j.approved => "approve" \in Endpoints
  PROVE  Afterwards(j) \in Seq(Calm)
BY CalmExecuting, SettlingNone DEF Afterwards, TwoPhase

\* No outcome of a turn leaves the action under way.
LEMMA OutcomesSettle == \A o \in Outcomes : o \notin Pending /\ o \in ResultStatuses
BY SpecResults DEF Outcomes, Success, Pending

\* The hook of the first turn always records an outcome.
LEMMA FirstHookSettles ==
  ASSUME NEW j \in Jobs, NEW outcome \in Outcomes, j.action # None
  PROVE  /\ FirstHook(j, outcome) \in Seq(Calm)
         /\ Settling(FirstHook(j, outcome))
<1> DEFINE recorded == Result(j.action, outcome, TRUE)
           parks    == IF j.action = "nudge-author" /\ ~j.resumed THEN Baseline ELSE <<>>
<1>1. j.action \in Actions
  BY DEF Jobs
<1>2. recorded \in Seq(Calm) /\ recorded \in Seq(Writes) /\ Settling(recorded)
  BY <1>1, OutcomesSettle, CalmResult, WriteResult, ResultSettles DEF UnderWay
<1>3. /\ State(Terminal(j.action)) \in Seq(Calm) /\ State(Failure(j.action)) \in Seq(Calm)
      /\ State(Terminal(j.action)) \in Seq(Writes) /\ State(Failure(j.action)) \in Seq(Writes)
  BY <1>1, SpecStates, CalmWrites, WriteState
<1>4. parks \in Seq(Calm) /\ parks \in Seq(Writes)
  BY CalmWrites, WriteBaseline, SettlingNone
<1>5. Offer(j.action, "proposed") \in Seq(Calm) /\ Offer(j.action, "proposed") \in Seq(Writes)
  BY CalmWrites, WriteOffer, SpecResults
<1>6. FirstHook(j, outcome) =
        CASE outcome = Success -> State(Terminal(j.action)) \o parks \o recorded
          [] outcome = "proposal" /\ j.action \in TwoPhase ->
               Offer(j.action, "proposed") \o recorded
          [] outcome = "needs_human" /\ ~j.resumed -> State(Failure(j.action)) \o recorded
          [] OTHER -> recorded
  BY DEF FirstHook
<1> HIDE DEF recorded, parks
<1>7. \A w \in Seq(Writes) : w \in Seq(Calm) =>
        w \o recorded \in Seq(Calm) /\ Settling(w \o recorded)
  BY <1>2, CalmConcat, SettlingConcat
<1>8. State(Terminal(j.action)) \o parks \in Seq(Writes)
      /\ State(Terminal(j.action)) \o parks \in Seq(Calm)
  BY <1>3, <1>4, CalmConcat, WriteConcat
<1> QED
  BY <1>2, <1>3, <1>5, <1>6, <1>7, <1>8 DEF Success

\* The hook of a later turn announces nothing.
LEMMA NextHookCalm ==
  ASSUME NEW j \in Jobs, NEW outcome \in Outcomes
  PROVE  NextHook(j, outcome) \in Seq(Calm)
<1> DEFINE recorded == Result(j.action, outcome, TRUE)
           settled  == State("done") \o Offer(j.action, "done")
<1>1. CASE j.action \notin TwoPhase
  <2>1. NextHook(j, outcome) = <<>>
    BY <1>1 DEF NextHook
  <2> QED
    BY <2>1
<1>2. CASE j.action \in TwoPhase
  <2>1. j.action \in Actions
    BY <1>2 DEF TwoPhase, Actions
  <2>2. recorded \in Seq(Calm)
    BY <2>1, OutcomesSettle, CalmResult DEF UnderWay
  <2>3. settled \in Seq(Calm) /\ <<>> \in Seq(Calm)
    BY CalmWrites, CalmConcat, SpecResults, SettlingNone
  <2>4. NextHook(j, outcome) =
          IF j.action \notin TwoPhase \/ j.resumed \/ outcome = "proposal" THEN <<>>
          ELSE (IF outcome = Success THEN settled ELSE <<>>) \o recorded
    BY DEF NextHook
  <2> HIDE DEF recorded, settled
  <2>5. (IF outcome = Success THEN settled ELSE <<>>) \o recorded \in Seq(Calm)
    BY <2>2, <2>3, CalmConcat
  <2> QED
    BY <2>3, <2>4, <2>5
<1> QED
  BY <1>1, <1>2
-----------------------------------------------------------------------------
\* The sessions whose outcome is not on the card yet stay so, the failed ones too.
GoOn ==
  \A s \in Session : /\ phase[s] \in Early => phase'[s] \in Early
                     /\ phase[s] = "failed" => phase'[s] = "failed"

\* A thread or a session that has made its writes gets a new list of them, which
\* announces nothing unless it will have more to say; and if it gives up the
\* custody of the action, the list, or somebody else, answers for it.
LEMMA Hand ==
  ASSUME TypeInv, RunningInv, NEW x \in Everyone, NEW w,
         todo[x] = <<>>, todo' = [todo EXCEPT ![x] = w], card' = card,
         Settled', ApprovedOK',
         w \in Seq(Calm) \/ Custodian(x)',
         \A y \in Everyone \ {x} : Custodian(y) => Custodian(y)',
         \A s \in Session : phase[s] = "failed" => phase'[s] = "failed",
         Custodian(x) => \/ Settling(w) \/ \E y \in Everyone : Custodian(y)'
                         \/ \E s \in Session : phase'[s] = "failed"
  PROVE  RunningInv'
<1>1. todo'[x] = w /\ \A y \in Everyone \ {x} : todo'[y] = todo[y]
  BY DEF TypeInv, TypeOK, Everyone
<1>2. OthersAreCalm'
  BY <1>1 DEF RunningInv, OthersAreCalm
<1>3. Answered => Answered'
  <2>1. ASSUME NEW y \in Everyone, Custodian(y) PROVE Answered'
    BY <1>1, <2>1 DEF Answered
  <2>2. ASSUME NEW y \in Everyone, Settling(todo[y]) PROVE Answered'
    <3>1. y # x
      BY <2>2, SettlingNone
    <3> QED
      BY <1>1, <2>2, <3>1 DEF Answered
  <2>3. ASSUME NEW s \in Session, phase[s] = "failed" PROVE Answered'
    BY <2>3 DEF Answered
  <2> QED
    BY <2>1, <2>2, <2>3 DEF Answered
<1>4. UnderWayIsAnswered'
  BY <1>3 DEF RunningInv, UnderWayIsAnswered
<1> QED
  BY <1>2, <1>4 DEF RunningInv

\* A thread returns from its call.
LEMMA ReturnAnswered ==
  ASSUME TypeInv, RunningInv, NEW r \in Request, NEW w \in Seq(Calm), Return(r, w),
         todo[r] = <<>>, card' = card, GoOn,
         pc[r] \in PastGuard => Settling(w) \/ \E s \in Session : phase'[s] \in Early
  PROVE  RunningInv'
<1>1. /\ r \in Everyone /\ r \notin Session
      /\ todo' = [todo EXCEPT ![r] = w]
      /\ pc' = [pc EXCEPT ![r] = "idle"] /\ job' = [job EXCEPT ![r] = NoJob]
  BY ActionsAssumption DEF ActionsAssumption, Return, Everyone
<1>2. /\ \A y \in Request \ {r} : pc'[y] = pc[y] /\ job'[y] = job[y] /\ todo'[y] = todo[y]
      /\ pc'[r] = "idle" /\ job'[r] = NoJob
  BY <1>1 DEF TypeInv, TypeOK, RequestsOK
<1>3. Settled'
  BY <1>2 DEF RunningInv, Settled
<1>4. ApprovedOK'
  BY <1>2 DEF RunningInv, ApprovedOK, NoJob
<1>5. \A y \in Everyone \ {r} : Custodian(y) => Custodian(y)'
  BY <1>2 DEF Custodian, GoOn
<1>6. Custodian(r) => Settling(w) \/ \E y \in Everyone : Custodian(y)'
  BY <1>1 DEF Custodian, Everyone
<1> QED
  BY <1>1, <1>3, <1>4, <1>5, <1>6, Hand DEF GoOn

\* A thread goes on to the next step of its dispatch.
LEMMA ProceedAnswered ==
  ASSUME TypeInv, RunningInv, NEW r \in Request, NEW where, NEW j, NEW w,
         Proceed(r, where, j, w), todo[r] = <<>>, card' = card, GoOn,
         j.approved => "approve" \in Endpoints,
         where = "prepare" \/ w = <<>>,
         where \in PastGuard \/ pc[r] \notin PastGuard
  PROVE  RunningInv'
<1>1. /\ r \in Everyone /\ r \notin Session
      /\ todo' = [todo EXCEPT ![r] = w]
      /\ pc' = [pc EXCEPT ![r] = where] /\ job' = [job EXCEPT ![r] = j]
  BY ActionsAssumption DEF ActionsAssumption, Proceed, Everyone
<1>2. /\ \A y \in Request \ {r} : pc'[y] = pc[y] /\ job'[y] = job[y] /\ todo'[y] = todo[y]
      /\ pc'[r] = where /\ job'[r] = j /\ todo'[r] = w
  BY <1>1 DEF TypeInv, TypeOK, RequestsOK
<1>3. Settled'
  BY <1>2 DEF RunningInv, Settled
<1>4. ApprovedOK'
  BY <1>2 DEF RunningInv, ApprovedOK
<1>5. \A y \in Everyone \ {r} : Custodian(y) => Custodian(y)'
  BY <1>2 DEF Custodian, GoOn
<1>6. Custodian(r) => Custodian(r)'
  BY <1>1, <1>2 DEF Custodian
<1>7. w \in Seq(Calm) \/ Custodian(r)'
  BY <1>2, SettlingNone DEF Custodian, PastGuard
<1> QED
  BY <1>1, <1>3, <1>4, <1>5, <1>6, <1>7, Hand DEF GoOn

\* A session goes on to its next phase.
LEMMA MovesAnswered ==
  ASSUME TypeInv, RunningInv, NEW s \in Session, NEW from, NEW to, NEW w,
         Moves(s, from, to, w), to \in Alive \cup Over,
         w \in Seq(Calm) \/ to \in Early, from # "failed",
         from \in Early => to \in Early \cup {"failed"} \/ Settling(w)
  PROVE  RunningInv'
<1>1. /\ s \in Everyone /\ s \notin Request
      /\ todo' = [todo EXCEPT ![s] = w] /\ todo[s] = <<>> /\ card' = card
      /\ phase' = [phase EXCEPT ![s] = to] /\ phase[s] = from
      /\ pc' = pc /\ job' = job
  BY ActionsAssumption DEF ActionsAssumption, Moves, Everyone, requestVars
<1>2. /\ \A y \in Session \ {s} : phase'[y] = phase[y]
      /\ phase'[s] = to
      /\ \A y \in Request : todo'[y] = todo[y]
  BY <1>1 DEF TypeInv, TypeOK, SessionsOK
<1>3. Settled' /\ ApprovedOK'
  BY <1>1, <1>2 DEF RunningInv, Settled, ApprovedOK
<1>5. \A y \in Everyone \ {s} : Custodian(y) => Custodian(y)'
  BY <1>1, <1>2 DEF Custodian
<1>6. Custodian(s) => \/ Settling(w) \/ \E y \in Everyone : Custodian(y)'
                      \/ \E q \in Session : phase'[q] = "failed"
  BY <1>1, <1>2 DEF Custodian
<1>7. w \in Seq(Calm) \/ Custodian(s)'
  BY <1>2 DEF Custodian
<1>8. \A q \in Session : phase[q] = "failed" => phase'[q] = "failed"
  BY <1>1, <1>2
<1> QED
  BY <1>1, <1>3, <1>5, <1>6, <1>7, <1>8, Hand

\* A partial record has a field of the card, or leaves it as it is.
LEMMA OverlayField ==
  ASSUME NEW c \in Cards, NEW w
  PROVE  \A f \in Fields : Overlay(w, c)[f] = IF f \in DOMAIN w THEN w[f] ELSE c[f]
<1>1. DOMAIN c = Fields
  BY DEF Cards, Fields
<1> QED
  BY <1>1 DEF Overlay

\* A result names its action and its status together; a write never brings a
\* card back, nor takes its baseline or its pointer away.
LEMMA WriteShape ==
  ASSUME NEW w \in Writes
  PROVE  /\ "status" \in DOMAIN w <=> "action" \in DOMAIN w
         /\ "present" \in DOMAIN w => ~w["present"]
         /\ "parked" \in DOMAIN w => w = [parked |-> TRUE]
         /\ "session" \in DOMAIN w => w["session"] \in Session
<1>1. CASE w \in [state : QueueStates \cup {FailureState}]
  BY <1>1
<1>2. CASE w \in [action : Actions, status : ResultStatuses \cup {None}, sdk : BOOLEAN]
  BY <1>2
<1>4. CASE w \in [state : InitialStates, action : {None}, status : {None}, sdk : {FALSE}]
  BY <1>4
<1>5. CASE w \in [plan : Offers]
  BY <1>5
<1>9. CASE w \in [drafts : Offers]
  BY <1>9
<1>6. CASE w \in [parked : {TRUE}]
  BY <1>6
<1>7. CASE w \in [session : Session]
  BY <1>7
<1>8. CASE w \in [present : {FALSE}]
  BY <1>8
<1> QED
  BY <1>1, <1>2, <1>4, <1>5, <1>6, <1>7, <1>8, <1>9 DEF Writes

\* The next write reaches the card.
LEMMA WriteAnswered ==
  ASSUME TypeInv, RunningInv, NEW x \in Everyone, Write(x)
  PROVE  RunningInv'
<1> DEFINE h == Head(todo[x])
<1>1. /\ todo[x] \in Seq(Writes) /\ todo[x] # <<>> /\ card \in Cards
      /\ pc' = pc /\ job' = job /\ phase' = phase
      /\ card' = IF card.present THEN Overlay(h, card) ELSE card
      /\ todo' = [todo EXCEPT ![x] = Tail(todo[x])]
  BY DEF Write, TypeInv, TypeOK, Everyone, requestVars, sessionVars
<1>2. h \in Writes /\ todo'[x] = Tail(todo[x]) /\ \A y \in Everyone \ {x} : todo'[y] = todo[y]
  BY <1>1 DEF TypeInv, TypeOK, Everyone
<1> HIDE DEF h
<1>3. \A y : Custodian(y) => Custodian(y)'
  BY <1>1 DEF Custodian
<1>4. Settled' /\ ApprovedOK'
  <2>1. \A r \in Request : pc[r] \in {"guard", "spawn", "posting"} => todo[r] = <<>>
    BY DEF RunningInv, Settled
  <2>2. \A r \in Request : r \in Everyone
    BY DEF Everyone
  <2>3. \A r \in Request : pc[r] \in {"guard", "spawn", "posting"} => todo'[r] = <<>>
    BY <1>1, <1>2, <2>1, <2>2
  <2> QED
    BY <1>1, <2>3 DEF RunningInv, Settled, ApprovedOK
<1>5. OthersAreCalm'
  <2>1. todo[x] \in Seq(Calm) => Tail(todo[x]) \in Seq(Calm)
    BY <1>1
  <2> QED
    BY <1>2, <1>3, <2>1 DEF RunningInv, OthersAreCalm
<1>6. UnderWayIsAnswered'
  <2> SUFFICES ASSUME card'.present, UnderWay(card'.action, card'.status)
               PROVE  Answered'
    BY DEF UnderWayIsAnswered, UnderWay
  <2>1. card.present /\ card' = Overlay(h, card)
    BY <1>1
  <2>2. /\ card'.status = IF "status" \in DOMAIN h THEN h["status"] ELSE card.status
        /\ card'.action = IF "action" \in DOMAIN h THEN h["action"] ELSE card.action
    BY <1>1, <2>1, OverlayField DEF Fields
  <2>3. CASE "status" \in DOMAIN h
    <3>1. Announces(h)
      BY <1>2, <2>2, <2>3, WriteShape DEF Announces
    <3>2. todo[x] \notin Seq(Calm)
      BY <1>1, <3>1 DEF h, Calm
    <3> QED
      BY <1>3, <3>2 DEF RunningInv, OthersAreCalm, Answered
  <2>4. CASE "status" \notin DOMAIN h
    <3>1. Answered
      BY <1>2, <2>1, <2>2, <2>4, WriteShape DEF RunningInv, UnderWayIsAnswered
    <3>2. ~Settles(h)
      BY <2>4 DEF Settles
    <3>3. Settling(todo[x]) => Settling(Tail(todo[x]))
      BY <1>1, <3>2, SettlingHead DEF h
    <3> QED
      BY <1>1, <1>2, <1>3, <3>1, <3>3 DEF Answered
  <2> QED
    BY <2>3, <2>4
<1> QED
  BY <1>4, <1>5, <1>6 DEF RunningInv

\* A step that leaves the threads and the sessions alone, and announces nothing.
LEMMA CardAnswered ==
  ASSUME RunningInv, UNCHANGED <<todo, requestVars, sessionVars>>,
         card'.present /\ UnderWay(card'.action, card'.status) =>
           card.present /\ UnderWay(card.action, card.status)
  PROVE  RunningInv'
<1>1. pc' = pc /\ job' = job /\ phase' = phase /\ todo' = todo
  BY DEF requestVars, sessionVars
<1>2. Settled' /\ ApprovedOK' /\ OthersAreCalm'
  BY <1>1 DEF RunningInv, Settled, ApprovedOK, OthersAreCalm, Custodian
<1>3. Answered => Answered'
  BY <1>1 DEF Answered, Custodian
<1> QED
  BY <1>2, <1>3 DEF RunningInv, UnderWayIsAnswered, UnderWay

\* What a card still says after a refresh: its result as it was, or none; its
\* state and its baseline as they were, or an initial state; and it is not taken
\* off the board, nor pointed elsewhere.
LEMMA RefreshedResult ==
  ASSUME card \in Cards, NEW recover, NEW c \in Refreshes(recover)
  PROVE  /\ c \in Cards /\ c.present = card.present /\ c.session = card.session
         /\ \/ c.action = card.action /\ c.status = card.status
            \/ c.status = None
         /\ \/ c.state = card.state /\ c.parked = card.parked
            \/ c.state \in InitialStates
<1>1. c \in Cards
  BY RefreshesCards
<1>2. PICK differs \in BOOLEAN, stale \in BOOLEAN, initial \in InitialStates :
        c = Refreshed(recover, differs, stale, initial)
  BY DEF Refreshes
<1> DEFINE b == IF recover THEN Recovered ELSE card
           f == Overlay(Forget(initial), b)
           g == Overlay([parked |-> FALSE], f)
           Same(x, y) == x.present = y.present /\ x.session = y.session
<1>3. /\ b \in Cards /\ b.action = card.action /\ b.status = card.status
      /\ b.state = card.state /\ b.parked = card.parked /\ Same(b, card)
  <2>1. Again(card.plan) \in Offers \cup {None} /\ Again(card.drafts) \in Offers \cup {None}
    BY DEF Again, Cards, Offers
  <2>2. Recovered = [card EXCEPT !.plan = Again(card.plan), !.drafts = Again(card.drafts)]
    BY DEF Recovered
  <2> QED
    BY <2>1, <2>2 DEF Cards
<1>4. c = b \/ c = f \/ c = g
  BY <1>2 DEF Refreshed
<1> HIDE DEF b
<1>5. f \in Cards
  BY <1>3, RefreshFits, OverlayFits
<1>6. f.status = None /\ f.state = initial /\ Same(f, b)
  <2>1. /\ DOMAIN Forget(initial) = {"state", "action", "status", "sdk"}
        /\ Forget(initial)["status"] = None /\ Forget(initial)["state"] = initial
    BY DEF Forget
  <2>2. /\ f["status"] = None /\ f["state"] = initial
        /\ f["present"] = b["present"] /\ f["session"] = b["session"]
    BY <1>3, <2>1, OverlayField DEF Fields
  <2> QED
    BY <2>2
<1> HIDE DEF f
<1>7. g.status = f.status /\ g.state = f.state /\ Same(g, f)
  BY <1>5, OverlayField DEF Fields
<1> HIDE DEF g
<1> QED
  BY <1>1, <1>3, <1>4, <1>6, <1>7

\* The refresh and the intake put no action under way.
LEMMA RefreshAnswered ==
  ASSUME TypeInv, RunningInv, RefreshLooks \/ RefreshApplies \/ RefreshOne \/ Readd
  PROVE  RunningInv'
<1>1. card \in Cards /\ ~UnderWay(None, None) /\ None \notin Pending
  BY DEF TypeInv, TypeOK, UnderWay, Pending, None
<1>2. CASE RefreshLooks
  BY <1>2, CardAnswered DEF RefreshLooks
<1>3. CASE RefreshApplies
  <2>1. card' = card \/ \E recover : card' \in Refreshes(recover)
    BY <1>3 DEF RefreshApplies
  <2>2. card'.present /\ UnderWay(card'.action, card'.status) =>
          card.present /\ UnderWay(card.action, card.status)
    BY <1>1, <2>1, RefreshedResult DEF UnderWay
  <2> QED
    BY <1>3, <2>2, CardAnswered DEF RefreshApplies
<1>4. CASE RefreshOne
  <2>1. card'.present /\ UnderWay(card'.action, card'.status) =>
          card.present /\ UnderWay(card.action, card.status)
    BY <1>1, <1>4, RefreshedResult DEF RefreshOne, UnderWay
  <2> QED
    BY <1>4, <2>1, CardAnswered DEF RefreshOne
<1>5. CASE Readd
  <2>1. ~UnderWay(card'.action, card'.status)
    BY <1>1, <1>5 DEF Readd, Fresh, UnderWay
  <2> QED
    BY <1>5, <2>1, CardAnswered DEF Readd
<1> QED
  BY <1>2, <1>3, <1>4, <1>5

\* After the sweep no action is under way, and nothing waits to be written.
LEMMA RestartAnswered ==
  ASSUME "continue" \notin Endpoints, TypeInv, RunningInv,
         NEW resume \in Request \cup {None}, Restart(resume)
  PROVE  RunningInv'
<1>1. /\ todo' = [x \in Everyone |-> <<>>]
      /\ pc' = [r \in Request |-> "idle"] /\ job' = [r \in Request |-> NoJob]
  BY DEF Restart, TypeInv, TypeOK, Everyone
<1>2. Settled' /\ ApprovedOK'
  BY <1>1 DEF Settled, ApprovedOK, NoJob
<1>3. OthersAreCalm'
  BY <1>1, SettlingNone DEF OthersAreCalm
<1>4. card \in Cards
  BY DEF TypeInv, TypeOK
<1>5. ~(card'.present /\ UnderWay(card'.action, card'.status))
  <2>1. CASE card.present
    <3>1. PICK initial \in InitialStates : card' = Swept(initial)
      BY <2>1 DEF Restart
    <3> DEFINE c == Overlay([session |-> None], card)
               d == Overlay([state |-> initial, status |-> "interrupted"], c)
    <3>2. c \in Cards
      BY <1>4, RefreshFits, OverlayFits
    <3>3. card' = IF c.status \in Pending THEN d ELSE c
      BY <3>1 DEF Swept
    <3> HIDE DEF c
    <3>4. d.status = "interrupted"
      BY <3>2, OverlayField DEF Fields
    <3> HIDE DEF d
    <3> QED
      BY <3>3, <3>4 DEF UnderWay, Pending
  <2>2. CASE ~card.present
    BY <2>2 DEF Restart
  <2> QED
    BY <2>1, <2>2
<1> QED
  BY <1>2, <1>3, <1>5 DEF RunningInv, UnderWayIsAnswered

\* The endpoints, but for continue_action, announce nothing that is under way, and
\* a thread that takes a call has nothing left to write.
LEMMA EndpointAnswered ==
  ASSUME "continue" \notin Endpoints, TypeInv, RunningInv, NEW r \in Request, Endpoint(r)
  PROVE  RunningInv'
<1> USE DEF GoOn
<1>0. ~Continue(r)
  BY DEF Continue, Call
<1>a. pc[r] = "idle" /\ todo[r] = <<>> /\ pc[r] \notin PastGuard
  <2>1. Free(r)
    BY DEF Endpoint, ActInstant, Act, Approve, PostDrafts, Nudge, Continue, Discard, Retriage,
           Delete, Call
  <2> QED
    BY <2>1 DEF Free, PastGuard
<1>b. ASSUME UNCHANGED sessionVars PROVE GoOn
  BY <1>b DEF sessionVars
<1>c. ASSUME NEW w \in Seq(Calm), Return(r, w), card' = card, phase' = phase
      PROVE  RunningInv'
  BY <1>a, <1>c, ReturnAnswered
<1>1. ASSUME NEW a \in Action, ActInstant(r, a) PROVE RunningInv'
  <2>1. a \in Actions
    BY <1>1, ActionsAssumption DEF ActionsAssumption
  <2>2. /\ State(Terminal(a)) \in Seq(Calm)
        /\ Result(a, "parked", FALSE) \in Seq(Calm)
        /\ Result(a, "skipped", FALSE) \in Seq(Calm)
    BY <2>1, SpecStates, SpecResults, CalmWrites, CalmResult DEF UnderWay, Pending
  <2>3. PICK w \in Seq(Calm) : Return(r, w)
    BY <1>1, <2>2, CalmWrites, CalmConcat DEF ActInstant
  <2> QED
    BY <1>1, <1>c, <2>3 DEF ActInstant, AbortAll
<1>2. ASSUME NEW a \in Action, Act(r, a) PROVE RunningInv'
  <2>1. PICK j : Proceed(r, "guard", j, <<>>) /\ ~j.approved
    BY <1>2 DEF Act
  <2> QED
    BY <1>2, <1>a, <1>b, <2>1, ProceedAnswered DEF Act
<1>3. ASSUME Approve(r) PROVE RunningInv'
  <2>0. "approve" \in Endpoints
    BY <1>3 DEF Approve, Call
  <2>1. CASE Reachable
    <3>1. Executing("plan-fix") \in Seq(Calm)
      BY <2>0, CalmExecuting DEF TwoPhase
    <3> QED
      BY <1>3, <1>c, <2>1, <3>1 DEF Approve
  <2>2. CASE ~Reachable
    <3>1. PICK j : Proceed(r, "guard", j, <<>>)
      BY <1>3, <2>2 DEF Approve
    <3> QED
      BY <1>3, <1>a, <1>b, <2>0, <2>2, <3>1, ProceedAnswered DEF Approve
  <2> QED
    BY <2>1, <2>2
<1>4. ASSUME PostDrafts(r) PROVE RunningInv'
  <2>0. "post" \in Endpoints
    BY <1>4 DEF PostDrafts, Call
  <2>1. CASE Reachable
    <3>1. Executing("address-comments") \in Seq(Calm)
      BY <2>0, CalmExecuting DEF TwoPhase
    <3> QED
      BY <1>4, <1>c, <2>1, <3>1 DEF PostDrafts
  <2>2. CASE ~Reachable
    <3>1. PICK j : Proceed(r, "posting", j, <<>>) /\ ~j.approved
      BY <1>4, <2>2 DEF PostDrafts
    <3> QED
      BY <1>4, <1>a, <1>b, <2>2, <3>1, ProceedAnswered DEF PostDrafts
  <2> QED
    BY <2>1, <2>2
<1>5. ASSUME Nudge(r) PROVE RunningInv'
  <2>1. card' = card /\ todo' = todo /\ pc' = pc /\ job' = job /\ phase' = phase
    BY <1>5 DEF Nudge
  <2> QED
    BY <2>1 DEF RunningInv, Settled, ApprovedOK, OthersAreCalm, UnderWayIsAnswered,
                UnderWay, Answered, Custodian
<1>6. ASSUME Discard(r) PROVE RunningInv'
  <2>1. PICK a \in TwoPhase : Return(r, Offer(a, "discarded"))
    BY <1>6 DEF Discard, TwoPhase
  <2>2. Offer(a, "discarded") \in Seq(Calm)
    BY CalmWrites, SpecResults
  <2> QED
    BY <1>6, <1>c, <2>1, <2>2 DEF Discard, sessionVars
<1>7. ASSUME Retriage(r) PROVE RunningInv'
  <2>1. PICK s \in InitialStates : Return(r, <<Forget(s)>>)
    BY <1>7 DEF Retriage
  <2>2. <<Forget(s)>> \in Seq(Calm)
    <3>1. Forget(s) \in Writes
      BY WriteForget
    <3>2. ~Announces(Forget(s))
      BY DEF Announces, Forget, UnderWay, Pending, None
    <3> QED
      BY <3>1, <3>2, CalmSingle
  <2> QED
    BY <1>7, <1>c, <2>1, <2>2 DEF Retriage, sessionVars
<1>8. ASSUME Delete(r) PROVE RunningInv'
  <2>1. <<[present |-> FALSE]>> \in Seq(Calm)
    <3>1. [present |-> FALSE] \in Writes /\ ~Announces([present |-> FALSE])
      BY DEF Writes, Announces
    <3> QED
      BY <3>1, CalmSingle
  <2> QED
    BY <1>8, <1>c, <2>1 DEF Delete, AbortAll
<1> QED
  BY <1>0, <1>1, <1>2, <1>3, <1>4, <1>5, <1>6, <1>7, <1>8 DEF Endpoint

\* A dispatch that fails after the guard says so on the card; one that does not
\* hands the action over to its session.
LEMMA ThreadAnswered ==
  ASSUME TypeInv, NoResumption, RunningInv, NEW r \in Request, Thread(r)
  PROVE  RunningInv'
<1>1. Afterwards(job[r]) \in Seq(Calm) /\ Afterwards(job[r]) \in Seq(Writes)
  <2>1. job[r] \in Jobs /\ (job[r].approved => "approve" \in Endpoints)
    BY DEF TypeInv, TypeOK, RequestsOK, RunningInv, ApprovedOK
  <2> QED
    BY <2>1, CalmAfterwards, WriteAfterwards
<1>2. pc[r] # "idle" => job[r].action \in Actions
  BY DEF TypeInv, TypeOK, RequestsOK, JobsNamed, Jobs
<1>3. pc[r] \in {"guard", "spawn", "posting"} => todo[r] = <<>>
  BY DEF RunningInv, Settled
<1>4. ASSUME UNCHANGED sessionVars PROVE GoOn
  BY <1>4 DEF sessionVars, GoOn
<1>5. ASSUME Guard(r) PROVE RunningInv'
  <2>1. CASE AnyLive
    BY <1>1, <1>3, <1>4, <1>5, <2>1, ReturnAnswered DEF Guard, PastGuard
  <2>2. CASE ~AnyLive
    <3>1. PICK w : Proceed(r, "prepare", job[r], w)
      BY <1>5, <2>2 DEF Guard
    <3>2. job[r].approved => "approve" \in Endpoints
      BY DEF RunningInv, ApprovedOK
    <3> QED
      BY <1>3, <1>4, <1>5, <3>1, <3>2, ProceedAnswered DEF Guard, PastGuard
  <2> QED
    BY <2>1, <2>2
<1>6. ASSUME Prepare(r) PROVE RunningInv'
  <2>1. CASE Ready(r)
    <3>1. job[r].approved => "approve" \in Endpoints
      BY DEF RunningInv, ApprovedOK
    <3> QED
      BY <1>4, <1>6, <2>1, <3>1, ProceedAnswered DEF Prepare, Ready, PastGuard
  <2>2. ASSUME NEW st \in {"needs_human", "error"}
        PROVE  LET w == State(Failure(job[r].action)) \o Result(job[r].action, st, FALSE)
                          \o Afterwards(job[r])
               IN w \in Seq(Calm) /\ Settling(w)
    <3> DEFINE u == State(Failure(job[r].action))
               v == Result(job[r].action, st, FALSE)
    <3>1. job[r].action \in Actions
      BY <1>2, <1>6 DEF Prepare
    <3>2. u \in Seq(Calm) /\ u \in Seq(Writes)
      BY <3>1, SpecStates, CalmWrites, WriteState
    <3>3. st \notin Pending /\ st \in ResultStatuses
      BY OutcomesSettle DEF Outcomes
    <3>4. v \in Seq(Calm) /\ v \in Seq(Writes) /\ Settling(v)
      BY <3>1, <3>3, CalmResult, WriteResult, ResultSettles DEF UnderWay
    <3> HIDE DEF u, v
    <3>5. u \o v \in Seq(Calm) /\ u \o v \in Seq(Writes) /\ Settling(u \o v)
      BY <3>2, <3>4, CalmConcat, WriteConcat, SettlingConcat
    <3>6. u \o v \o Afterwards(job[r]) \in Seq(Calm) /\ Settling(u \o v \o Afterwards(job[r]))
      BY <1>1, <3>5, CalmConcat, SettlingConcat
    <3> QED
      BY <3>6 DEF u, v
  <2>3. CASE CannotPush(r) \/ Raises(r)
    <3>1. PICK w \in Seq(Calm) : Return(r, w) /\ Settling(w)
      BY <2>2, <2>3 DEF CannotPush, Raises, NoResumption
    <3> QED
      BY <1>4, <1>6, <3>1, ReturnAnswered DEF Prepare
  <2> QED
    BY <1>6, <2>1, <2>3 DEF Prepare
<1>7. ASSUME NEW s \in Session, Spawn(r, s) PROVE RunningInv'
  <2>1. <<[session |-> s]>> \in Seq(Calm)
    <3>1. [session |-> s] \in Writes /\ ~Announces([session |-> s])
      BY DEF Writes, Announces
    <3> QED
      BY <3>1, CalmSingle
  <2>2. <<[session |-> s]>> \o Afterwards(job[r]) \in Seq(Calm)
    BY <1>1, <2>1, CalmConcat
  <2>3. phase[s] = None /\ phase' = [phase EXCEPT ![s] = "scheduled"] /\ card' = card
        /\ todo[r] = <<>>
    BY <1>3, <1>7 DEF Spawn
  <2>4. GoOn /\ phase'[s] \in Early
    BY <2>3 DEF GoOn, Early, TypeInv, TypeOK, SessionsOK, None
  <2> QED
    BY <1>7, <2>2, <2>3, <2>4, ReturnAnswered DEF Spawn
<1>8. ASSUME PostReplies(r) PROVE RunningInv'
  <2> DEFINE a == "address-comments"
  <2>1. /\ Offer(a, "done") \in Seq(Calm) /\ Offer(a, "error") \in Seq(Calm)
        /\ State("done") \in Seq(Calm)
    BY CalmWrites, SpecResults
  <2>2. \A st \in Outcomes : Result(a, st, FALSE) \in Seq(Calm)
    BY OutcomesSettle, SpecResults, CalmResult DEF UnderWay
  <2>3. Success \in Outcomes /\ {"error", "needs_human"} \subseteq Outcomes
    BY DEF Outcomes
  <2>4. PICK w \in Seq(Calm) : Return(r, w)
    BY <1>8, <2>1, <2>2, <2>3, CalmConcat DEF PostReplies
  <2> QED
    BY <1>3, <1>4, <1>8, <2>4, ReturnAnswered DEF PostReplies, PastGuard
<1> QED
  BY <1>5, <1>6, <1>7, <1>8 DEF Thread

\* A session is the action's custodian until the hook of its first turn records an
\* outcome, or an exception ends it.
LEMMA CoroutineAnswered ==
  ASSUME TypeInv, RunningInv, NEW s \in Session, Coroutine(s)
  PROVE  RunningInv'
<1> USE DEF Early, Alive, Over
<1>1. <<>> \in Seq(Calm)
  BY SettlingNone
<1>2. CASE Begin(s) \/ FirstTurn(s) \/ Park(s) \/ NextTurn(s) \/ IdleTimeout(s)
  BY <1>1, <1>2, MovesAnswered DEF Begin, FirstTurn, Park, NextTurn, IdleTimeout
<1>3. CASE Start(s) \/ Stamp(s)
  BY <1>3, MovesAnswered DEF Start, Stamp
<1>4. CASE Take(s)
  BY <1>1, <1>4, MovesAnswered DEF Take
<1>5. CASE Fail(s)
  <2>1. PICK from \in {"starting", "first", "stamped", "turn"} : Moves(s, from, "failed", <<>>)
    BY <1>5 DEF Fail
  <2> QED
    BY <1>1, <2>1, MovesAnswered
<1>6. ASSUME NEW outcome \in Outcomes, EndFirstTurn(s, outcome) PROVE RunningInv'
  <2>1. phase[s] = "stamped"
    BY <1>6 DEF EndFirstTurn, Moves
  <2>2. doing[s] \in Jobs /\ doing[s].action # None
    BY <2>1 DEF TypeInv, TypeOK, SessionsOK, JobsNamed, None
  <2> QED
    BY <1>6, <2>2, FirstHookSettles, MovesAnswered DEF EndFirstTurn
<1>7. ASSUME NEW outcome \in Outcomes, EndNextTurn(s, outcome) PROVE RunningInv'
  <2>1. doing[s] \in Jobs
    BY DEF TypeInv, TypeOK, SessionsOK
  <2> QED
    BY <1>7, <2>1, NextHookCalm, MovesAnswered DEF EndNextTurn
<1> QED
  BY <1>2, <1>3, <1>4, <1>5, <1>6, <1>7 DEF Coroutine

\* At the start nothing is under way.
LEMMA InitAnswered == Init => RunningInv
<1> SUFFICES ASSUME Init PROVE RunningInv
  OBVIOUS
<1>1. Settled /\ ApprovedOK /\ OthersAreCalm
  BY SettlingNone DEF Init, Settled, ApprovedOK, OthersAreCalm, Everyone, NoJob
<1>2. ~UnderWay(card.action, card.status)
  BY DEF Init, Fresh, UnderWay, Pending, None
<1> QED
  BY <1>1, <1>2 DEF RunningInv, UnderWayIsAnswered

\* The invariant, whatever happens.
LEMMA RunningInvariant ==
  ASSUME "continue" \notin Endpoints
  PROVE  Spec => []RunningInv
<1>1. TypeInv /\ NoResumption /\ RunningInv /\ [Next]_vars => RunningInv'
  <2> SUFFICES ASSUME TypeInv, NoResumption, RunningInv, [Next]_vars PROVE RunningInv'
    OBVIOUS
  <2>1. CASE UNCHANGED vars
    BY <2>1, CardAnswered DEF vars, UnderWay
  <2>2. ASSUME NEW x \in Request \cup Session, Write(x) PROVE RunningInv'
    BY <2>2, WriteAnswered DEF Everyone
  <2> QED
    BY <2>1, <2>2, EndpointAnswered, ThreadAnswered, CoroutineAnswered, RefreshAnswered,
       RestartAnswered DEF Next
<1>2. TypeInv /\ [Next]_vars => TypeInv'
  BY StutterTypes, WriteTypes, EndpointTypes, ThreadTypes, CoroutineTypes,
     RefreshTypes, RestartTypes DEF Next
<1> QED
  BY InitTypes, InitAnswered, NeverResumed, <1>1, <1>2, PTL DEF Spec

\* Once the threads and the hooks have made their writes, only a session answers.
LEMMA AnsweredAtRest ==
  ASSUME RunningInv, AtRest, card.present, UnderWay(card.action, card.status)
  PROVE  \E s \in Session : phase[s] \in Alive \cup {"failed"}
<1>1. \A x \in Everyone : todo[x] = <<>>
  BY DEF AtRest, Free, Everyone
<1>2. \A r \in Request : pc[r] \notin PastGuard
  BY DEF AtRest, Free, PastGuard
<1>3. Answered
  BY DEF RunningInv, UnderWayIsAnswered
<1>4. CASE \E x \in Everyone : Custodian(x)
  BY <1>2, <1>4 DEF Custodian, Early, Alive
<1>5. CASE \E x \in Everyone : Settling(todo[x])
  BY <1>1, <1>5, SettlingNone
<1>6. CASE \E s \in Session : phase[s] = "failed"
  BY <1>6
<1> QED
  BY <1>3, <1>4, <1>5, <1>6 DEF Answered

\* A card that shows its action as queued or running has a session that is alive,
\* or one that an exception has ended: with any number of threads that dispatch,
\* triage again, discard and delete, with failures at every step of a dispatch and
\* with restarts at any point.  What is left out is continue_action, which leaves
\* "queued" behind when its worktree cannot be made, and the handing over of a plan
\* or of drafts to a session that stops reading: see the next theorem.
THEOREM RunningIsAnswered ==
  ASSUME Endpoints \cap {"continue", "approve", "post"} = {}
  PROVE  Spec => []RunningHasSession
<1>1. "continue" \notin Endpoints /\ \A a : ~HandedOver(a)
  BY DEF HandedOver
<1>2. RunningInv => RunningHasSession
  BY <1>1, AnsweredAtRest DEF RunningHasSession, UnderWay
<1> QED
  BY <1>1, <1>2, RunningInvariant, PTL

\* An action of one turn that the card shows as under way has a session.
OthersHaveSession == card.action \in TwoPhase \/ RunningHasSession

\* With plans and drafts handed over as well, it is only the card of a plan fix or
\* of replies that may say running of a session that is over; every other action
\* is answered for, also beside those two on the same card.
THEOREM OthersAreAnswered ==
  ASSUME "continue" \notin Endpoints
  PROVE  Spec => []OthersHaveSession
<1>1. RunningInv => OthersHaveSession
  BY AnsweredAtRest DEF OthersHaveSession, RunningHasSession, UnderWay, HandedOver
<1> QED
  BY <1>1, RunningInvariant, PTL
-----------------------------------------------------------------------------
(* A parked card has the baseline that the refresh compares with.          *)

Stays(w) == ~("state" \in DOMAIN w /\ w["state"] = "awaiting update")

\* The writes that do not park the card.
Plain == {w \in Writes : Stays(w)}

Stamped(l) == \E k \in DOMAIN l : l[k] = [parked |-> TRUE]

\* Whatever parks the card in the list is followed by the baseline.
Followed(l) ==
  \A i \in DOMAIN l : Stays(l[i]) \/ \E k \in DOMAIN l : k > i /\ l[k] = [parked |-> TRUE]

\* The actions that have a session.
Acting == Actions \ Instant

JobsAct ==
  /\ \A r \in Request : pc[r] # "idle" => job[r].action \in Acting
  /\ \A s \in Session : phase[s] # None => doing[s].action \in Acting

ParkingIsFollowed == \A x \in Everyone : Followed(todo[x])

ParkedOrStamped ==
  card.present /\ card.state = "awaiting update"
    => card.parked \/ \E x \in Everyone : Stamped(todo[x])

\* What may have left the card without a baseline.
Excused == restarts # 0 \/ \E s \in PastFirstTurn : ParksUnwatched(doing[s])

WatchedInv == Settled /\ JobsAct /\ ParkingIsFollowed /\ ParkedOrStamped

\* Lists that do not park the card.
LEMMA PlainLists ==
  /\ <<>> \in Seq(Plain)
  /\ \A w \in Writes : Stays(w) => <<w>> \in Seq(Plain)
  /\ \A s, t \in Seq(Plain) : s \o t \in Seq(Plain)
<1>1. \A w \in Writes : Stays(w) => <<w>> \in Seq(Plain)
  <2> SUFFICES ASSUME NEW w \in Writes, Stays(w) PROVE <<w>> \in Seq(Plain)
    OBVIOUS
  <2>1. w \in Plain
    BY DEF Plain
  <2> QED
    BY <2>1
<1>2. \A s, t \in Seq(Plain) : s \o t \in Seq(Plain)
  OBVIOUS
<1> QED
  BY <1>1, <1>2

\* They need no baseline.
LEMMA PlainFollowed ==
  ASSUME NEW l \in Seq(Plain)
  PROVE  l \in Seq(Writes) /\ Followed(l)
<1>1. \A i \in DOMAIN l : l[i] \in Plain
  OBVIOUS
<1>2. Plain \subseteq Writes
  BY DEF Plain
<1>3. l \in Seq(Writes)
  BY <1>2
<1> QED
  BY <1>1, <1>3 DEF Followed, Plain

\* What is followed by its baseline stays so in front of more.
LEMMA FollowedConcat ==
  ASSUME NEW s \in Seq(Writes), NEW t \in Seq(Plain), Followed(s)
  PROVE  Followed(s \o t)
<1>1. t \in Seq(Writes) /\ \A i \in DOMAIN t : Stays(t[i])
  BY PlainFollowed DEF Plain
<1>2. /\ \A i \in DOMAIN s : i \in DOMAIN (s \o t) /\ (s \o t)[i] = s[i]
      /\ \A i \in DOMAIN (s \o t) :
           i \in DOMAIN s \/ (i - Len(s) \in DOMAIN t /\ (s \o t)[i] = t[i - Len(s)])
  BY <1>1
<1> SUFFICES ASSUME NEW i \in DOMAIN (s \o t), ~Stays((s \o t)[i])
             PROVE  \E k \in DOMAIN (s \o t) : k > i /\ (s \o t)[k] = [parked |-> TRUE]
  BY DEF Followed
<1>3. i \in DOMAIN s /\ ~Stays(s[i])
  BY <1>1, <1>2
<1>4. PICK k \in DOMAIN s : k > i /\ s[k] = [parked |-> TRUE]
  BY <1>3 DEF Followed
<1> QED
  BY <1>2, <1>4

\* What remains of such a list when its first write is made.
LEMMA FollowedTail ==
  ASSUME NEW l \in Seq(Writes), l # <<>>, Followed(l)
  PROVE  Followed(Tail(l)) /\ (Stays(Head(l)) \/ Stamped(Tail(l)))
<1>1. /\ \A i \in DOMAIN Tail(l) : i + 1 \in DOMAIN l /\ Tail(l)[i] = l[i + 1]
      /\ \A i \in DOMAIN l : i > 1 => i - 1 \in DOMAIN Tail(l) /\ Tail(l)[i - 1] = l[i]
      /\ 1 \in DOMAIN l /\ Head(l) = l[1]
      /\ DOMAIN l \subseteq Int
  OBVIOUS
<1>2. Followed(Tail(l))
  <2> SUFFICES ASSUME NEW i \in DOMAIN Tail(l), ~Stays(Tail(l)[i])
               PROVE  \E k \in DOMAIN Tail(l) : k > i /\ Tail(l)[k] = [parked |-> TRUE]
    BY DEF Followed
  <2>1. PICK k \in DOMAIN l : k > i + 1 /\ l[k] = [parked |-> TRUE]
    BY <1>1 DEF Followed
  <2>2. i \in Int /\ i >= 1 /\ k \in Int
    OBVIOUS
  <2>3. k - 1 > i /\ k > 1
    BY <2>1, <2>2
  <2>4. k - 1 \in DOMAIN Tail(l) /\ Tail(l)[k - 1] = l[k]
    BY <1>1, <2>3
  <2> QED
    BY <2>1, <2>3, <2>4
<1>3. ASSUME ~Stays(Head(l)) PROVE Stamped(Tail(l))
  <2>1. PICK k \in DOMAIN l : k > 1 /\ l[k] = [parked |-> TRUE]
    BY <1>1, <1>3 DEF Followed
  <2> QED
    BY <1>1, <2>1 DEF Stamped
<1> QED
  BY <1>2, <1>3

\* In an empty list there is none.
LEMMA StampedNone == ~Stamped(<<>>)
<1>1. ASSUME NEW l \in Seq(Writes), Len(l) = 0 PROVE ~Stamped(l)
  BY <1>1 DEF Stamped
<1>2. <<>> \in Seq(Writes) /\ Len(<<>>) = 0
  OBVIOUS
<1> QED
  BY <1>1, <1>2

\* A baseline to be stamped is stamped by the first write, or later.
LEMMA StampedHead ==
  ASSUME NEW l \in Seq(Writes), l # <<>>, Stamped(l)
  PROVE  Head(l) = [parked |-> TRUE] \/ Stamped(Tail(l))
<1>1. PICK k \in DOMAIN l : l[k] = [parked |-> TRUE]
  BY DEF Stamped
<1>2. CASE k = 1
  BY <1>1, <1>2
<1>3. CASE k # 1
  <2>1. k - 1 \in DOMAIN Tail(l) /\ Tail(l)[k - 1] = l[k]
    BY <1>3
  <2> QED
    BY <1>1, <2>1 DEF Stamped
<1> QED
  BY <1>2, <1>3

\* The writes that do not park: every other state, results, plans, baselines.
LEMMA PlainWrites ==
  /\ \A s \in States \cup {None} : s # "awaiting update" => State(s) \in Seq(Plain)
  /\ \A a, p : p \in Offers => Offer(a, p) \in Seq(Plain)
  /\ \A a \in Actions, st \in ResultStatuses \cup {None}, sdk \in BOOLEAN :
       Result(a, st, sdk) \in Seq(Plain)
  /\ Baseline \in Seq(Plain)
  /\ \A s \in Session : <<[session |-> s]>> \in Seq(Plain)
<1>1. \A s \in States \cup {None} : s # "awaiting update" => State(s) \in Seq(Plain)
  <2> SUFFICES ASSUME NEW s \in States \cup {None}, s # "awaiting update"
               PROVE  State(s) \in Seq(Plain)
    OBVIOUS
  <2>1. CASE s = None
    BY <2>1, PlainLists DEF State
  <2>2. CASE s # None
    <3>1. [state |-> s] \in Writes /\ Stays([state |-> s])
      BY <2>2 DEF Writes, States, Stays
    <3> QED
      BY <2>2, <3>1, PlainLists DEF State
  <2> QED
    BY <2>1, <2>2
<1>2. \A a, p : p \in Offers => Offer(a, p) \in Seq(Plain)
  <2>1. \A p \in Offers : /\ [plan |-> p] \in Writes /\ Stays([plan |-> p])
                          /\ [drafts |-> p] \in Writes /\ Stays([drafts |-> p])
    BY DEF Writes, Stays
  <2> QED
    BY <2>1, PlainLists DEF Offer
<1>3. \A a \in Actions, st \in ResultStatuses \cup {None}, sdk \in BOOLEAN :
        Result(a, st, sdk) \in Seq(Plain)
  <2> SUFFICES ASSUME NEW a \in Actions, NEW st \in ResultStatuses \cup {None},
                      NEW sdk \in BOOLEAN
               PROVE  Result(a, st, sdk) \in Seq(Plain)
    OBVIOUS
  <2> DEFINE w == [action |-> a, status |-> st, sdk |-> sdk]
  <2>1. w \in Writes /\ Stays(w)
    BY DEF Writes, Stays
  <2> HIDE DEF w
  <2>2. <<w>> \in Seq(Plain)
    BY <2>1, PlainLists
  <2> QED
    BY <2>2 DEF Result, w
<1>4. Baseline \in Seq(Plain)
  <2>1. [parked |-> TRUE] \in Writes /\ Stays([parked |-> TRUE])
    BY DEF Writes, Stays
  <2> QED
    BY <2>1, PlainLists DEF Baseline
<1>5. \A s \in Session : <<[session |-> s]>> \in Seq(Plain)
  <2>1. \A s \in Session : [session |-> s] \in Writes /\ Stays([session |-> s])
    BY DEF Writes, Stays
  <2> QED
    BY <2>1, PlainLists
<1> QED
  BY <1>1, <1>2, <1>3, <1>4, <1>5

\* The states that actions with a session begin in, fail to, or end in if they are
\* not parking actions, do not park.
LEMMA PlainSpecs ==
  ASSUME FailureState # "awaiting update", NEW a \in Acting
  PROVE  /\ a \in Actions /\ a # None
         /\ State(InProgress(a)) \in Seq(Plain) /\ State(Failure(a)) \in Seq(Plain)
         /\ a \notin Parking => State(Terminal(a)) \in Seq(Plain)
<1>1. a \in Actions /\ a # None
  BY DEF Acting, Actions, None
<1>2. /\ InProgress(a) # "awaiting update" /\ Failure(a) # "awaiting update"
      /\ a \notin Parking => Terminal(a) # "awaiting update"
  BY DEF Acting, InProgress, Failure, Terminal, Instant, Parking, Reading, None
<1> QED
  BY <1>1, <1>2, SpecStates, PlainWrites

\* Where the writes of two lists are, one after the other.
LEMMA ConcatIndex ==
  ASSUME NEW s \in Seq(Writes), NEW t \in Seq(Writes)
  PROVE  /\ \A i \in DOMAIN s : (s \o t)[i] = s[i]
         /\ \A i \in DOMAIN t : /\ Len(s) + i \in DOMAIN (s \o t)
                                /\ (s \o t)[Len(s) + i] = t[i]
         /\ \A i \in DOMAIN (s \o t) :
              i \in Int /\ (i \in DOMAIN s \/ i - Len(s) \in DOMAIN t)
<1>1. \A i \in DOMAIN s : (s \o t)[i] = s[i]
  OBVIOUS
<1>2. \A i \in DOMAIN t : /\ Len(s) + i \in DOMAIN (s \o t)
                          /\ (s \o t)[Len(s) + i] = t[i]
  OBVIOUS
<1>3. \A i \in DOMAIN (s \o t) :
        i \in Int /\ (i \in DOMAIN s \/ i - Len(s) \in DOMAIN t)
  OBVIOUS
<1> QED
  BY <1>1, <1>2, <1>3

\* Two lists of one write, one after the other.
LEMMA PairOfWrites ==
  ASSUME NEW u \in Seq(Writes), NEW v \in Seq(Writes), Len(u) = 1, Len(v) = 1
  PROVE  /\ u \o v \in Seq(Writes)
         /\ (u \o v)[1] = u[1] /\ (u \o v)[2] = v[1]
         /\ 2 \in DOMAIN (u \o v) /\ \A i \in DOMAIN (u \o v) : i = 1 \/ i = 2
<1>1. /\ \A i \in DOMAIN u : (u \o v)[i] = u[i]
      /\ \A i \in DOMAIN v : /\ Len(u) + i \in DOMAIN (u \o v)
                             /\ (u \o v)[Len(u) + i] = v[i]
      /\ \A i \in DOMAIN (u \o v) :
           i \in Int /\ (i \in DOMAIN u \/ i - Len(u) \in DOMAIN v)
  BY ConcatIndex
<1>2. /\ 1 \in DOMAIN u /\ \A i \in DOMAIN u : i = 1
      /\ 1 \in DOMAIN v /\ \A i \in DOMAIN v : i = 1
      /\ Len(u) + 1 = 2
  OBVIOUS
<1>3. (u \o v)[1] = u[1] /\ (u \o v)[2] = v[1] /\ 2 \in DOMAIN (u \o v)
  BY <1>1, <1>2
<1>4. \A i \in DOMAIN (u \o v) : i = 1 \/ i = 2
  <2> SUFFICES ASSUME NEW i \in DOMAIN (u \o v), i # 1 PROVE i = 2
    OBVIOUS
  <2>1. i \in Int /\ i - Len(u) = 1
    BY <1>1, <1>2
  <2> QED
    BY <2>1
<1>5. u \o v \in Seq(Writes)
  BY WriteConcat
<1> QED
  BY <1>3, <1>4, <1>5

\* Parking, and then the baseline.
LEMMA ParkedWithBaseline ==
  ASSUME NEW t \in Seq(Plain)
  PROVE  /\ State("awaiting update") \o Baseline \o t \in Seq(Writes)
         /\ Followed(State("awaiting update") \o Baseline \o t)
<1> DEFINE p == [state |-> "awaiting update"]
           b == [parked |-> TRUE]
<1>1. State("awaiting update") = <<p>> /\ Baseline = <<b>>
  BY DEF State, Baseline, None
<1>2. p \in Writes /\ b \in Writes
  BY ActionsAssumption DEF ActionsAssumption, Writes
<1>3. Stays(b)
  BY DEF Stays
<1> HIDE DEF p
<1>4. <<p>> \o <<b>> \in Seq(Writes) /\ Followed(<<p>> \o <<b>>)
  <2> HIDE DEF b
  <2> DEFINE u == <<p>>
             v == <<b>>
  <2>1. /\ u \in Seq(Writes) /\ v \in Seq(Writes) /\ Len(u) = 1 /\ Len(v) = 1
        /\ u[1] = p /\ v[1] = b
    BY <1>2
  <2> HIDE DEF u, v
  <2>2. /\ u \o v \in Seq(Writes) /\ (u \o v)[1] = p /\ (u \o v)[2] = b
        /\ 2 \in DOMAIN (u \o v) /\ \A i \in DOMAIN (u \o v) : i = 1 \/ i = 2
    BY <2>1, PairOfWrites
  <2>3. Followed(u \o v)
    <3>1. 2 > 1
      OBVIOUS
    <3> QED
      BY <1>3, <2>2, <3>1 DEF Followed, b
  <2> QED
    BY <2>2, <2>3 DEF u, v
<1>5. t \in Seq(Writes)
  BY PlainFollowed
<1> QED
  BY <1>1, <1>4, <1>5, FollowedConcat, WriteConcat

\* Handing a plan over, and what is left to do when a dispatch returns, does not park.
LEMMA PlainAfterwards ==
  /\ \A a \in TwoPhase : Executing(a) \in Seq(Plain)
  /\ \A j : Afterwards(j) \in Seq(Plain)
<1>1. \A a \in TwoPhase : Executing(a) \in Seq(Plain)
  <2> SUFFICES ASSUME NEW a \in TwoPhase PROVE Executing(a) \in Seq(Plain)
    OBVIOUS
  <2>1. a \in Actions
    BY DEF TwoPhase, Actions
  <2>2. Result(a, "running", FALSE) \in Seq(Plain) /\ Offer(a, "executing") \in Seq(Plain)
    BY <2>1, PlainWrites, SpecResults
  <2> QED
    BY <2>2, PlainLists DEF Executing
<1> QED
  BY <1>1, PlainLists DEF Afterwards, TwoPhase

\* The hook of the first turn parks with a baseline, if its job is one of those
\* that do.
LEMMA FirstHookFollowed ==
  ASSUME FailureState # "awaiting update",
         NEW j \in Jobs, NEW outcome \in Outcomes, j.action \in Acting, ~ParksUnwatched(j)
  PROVE  Followed(FirstHook(j, outcome))
<1> DEFINE recorded == Result(j.action, outcome, TRUE)
           terminal == State(Terminal(j.action))
<1>1. /\ State(Failure(j.action)) \in Seq(Plain)
      /\ j.action # "nudge-author" => terminal \in Seq(Plain)
      /\ recorded \in Seq(Plain)
      /\ Offer(j.action, "proposed") \in Seq(Plain)
  <2>1. j.action # "nudge-author" => j.action \notin Parking
    BY DEF ParksUnwatched
  <2> QED
    BY <2>1, PlainSpecs, PlainWrites, SpecResults
<1>2. FirstHook(j, outcome) =
        CASE outcome = Success ->
               terminal \o (IF j.action = "nudge-author" THEN Baseline ELSE <<>>) \o recorded
          [] outcome = "proposal" /\ j.action \in TwoPhase ->
               Offer(j.action, "proposed") \o recorded
          [] outcome = "needs_human" /\ ~j.resumed -> State(Failure(j.action)) \o recorded
          [] OTHER -> recorded
  <2>1. j.action = "nudge-author" => ~j.resumed
    BY DEF ParksUnwatched, Parking
  <2> QED
    BY <2>1 DEF FirstHook
<1>3. Terminal("nudge-author") = "awaiting update"
  BY DEF Terminal, Parking, Reading
<1>4. CASE j.action = "nudge-author"
  <2> HIDE DEF recorded
  <2>1. Followed(State("awaiting update") \o Baseline \o recorded)
    BY <1>1, ParkedWithBaseline
  <2>2. Followed(State(Failure(j.action)) \o recorded) /\ Followed(recorded)
        /\ Followed(Offer(j.action, "proposed") \o recorded)
    BY <1>1, PlainLists, PlainFollowed
  <2> QED
    BY <1>2, <1>3, <1>4, <2>1, <2>2 DEF Success
<1>5. CASE j.action # "nudge-author"
  <2> HIDE DEF recorded, terminal
  <2>1. /\ terminal \o <<>> \o recorded \in Seq(Plain)
        /\ Offer(j.action, "proposed") \o recorded \in Seq(Plain)
        /\ State(Failure(j.action)) \o recorded \in Seq(Plain)
    BY <1>1, <1>5, PlainLists
  <2> QED
    BY <1>1, <1>2, <1>5, <2>1, PlainFollowed DEF Success
<1> QED
  BY <1>4, <1>5

\* The hook of a later turn does not park.
LEMMA NextHookPlain ==
  ASSUME NEW j \in Jobs, NEW outcome \in Outcomes
  PROVE  NextHook(j, outcome) \in Seq(Plain)
<1> DEFINE recorded == Result(j.action, outcome, TRUE)
           settled  == State("done") \o Offer(j.action, "done")
<1>1. CASE j.action \notin TwoPhase
  <2>1. NextHook(j, outcome) = <<>>
    BY <1>1 DEF NextHook
  <2> QED
    BY <2>1
<1>2. CASE j.action \in TwoPhase
  <2>1. j.action \in Actions
    BY <1>2 DEF TwoPhase, Actions
  <2>2. recorded \in Seq(Plain)
    BY <2>1, OutcomesSettle, PlainWrites
  <2>3. settled \in Seq(Plain) /\ <<>> \in Seq(Plain)
    BY PlainWrites, PlainLists, SpecResults
  <2>4. NextHook(j, outcome) =
          IF j.action \notin TwoPhase \/ j.resumed \/ outcome = "proposal" THEN <<>>
          ELSE (IF outcome = Success THEN settled ELSE <<>>) \o recorded
    BY DEF NextHook
  <2> HIDE DEF recorded, settled
  <2>5. (IF outcome = Success THEN settled ELSE <<>>) \o recorded \in Seq(Plain)
    BY <2>2, <2>3, PlainLists
  <2> QED
    BY <2>3, <2>4, <2>5
<1> QED
  BY <1>1, <1>2

\* A thread or a session that has made its writes gets a list of them that is
\* followed by its baseline.
LEMMA HandFollowed ==
  ASSUME TypeInv, WatchedInv, NEW x \in Everyone, NEW w, Followed(w),
         todo[x] = <<>>, todo' = [todo EXCEPT ![x] = w], card' = card, restarts' = restarts,
         Settled', JobsAct'
  PROVE  WatchedInv'
<1>1. todo'[x] = w /\ \A y \in Everyone \ {x} : todo'[y] = todo[y]
  BY DEF TypeInv, TypeOK, Everyone
<1>2. ParkingIsFollowed'
  BY <1>1 DEF WatchedInv, ParkingIsFollowed
<1>3. \A y \in Everyone : Stamped(todo[y]) => Stamped(todo'[y])
  BY <1>1 DEF Stamped
<1>4. ParkedOrStamped'
  BY <1>3 DEF WatchedInv, ParkedOrStamped
<1> QED
  BY <1>2, <1>4 DEF WatchedInv

\* A thread returns.
LEMMA ReturnFollowed ==
  ASSUME TypeInv, WatchedInv, NEW r \in Request, NEW w, Followed(w), Return(r, w),
         todo[r] = <<>>, card' = card, restarts' = restarts,
         \A s \in Session : phase'[s] # None => doing'[s].action \in Acting
  PROVE  WatchedInv'
<1>1. /\ r \in Everyone
      /\ todo' = [todo EXCEPT ![r] = w]
      /\ pc' = [pc EXCEPT ![r] = "idle"] /\ job' = [job EXCEPT ![r] = NoJob]
  BY DEF Return, Everyone
<1>2. /\ \A y \in Request \ {r} : pc'[y] = pc[y] /\ job'[y] = job[y] /\ todo'[y] = todo[y]
      /\ pc'[r] = "idle"
  BY <1>1 DEF TypeInv, TypeOK, RequestsOK
<1>3. Settled'
  BY <1>2 DEF WatchedInv, Settled
<1>4. JobsAct'
  BY <1>2 DEF WatchedInv, JobsAct
<1> QED
  BY <1>1, <1>3, <1>4, HandFollowed

\* A thread goes on.
LEMMA ProceedFollowed ==
  ASSUME TypeInv, WatchedInv, NEW r \in Request, NEW where, NEW j, NEW w \in Seq(Plain),
         Proceed(r, where, j, w), todo[r] = <<>>, card' = card, restarts' = restarts,
         UNCHANGED sessionVars, j.action \in Acting, where = "prepare" \/ w = <<>>
  PROVE  WatchedInv'
<1>1. /\ r \in Everyone
      /\ todo' = [todo EXCEPT ![r] = w]
      /\ pc' = [pc EXCEPT ![r] = where] /\ job' = [job EXCEPT ![r] = j]
      /\ phase' = phase /\ doing' = doing
  BY DEF Proceed, Everyone, sessionVars
<1>2. /\ \A y \in Request \ {r} : pc'[y] = pc[y] /\ job'[y] = job[y] /\ todo'[y] = todo[y]
      /\ pc'[r] = where /\ job'[r] = j /\ todo'[r] = w
  BY <1>1 DEF TypeInv, TypeOK, RequestsOK
<1>3. Settled'
  BY <1>2 DEF WatchedInv, Settled
<1>4. JobsAct'
  BY <1>1, <1>2 DEF WatchedInv, JobsAct
<1> QED
  BY <1>1, <1>3, <1>4, HandFollowed, PlainFollowed

\* A session goes on.
LEMMA MovesFollowed ==
  ASSUME TypeInv, WatchedInv, NEW s \in Session, NEW from, NEW to, NEW w, Followed(w),
         Moves(s, from, to, w), from # None
  PROVE  WatchedInv'
<1>1. /\ s \in Everyone /\ s \notin Request
      /\ todo' = [todo EXCEPT ![s] = w] /\ todo[s] = <<>> /\ card' = card
      /\ phase' = [phase EXCEPT ![s] = to] /\ phase[s] = from /\ doing' = doing
      /\ pc' = pc /\ job' = job /\ restarts' = restarts
  BY ActionsAssumption DEF ActionsAssumption, Moves, Everyone, requestVars
<1>2. \A y \in Request : todo'[y] = todo[y]
  BY <1>1 DEF TypeInv, TypeOK
<1>3. Settled'
  BY <1>1, <1>2 DEF WatchedInv, Settled
<1>4. JobsAct'
  BY <1>1 DEF WatchedInv, JobsAct, TypeInv, TypeOK, SessionsOK
<1> QED
  BY <1>1, <1>3, <1>4, HandFollowed

\* The next write reaches the card.
LEMMA WriteFollowed ==
  ASSUME TypeInv, WatchedInv, NEW x \in Everyone, Write(x)
  PROVE  WatchedInv'
<1> DEFINE h == Head(todo[x])
<1>1. /\ todo[x] \in Seq(Writes) /\ todo[x] # <<>> /\ card \in Cards
      /\ pc' = pc /\ job' = job /\ phase' = phase /\ doing' = doing /\ restarts' = restarts
      /\ card' = IF card.present THEN Overlay(h, card) ELSE card
      /\ todo' = [todo EXCEPT ![x] = Tail(todo[x])]
  BY DEF Write, TypeInv, TypeOK, Everyone, requestVars, sessionVars
<1>2. h \in Writes /\ todo'[x] = Tail(todo[x]) /\ \A y \in Everyone \ {x} : todo'[y] = todo[y]
  BY <1>1 DEF TypeInv, TypeOK, Everyone
<1> HIDE DEF h
<1>3. Followed(Tail(todo[x])) /\ (Stays(h) \/ Stamped(Tail(todo[x])))
  BY <1>1, FollowedTail DEF WatchedInv, ParkingIsFollowed, h
<1>4. Settled'
  <2>1. \A r \in Request : pc[r] \in {"guard", "spawn", "posting"} => todo[r] = <<>>
    BY DEF WatchedInv, Settled
  <2>2. \A r \in Request : r \in Everyone
    BY DEF Everyone
  <2>3. \A r \in Request : pc[r] \in {"guard", "spawn", "posting"} => todo'[r] = <<>>
    BY <1>1, <1>2, <2>1, <2>2
  <2> QED
    BY <1>1, <2>3 DEF Settled
<1>5. JobsAct'
  BY <1>1 DEF WatchedInv, JobsAct
<1>6. ParkingIsFollowed'
  BY <1>2, <1>3 DEF WatchedInv, ParkingIsFollowed
<1>7. ParkedOrStamped'
  <2> SUFFICES ASSUME card'.present, card'.state = "awaiting update"
               PROVE  card'.parked \/ \E y \in Everyone : Stamped(todo'[y])
    BY DEF ParkedOrStamped
  <2>1. card.present /\ card' = Overlay(h, card)
    BY <1>1
  <2>2. /\ card'.state = IF "state" \in DOMAIN h THEN h["state"] ELSE card.state
        /\ card'.parked = IF "parked" \in DOMAIN h THEN h["parked"] ELSE card.parked
    <3>1. \A f \in Fields : Overlay(h, card)[f] = IF f \in DOMAIN h THEN h[f] ELSE card[f]
      BY <1>1, OverlayField
    <3>2. "state" \in Fields /\ "parked" \in Fields
      BY DEF Fields
    <3> QED
      BY <2>1, <3>1, <3>2
  <2>3. CASE "state" \in DOMAIN h
    BY <1>2, <1>3, <2>2, <2>3 DEF Stays
  <2>4. CASE "state" \notin DOMAIN h
    <3>1. card.parked \/ \E y \in Everyone : Stamped(todo[y])
      BY <1>1, <2>1, <2>2, <2>4 DEF WatchedInv, ParkedOrStamped
    <3>2. "parked" \in DOMAIN h => h = [parked |-> TRUE]
      BY <1>2, WriteShape
    <3>3. CASE h = [parked |-> TRUE]
      BY <2>2, <3>3
    <3>4. CASE h # [parked |-> TRUE]
      <4>1. card'.parked = card.parked
        BY <2>2, <3>2, <3>4
      <4>2. Stamped(todo[x]) => Stamped(Tail(todo[x]))
        BY <1>1, <3>4, StampedHead DEF h
      <4> QED
        BY <1>2, <3>1, <4>1, <4>2
    <3> QED
      BY <3>3, <3>4
  <2> QED
    BY <2>3, <2>4
<1> QED
  BY <1>4, <1>5, <1>6, <1>7 DEF WatchedInv

\* A step that leaves the threads and the sessions alone, and does not park.
LEMMA CardFollowed ==
  ASSUME WatchedInv, UNCHANGED <<todo, requestVars, sessionVars, restarts>>,
         card'.present /\ card'.state = "awaiting update" =>
           card.present /\ card.state = "awaiting update" /\ card'.parked = card.parked
  PROVE  WatchedInv'
<1>1. pc' = pc /\ job' = job /\ phase' = phase /\ doing' = doing /\ todo' = todo
      /\ restarts' = restarts
  BY DEF requestVars, sessionVars
<1>2. Settled' /\ JobsAct' /\ ParkingIsFollowed'
  BY <1>1 DEF WatchedInv, Settled, JobsAct, ParkingIsFollowed
<1>3. ParkedOrStamped'
  BY <1>1 DEF WatchedInv, ParkedOrStamped
<1> QED
  BY <1>2, <1>3 DEF WatchedInv

\* The refresh takes a baseline only when it unparks.
LEMMA RefreshFollowed ==
  ASSUME "awaiting update" \notin InitialStates,
         TypeInv, WatchedInv, RefreshLooks \/ RefreshApplies \/ RefreshOne \/ Readd
  PROVE  WatchedInv'
<1>1. card \in Cards
  BY DEF TypeInv, TypeOK
<1>2. CASE RefreshLooks
  BY <1>2, CardFollowed DEF RefreshLooks
<1>3. CASE RefreshApplies
  <2>1. card' = card \/ \E recover : card' \in Refreshes(recover)
    BY <1>3 DEF RefreshApplies
  <2>2. card'.present /\ card'.state = "awaiting update" =>
          card.present /\ card.state = "awaiting update" /\ card'.parked = card.parked
    BY <1>1, <2>1, RefreshedResult
  <2> QED
    BY <1>3, <2>2, CardFollowed DEF RefreshApplies
<1>4. CASE RefreshOne
  <2>1. card'.present /\ card'.state = "awaiting update" =>
          card.present /\ card.state = "awaiting update" /\ card'.parked = card.parked
    BY <1>1, <1>4, RefreshedResult DEF RefreshOne
  <2> QED
    BY <1>4, <2>1, CardFollowed DEF RefreshOne
<1>5. CASE Readd
  <2>1. card'.state # "awaiting update"
    <3>1. PICK s \in InitialStates : card' = Fresh(s)
      BY <1>5 DEF Readd
    <3>2. card'.state = s
      BY <3>1 DEF Fresh
    <3> QED
      BY <3>2
  <2> QED
    BY <1>5, <2>1, CardFollowed DEF Readd
<1> QED
  BY <1>2, <1>3, <1>4, <1>5

\* A restart may come between parking and the baseline.
LEMMA RestartExcuses ==
  ASSUME TypeInv, NEW resume \in Request \cup {None}, Restart(resume)
  PROVE  Excused'
<1>1. restarts' = restarts + 1 /\ restarts \in Nat
  BY DEF Restart, TypeInv, TypeOK
<1>2. restarts' # 0
  BY <1>1
<1> QED
  BY <1>2 DEF Excused

\* What excuses a card stays: a session that is past its first turn remains the one
\* it was, and does not return to it.
LEMMA ExcusedStays ==
  ASSUME TypeInv, Excused, [Next]_vars
  PROVE  Excused'
<1> DEFINE Beyond == {"top", "idle", "again", "turn"} \cup Over
<1>1. restarts' \in {restarts, restarts + 1} /\ restarts \in Nat
  BY DEF Next, Write, Endpoint, ActInstant, Act, Approve, PostDrafts, Nudge, Continue, Discard,
         Retriage, Delete, Call, Thread, Guard, Prepare, PostReplies, Spawn, Coroutine, Begin,
         Start, FirstTurn, Stamp, Park, Take, NextTurn, IdleTimeout, Fail, EndFirstTurn,
         EndNextTurn, Moves, RefreshLooks, RefreshApplies, RefreshOne, Readd, Restart, vars,
         TypeInv, TypeOK
<1>2. CASE restarts # 0
  BY <1>1, <1>2 DEF Excused
<1>3. CASE \E resume \in Request \cup {None} : Restart(resume)
  BY <1>3, RestartExcuses
<1>4. CASE restarts = 0 /\ ~\E resume \in Request \cup {None} : Restart(resume)
  <2>1. PICK s \in Session : phase[s] \in Beyond /\ ParksUnwatched(doing[s])
    BY <1>4 DEF Excused, PastFirstTurn
  <2>2. phase[s] # None /\ phase[s] \notin {"scheduled", "queued", "starting", "first", "stamped"}
    BY <2>1 DEF Over, None
  <2>3. phase'[s] \in Beyond /\ doing'[s] = doing[s]
    <3>1. CASE phase' = phase /\ doing' = doing
      BY <2>1, <3>1
    <3>2. ASSUME NEW r \in Request, NEW q \in Session, Spawn(r, q)
          PROVE  phase'[s] \in Beyond /\ doing'[s] = doing[s]
      BY <2>1, <2>2, <3>2 DEF Spawn, TypeInv, TypeOK, SessionsOK
    <3>3. ASSUME NEW q \in Session, Coroutine(q)
          PROVE  phase'[s] \in Beyond /\ doing'[s] = doing[s]
      <4>1. PICK from, to, w : Moves(q, from, to, w) /\ (from = phase[s] => to \in Beyond)
        BY <2>2, <3>3 DEF Coroutine, Begin, Start, FirstTurn, Stamp, Park, Take, NextTurn,
             IdleTimeout, Fail, EndFirstTurn, EndNextTurn, Over
      <4>2. phase' = [phase EXCEPT ![q] = to] /\ phase[q] = from /\ doing' = doing
        BY <4>1 DEF Moves
      <4> QED
        BY <2>1, <4>1, <4>2 DEF TypeInv, TypeOK, SessionsOK
    <3>4. ASSUME NEW r \in Request, Endpoint(r) \/ Guard(r) \/ Prepare(r) \/ PostReplies(r)
          PROVE  phase' = phase /\ doing' = doing
      BY <3>4 DEF Endpoint, ActInstant, Act, Approve, PostDrafts, Nudge, Continue, Discard,
           Retriage, Delete, Guard, Prepare, PostReplies, AbortAll, sessionVars
    <3>5. CASE \/ \E x \in Request \cup Session : Write(x)
               \/ RefreshLooks \/ RefreshApplies \/ RefreshOne \/ Readd \/ UNCHANGED vars
      BY <3>1, <3>5 DEF Write, RefreshLooks, RefreshApplies, RefreshOne, Readd, sessionVars, vars
    <3> QED
      BY <1>4, <3>1, <3>2, <3>3, <3>4, <3>5 DEF Next, Thread
  <2> QED
    BY <2>1, <2>3 DEF Excused, PastFirstTurn
<1> QED
  BY <1>2, <1>3, <1>4

\* The endpoints park with a baseline, or leave it to a session.
LEMMA EndpointFollowed ==
  ASSUME "awaiting update" \notin InitialStates,
         TypeInv, WatchedInv, NEW r \in Request, Endpoint(r)
  PROVE  WatchedInv'
<1>a. pc[r] = "idle" /\ todo[r] = <<>> /\ restarts' = restarts
  <2>1. Free(r) /\ restarts' = restarts
    BY DEF Endpoint, ActInstant, Act, Approve, PostDrafts, Nudge, Continue, Discard, Retriage,
           Delete, Call
  <2> QED
    BY <2>1 DEF Free
<1>c. ASSUME NEW w, Followed(w), Return(r, w), card' = card, phase' = phase, doing' = doing
      PROVE  WatchedInv'
  BY <1>a, <1>c, ReturnFollowed DEF WatchedInv, JobsAct
<1>d. ASSUME NEW j, Proceed(r, "guard", j, <<>>) \/ Proceed(r, "posting", j, <<>>),
             j.action \in Acting, card' = card, UNCHANGED sessionVars
      PROVE  WatchedInv'
  BY <1>a, <1>d, ProceedFollowed, PlainLists
<1>1. ASSUME NEW a \in Action, ActInstant(r, a) PROVE WatchedInv'
  <2>1. a \in Actions
    BY <1>1, ActionsAssumption DEF ActionsAssumption
  <2>2. Result(a, "parked", FALSE) \in Seq(Plain) /\ Result(a, "skipped", FALSE) \in Seq(Plain)
    BY <2>1, SpecResults, PlainWrites
  <2>3. CASE a = "await-update"
    <3>1. Terminal(a) = "awaiting update"
      BY <2>3 DEF Terminal, Reading, Parking
    <3>2. Return(r, State(Terminal(a)) \o Baseline \o Result(a, "parked", FALSE))
      BY <1>1, <2>3 DEF ActInstant
    <3>3. Followed(State("awaiting update") \o Baseline \o Result(a, "parked", FALSE))
      BY <2>2, ParkedWithBaseline
    <3> QED
      BY <1>1, <1>c, <3>1, <3>2, <3>3 DEF ActInstant, AbortAll
  <2>4. CASE a # "await-update"
    <3>1. Terminal(a) = "done"
      BY <1>1, <2>4 DEF ActInstant, Terminal, Instant, Reading, Parking
    <3>2. Return(r, State(Terminal(a)) \o Result(a, "skipped", FALSE))
      BY <1>1, <2>4 DEF ActInstant
    <3>3. State("done") \in Seq(Plain)
      BY PlainWrites, SpecResults
    <3>4. Followed(State(Terminal(a)) \o Result(a, "skipped", FALSE))
      BY <2>2, <3>1, <3>3, PlainLists, PlainFollowed
    <3> QED
      BY <1>1, <1>c, <3>2, <3>4 DEF ActInstant, AbortAll
  <2> QED
    BY <2>3, <2>4
<1>2. ASSUME NEW a \in Action, Act(r, a) PROVE WatchedInv'
  <2> DEFINE j == [action |-> a, resumed |-> FALSE, approved |-> FALSE]
  <2>1. j.action \in Acting
    BY <1>2, ActionsAssumption DEF ActionsAssumption, Act, Acting
  <2>2. Proceed(r, "guard", j, <<>>) /\ card' = card /\ UNCHANGED sessionVars
    BY <1>2 DEF Act
  <2> QED
    BY <1>d, <2>1, <2>2
<1>3. ASSUME Approve(r) PROVE WatchedInv'
  <2>1. CASE Reachable
    <3>1. Followed(Executing("plan-fix"))
      BY PlainAfterwards, PlainFollowed DEF TwoPhase
    <3> QED
      BY <1>3, <1>c, <2>1, <3>1 DEF Approve
  <2>2. CASE ~Reachable
    <3> DEFINE j == [action |-> "plan-fix", resumed |-> FALSE, approved |-> TRUE]
    <3>1. j.action \in Acting
      BY DEF Acting, Actions, Instant
    <3>2. Proceed(r, "guard", j, <<>>) /\ card' = card /\ UNCHANGED sessionVars
      BY <1>3, <2>2 DEF Approve
    <3> QED
      BY <1>d, <3>1, <3>2
  <2> QED
    BY <2>1, <2>2
<1>4. ASSUME PostDrafts(r) PROVE WatchedInv'
  <2>1. CASE Reachable
    <3>1. Followed(Executing("address-comments"))
      BY PlainAfterwards, PlainFollowed DEF TwoPhase
    <3> QED
      BY <1>4, <1>c, <2>1, <3>1 DEF PostDrafts
  <2>2. CASE ~Reachable
    <3> DEFINE j == [action |-> "address-comments", resumed |-> FALSE, approved |-> FALSE]
    <3>1. j.action \in Acting
      BY DEF Acting, Actions, Instant
    <3>2. Proceed(r, "posting", j, <<>>) /\ card' = card /\ UNCHANGED sessionVars
      BY <1>4, <2>2 DEF PostDrafts
    <3> QED
      BY <1>d, <3>1, <3>2
  <2> QED
    BY <2>1, <2>2
<1>5. ASSUME Nudge(r) PROVE WatchedInv'
  <2>1. card' = card /\ todo' = todo /\ pc' = pc /\ job' = job /\ phase' = phase
        /\ doing' = doing /\ restarts' = restarts
    BY <1>5, <1>a DEF Nudge
  <2> QED
    BY <2>1 DEF WatchedInv, Settled, JobsAct, ParkingIsFollowed, ParkedOrStamped
<1>6. ASSUME Discard(r) PROVE WatchedInv'
  <2>1. PICK a \in TwoPhase : Return(r, Offer(a, "discarded"))
    BY <1>6 DEF Discard, TwoPhase
  <2>2. Followed(Offer(a, "discarded"))
    BY PlainWrites, SpecResults, PlainFollowed
  <2> QED
    BY <1>6, <1>c, <2>1, <2>2 DEF Discard, sessionVars
<1>7. ASSUME Retriage(r) PROVE WatchedInv'
  <2>1. PICK s \in InitialStates : Return(r, <<Forget(s)>>)
    BY <1>7 DEF Retriage
  <2>2. Followed(<<Forget(s)>>)
    <3>1. Forget(s) \in Writes
      BY WriteForget
    <3>2. Stays(Forget(s))
      BY DEF Stays, Forget
    <3> QED
      BY <3>1, <3>2, PlainLists, PlainFollowed
  <2> QED
    BY <1>7, <1>c, <2>1, <2>2 DEF Retriage, sessionVars
<1>8. ASSUME Delete(r) PROVE WatchedInv'
  <2>1. Followed(<<[present |-> FALSE]>>)
    <3>1. [present |-> FALSE] \in Writes /\ Stays([present |-> FALSE])
      BY DEF Writes, Stays
    <3> QED
      BY <3>1, PlainLists, PlainFollowed
  <2> QED
    BY <1>8, <1>c, <2>1 DEF Delete, AbortAll
<1>9. ASSUME Continue(r) PROVE WatchedInv'
  <2> DEFINE a == card.action
  <2>1. a \in Acting
    BY <1>9 DEF Continue, Continuable, Acting, TypeInv, TypeOK, Cards
  <2>2. State(InProgress(a)) \in Seq(Plain)
    <3>1. InProgress(a) # "awaiting update"
      BY DEF InProgress, None
    <3> QED
      BY <2>1, <3>1, SpecStates, PlainWrites DEF Acting
  <2>3. Result(a, "queued", FALSE) \in Seq(Plain)
    BY <2>1, SpecResults, PlainWrites DEF Acting
  <2>4. ResumeWrites \in Seq(Plain) /\ Resumption.action \in Acting
    BY <2>1, <2>2, <2>3, PlainLists DEF ResumeWrites, Resumption
  <2>5. Proceed(r, "prepare", Resumption, ResumeWrites)
    BY <1>9 DEF Continue
  <2> QED
    BY <1>9, <1>a, <2>4, <2>5, ProceedFollowed DEF Continue
<1> QED
  BY <1>1, <1>2, <1>3, <1>4, <1>5, <1>6, <1>7, <1>8, <1>9 DEF Endpoint

\* The rest of a dispatch does not park.
LEMMA ThreadFollowed ==
  ASSUME FailureState # "awaiting update",
         TypeInv, WatchedInv, NEW r \in Request, Thread(r)
  PROVE  WatchedInv'
<1>1. Afterwards(job[r]) \in Seq(Plain)
  BY PlainAfterwards
<1>2. pc[r] # "idle" => job[r].action \in Acting
  BY DEF WatchedInv, JobsAct
<1>3. pc[r] \in {"guard", "spawn", "posting"} => todo[r] = <<>>
  BY DEF WatchedInv, Settled
<1>4. ASSUME NEW w \in Seq(Plain), Return(r, w), todo[r] = <<>>, UNCHANGED sessionVars,
             card' = card, restarts' = restarts
      PROVE  WatchedInv'
  <2>1. \A s \in Session : phase'[s] # None => doing'[s].action \in Acting
    BY <1>4 DEF sessionVars, WatchedInv, JobsAct
  <2> QED
    BY <1>4, <2>1, PlainFollowed, ReturnFollowed
<1>5. ASSUME Guard(r) PROVE WatchedInv'
  <2>1. CASE AnyLive
    BY <1>1, <1>3, <1>4, <1>5, <2>1 DEF Guard
  <2>2. CASE ~AnyLive
    <3>1. job[r].action \in Acting
      BY <1>2, <1>5 DEF Guard
    <3>2. State(InProgress(job[r].action)) \in Seq(Plain)
      <4>1. InProgress(job[r].action) # "awaiting update"
        BY DEF InProgress, None
      <4> QED
        BY <3>1, <4>1, SpecStates, PlainWrites DEF Acting
    <3>3. Result(job[r].action, "queued", FALSE) \in Seq(Plain)
      BY <3>1, SpecResults, PlainWrites DEF Acting
    <3>4. PICK w \in Seq(Plain) : Proceed(r, "prepare", job[r], w)
      BY <1>5, <2>2, <3>2, <3>3, PlainLists DEF Guard
    <3> QED
      BY <1>3, <1>5, <3>1, <3>4, ProceedFollowed DEF Guard
  <2> QED
    BY <2>1, <2>2
<1>6. ASSUME Prepare(r) PROVE WatchedInv'
  <2>0. job[r].action \in Acting
    BY <1>2, <1>6 DEF Prepare
  <2>1. CASE Ready(r)
    BY <1>6, <2>0, <2>1, ProceedFollowed, PlainLists DEF Prepare, Ready
  <2>2. \A st \in {"needs_human", "error"} :
          State(Failure(job[r].action)) \o Result(job[r].action, st, FALSE)
            \o Afterwards(job[r]) \in Seq(Plain)
    <3>1. State(Failure(job[r].action)) \in Seq(Plain)
      BY <2>0, PlainSpecs
    <3>2. \A st \in {"needs_human", "error"} : Result(job[r].action, st, FALSE) \in Seq(Plain)
      BY <2>0, SpecResults, PlainWrites DEF Acting, Outcomes
    <3> QED
      BY <1>1, <3>1, <3>2, PlainLists
  <2>3. CASE CannotPush(r) \/ Raises(r)
    <3>1. PICK w \in Seq(Plain) : Return(r, w)
      BY <2>2, <2>3, PlainLists DEF CannotPush, Raises
    <3> QED
      BY <1>4, <1>6, <3>1 DEF Prepare
  <2> QED
    BY <1>6, <2>1, <2>3 DEF Prepare
<1>7. ASSUME NEW s \in Session, Spawn(r, s) PROVE WatchedInv'
  <2>1. <<[session |-> s]>> \o Afterwards(job[r]) \in Seq(Plain)
    BY <1>1, PlainWrites, PlainLists
  <2>2. /\ phase' = [phase EXCEPT ![s] = "scheduled"] /\ doing' = [doing EXCEPT ![s] = job[r]]
        /\ job[r].action \in Acting /\ todo[r] = <<>>
    BY <1>2, <1>3, <1>7 DEF Spawn
  <2>3. \A q \in Session : phase'[q] # None => doing'[q].action \in Acting
    BY <2>2 DEF WatchedInv, JobsAct, TypeInv, TypeOK, SessionsOK
  <2> QED
    BY <1>7, <2>1, <2>2, <2>3, ReturnFollowed, PlainFollowed DEF Spawn
<1>8. ASSUME PostReplies(r) PROVE WatchedInv'
  <2> DEFINE a == "address-comments"
  <2>1. /\ Offer(a, "done") \in Seq(Plain) /\ Offer(a, "error") \in Seq(Plain)
        /\ State("done") \in Seq(Plain)
    BY PlainWrites, SpecResults
  <2>2. \A st \in Outcomes : Result(a, st, FALSE) \in Seq(Plain)
    BY OutcomesSettle, SpecResults, PlainWrites
  <2>3. Success \in Outcomes /\ {"error", "needs_human"} \subseteq Outcomes
    BY DEF Outcomes
  <2>4. PICK w \in Seq(Plain) : Return(r, w)
    BY <1>8, <2>1, <2>2, <2>3, PlainLists DEF PostReplies
  <2> QED
    BY <1>3, <1>4, <1>8, <2>4 DEF PostReplies
<1> QED
  BY <1>5, <1>6, <1>7, <1>8 DEF Thread

\* A session parks the card with a baseline, if at all, or is one that excuses it.
LEMMA CoroutineFollowed ==
  ASSUME FailureState # "awaiting update",
         TypeInv, WatchedInv, NEW s \in Session, Coroutine(s)
  PROVE  (WatchedInv \/ Excused)'
<1>1. /\ Followed(<<>>)
      /\ None \notin {"scheduled", "queued", "starting", "first", "stamped", "top", "idle",
                      "again", "turn"}
  BY PlainLists, PlainFollowed DEF None
<1>2. /\ doing[s] \in Jobs
      /\ phase[s] # None => doing[s].action \in Acting
  BY DEF TypeInv, TypeOK, SessionsOK, WatchedInv, JobsAct
<1>3. CASE Begin(s) \/ FirstTurn(s) \/ Park(s) \/ Take(s) \/ NextTurn(s) \/ IdleTimeout(s)
  <2>1. PICK from, to : Moves(s, from, to, <<>>) /\ from # None
    BY <1>1, <1>3 DEF Begin, FirstTurn, Park, Take, NextTurn, IdleTimeout
  <2> QED
    BY <1>1, <2>1, MovesFollowed
<1>4. CASE Start(s)
  <2>1. Moves(s, "queued", "starting", Result(doing[s].action, "running", FALSE))
    BY <1>4 DEF Start
  <2>2. phase[s] = "queued"
    BY <2>1 DEF Moves
  <2>3. doing[s].action \in Actions
    BY <1>1, <1>2, <2>2 DEF Acting
  <2>4. Followed(Result(doing[s].action, "running", FALSE))
    BY <2>3, SpecResults, PlainWrites, PlainFollowed
  <2> QED
    BY <1>1, <2>1, <2>4, MovesFollowed
<1>5. CASE Stamp(s)
  <2> DEFINE w == IF card.present /\ card.action # None
                    THEN Result(card.action, card.status, TRUE) ELSE <<>>
  <2>1. Moves(s, "first", "stamped", w)
    BY <1>5 DEF Stamp
  <2>2. /\ card.action \in Actions \cup {None}
        /\ card.status \in ResultStatuses \cup {None}
    BY DEF TypeInv, TypeOK, Cards
  <2>3. w \in Seq(Plain)
    BY <2>2, PlainWrites, PlainLists
  <2> HIDE DEF w
  <2> QED
    BY <1>1, <2>1, <2>3, PlainFollowed, MovesFollowed
<1>6. CASE Fail(s)
  <2>1. PICK from \in {"starting", "first", "stamped", "turn"} : Moves(s, from, "failed", <<>>)
    BY <1>6 DEF Fail
  <2> QED
    BY <1>1, <2>1, MovesFollowed
<1>7. ASSUME NEW outcome \in Outcomes, EndFirstTurn(s, outcome)
      PROVE  (WatchedInv \/ Excused)'
  <2>1. Moves(s, "stamped", "top", FirstHook(doing[s], outcome))
    BY <1>7 DEF EndFirstTurn
  <2>2. phase[s] = "stamped"
    BY <2>1 DEF Moves
  <2>3. CASE ParksUnwatched(doing[s])
    <3>1. phase'[s] = "top" /\ doing' = doing
      BY <2>1 DEF Moves, TypeInv, TypeOK, SessionsOK
    <3> QED
      BY <2>3, <3>1 DEF Excused, PastFirstTurn
  <2>4. CASE ~ParksUnwatched(doing[s])
    <3>1. Followed(FirstHook(doing[s], outcome))
      BY <1>1, <1>2, <2>2, <2>4, FirstHookFollowed
    <3> QED
      BY <1>1, <2>1, <3>1, MovesFollowed
  <2> QED
    BY <2>3, <2>4
<1>8. ASSUME NEW outcome \in Outcomes, EndNextTurn(s, outcome) PROVE WatchedInv'
  <2>1. Moves(s, "turn", "top", NextHook(doing[s], outcome))
    BY <1>8 DEF EndNextTurn
  <2>2. Followed(NextHook(doing[s], outcome))
    BY <1>2, NextHookPlain, PlainFollowed
  <2> QED
    BY <1>1, <2>1, <2>2, MovesFollowed
<1> QED
  BY <1>3, <1>4, <1>5, <1>6, <1>7, <1>8 DEF Coroutine

\* At the start the card is not parked.
LEMMA InitFollowed ==
  ASSUME "awaiting update" \notin InitialStates
  PROVE  Init => WatchedInv
<1> SUFFICES ASSUME Init PROVE WatchedInv
  OBVIOUS
<1>1. Settled /\ JobsAct /\ ParkingIsFollowed
  BY PlainLists, PlainFollowed
     DEF Init, Settled, JobsAct, ParkingIsFollowed, Everyone
<1>2. card.state # "awaiting update"
  <2>1. PICK s \in InitialStates : card = Fresh(s)
    BY DEF Init
  <2>2. card.state = s
    BY <2>1 DEF Fresh
  <2> QED
    BY <2>2
<1> QED
  BY <1>1, <1>2 DEF WatchedInv, ParkedOrStamped

\* A card that awaits an update has the baseline without which the refresh never
\* wakes it, unless a session has come to the end of a turn that parks and stamps
\* none (actions.py:1094-1101): with any actions and endpoints in use, continue_action
\* among them, any number of threads that park, dispatch, triage again and approve,
\* beside sessions whose hooks park the card too and a refresh that unparks it.  Left
\* out is a restart, which may come between the two writes, and queues in which
\* "awaiting update" is a state that cards start in or fail to.
THEOREM ParkedIsWatched ==
  ASSUME "awaiting update" \notin InitialStates \cup {FailureState}
  PROVE  Spec => []UnwatchedHasCause
<1>1. TypeInv /\ (WatchedInv \/ Excused) /\ [Next]_vars => (WatchedInv \/ Excused)'
  <2> SUFFICES ASSUME TypeInv, WatchedInv, ~Excused, [Next]_vars
               PROVE  WatchedInv' \/ Excused'
    BY ExcusedStays
  <2>1. CASE UNCHANGED vars
    BY <2>1, CardFollowed DEF vars
  <2>2. ASSUME NEW x \in Request \cup Session, Write(x) PROVE WatchedInv'
    BY <2>2, WriteFollowed DEF Everyone
  <2>3. ASSUME NEW resume \in Request \cup {None}, Restart(resume) PROVE Excused'
    BY <2>3, RestartExcuses
  <2> QED
    BY <2>1, <2>2, <2>3, EndpointFollowed, ThreadFollowed, CoroutineFollowed, RefreshFollowed
       DEF Next
<1>2. TypeInv /\ [Next]_vars => TypeInv'
  BY StutterTypes, WriteTypes, EndpointTypes, ThreadTypes, CoroutineTypes,
     RefreshTypes, RestartTypes DEF Next
<1>3. WatchedInv \/ Excused => UnwatchedHasCause
  <2>1. Excused => UnwatchedHasCause
    BY DEF Excused, UnwatchedHasCause
  <2> SUFFICES ASSUME WatchedInv, AtRest PROVE UnwatchedHasCause
    BY <2>1 DEF UnwatchedHasCause
  <2>2. \A x \in Everyone : todo[x] = <<>>
    BY DEF AtRest, Free, Everyone
  <2>3. ~Stamped(<<>>)
    BY StampedNone
  <2> QED
    BY <2>2, <2>3 DEF WatchedInv, ParkedOrStamped, UnwatchedHasCause
<1>4. Init => WatchedInv
  BY InitFollowed
<1> QED
  BY InitTypes, <1>1, <1>2, <1>3, <1>4, PTL DEF Spec
=============================================================================
