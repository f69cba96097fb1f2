--------------------------- MODULE PointerProofs ---------------------------
(***************************************************************************)
(* The card's chat button leads to the session that is live.               *)
(*                                                                         *)
(* dispatch starts a session and points the card at it in two steps        *)
(* (actions.py:1154-1166).  Besides two dispatches that pass the guard     *)
(* together, a thread that is held up between the two steps can go wrong:  *)
(* its session may be over by the time it writes the pointer, and another  *)
(* thread have started and pointed at a second one.  The proviso Alone     *)
(* rules both out, and is all that is needed.                              *)
(***************************************************************************)
EXTENDS CardProofs

Points(l, s) == \E i \in DOMAIN l : "session" \in DOMAIN l[i] /\ l[i]["session"] = s

\* A thread between the guard and the pointer.
Busy(r) == pc[r] \in PastGuard \/ \E s \in Session : Points(todo[r], s)

\* No two threads are.
Alone == \A r, q \in Request : Busy(r) /\ Busy(q) => r = q

\* The writes that neither point the card at a session nor take it off the board.
Silent == {w \in Writes : "session" \notin DOMAIN w /\ "present" \notin DOMAIN w}
Staying == {w \in Writes : "present" \notin DOMAIN w}

HooksAreSilent ==
  /\ \A s \in Session : todo[s] \in Seq(Silent)
  /\ \A r \in Request : todo[r] \in Seq(Staying)

\* A pointer that is still to be written is that of the live session, if there is one.
PointersAreFresh ==
  \A r \in Request, s \in Session : Points(todo[r], s) => Dispatched \subseteq {s}

\* The live session has the card's pointer, or will have it.
LiveIsPointedAt ==
  \A s \in Dispatched : card.session = s \/ \E r \in Request : Points(todo[r], s)

PointerInv ==
  card.present /\ Settled /\ HooksAreSilent /\ PointersAreFresh /\ LiveIsPointedAt

\* Lists of such writes.
LEMMA SilentLists ==
  /\ <<>> \in Seq(Silent)
  /\ \A w \in Silent : <<w>> \in Seq(Silent)
  /\ \A s, t \in Seq(Silent) : s \o t \in Seq(Silent)
OBVIOUS

\* Every write but a pointer and a deletion is one of them.
LEMMA SilentWrites ==
  /\ \A s \in States \cup {None} : State(s) \in Seq(Silent)
  /\ \A a, p : p \in Offers => Offer(a, p) \in Seq(Silent)
  /\ \A a \in Actions, st \in ResultStatuses \cup {None}, sdk \in BOOLEAN :
       Result(a, st, sdk) \in Seq(Silent)
  /\ Baseline \in Seq(Silent)
  /\ \A s \in InitialStates : <<Forget(s)>> \in Seq(Silent)
<1>1. \A s \in States \cup {None} : State(s) \in Seq(Silent)
  <2> SUFFICES ASSUME NEW s \in States \cup {None} PROVE State(s) \in Seq(Silent)
    OBVIOUS
  <2>1. CASE s = None
    BY <2>1, SilentLists DEF State
  <2>2. CASE s # None
    <3>1. [state |-> s] \in Silent
      BY <2>2 DEF Writes, States, Silent
    <3> QED
      BY <2>2, <3>1, SilentLists DEF State
  <2> QED
    BY <2>1, <2>2
<1>2. \A a, p : p \in Offers => Offer(a, p) \in Seq(Silent)
  <2>1. \A p \in Offers : [plan |-> p] \in Silent /\ [drafts |-> p] \in Silent
    BY DEF Writes, Silent
  <2> QED
    BY <2>1, SilentLists DEF Offer
<1>3. \A a \in Actions, st \in ResultStatuses \cup {None}, sdk \in BOOLEAN :
        Result(a, st, sdk) \in Seq(Silent)
  <2> SUFFICES ASSUME NEW a \in Actions, NEW st \in ResultStatuses \cup {None},
                      NEW sdk \in BOOLEAN
               PROVE  Result(a, st, sdk) \in Seq(Silent)
    OBVIOUS
  <2> DEFINE w == [action |-> a, status |-> st, sdk |-> sdk]
  <2>1. w \in Silent
    BY DEF Writes, Silent
  <2> HIDE DEF w
  <2>2. <<w>> \in Seq(Silent)
    BY <2>1, SilentLists
  <2> QED
    BY <2>2 DEF Result, w
<1>4. Baseline \in Seq(Silent)
  <2>1. [parked |-> TRUE] \in Silent
    BY DEF Writes, Silent
  <2> QED
    BY <2>1, SilentLists DEF Baseline
<1>5. \A s \in InitialStates : <<Forget(s)>> \in Seq(Silent)
  <2> SUFFICES ASSUME NEW s \in InitialStates PROVE <<Forget(s)>> \in Seq(Silent)
    OBVIOUS
  <2>1. Forget(s) \in Writes /\ DOMAIN Forget(s) = {"state", "action", "status", "sdk"}
    BY WriteForget DEF Forget
  <2>2. Forget(s) \in Silent
    BY <2>1 DEF Silent
  <2> QED
    BY <2>2, SilentLists
<1> QED
  BY <1>1, <1>2, <1>3, <1>4, <1>5

\* Handing a plan over, and what is left to do when a dispatch returns.
LEMMA SilentAfterwards ==
  /\ \A a \in TwoPhase : Executing(a) \in Seq(Silent)
  /\ \A j : Afterwards(j) \in Seq(Silent)
<1>1. \A a \in TwoPhase : Executing(a) \in Seq(Silent)
  <2> SUFFICES ASSUME NEW a \in TwoPhase PROVE Executing(a) \in Seq(Silent)
    OBVIOUS
  <2>1. a \in Actions
    BY DEF TwoPhase, Actions
  <2>2. Result(a, "running", FALSE) \in Seq(Silent) /\ Offer(a, "executing") \in Seq(Silent)
    BY <2>1, SilentWrites, SpecResults
  <2> QED
    BY <2>2, SilentLists DEF Executing
<1> QED
  BY <1>1, SilentLists DEF Afterwards, TwoPhase

\* The hooks of a session.
LEMMA FirstHookSilent ==
  ASSUME NEW j \in Jobs, NEW outcome \in Outcomes, j.action # None
  PROVE  FirstHook(j, outcome) \in Seq(Silent)
<1> DEFINE recorded == Result(j.action, outcome, TRUE)
           terminal == State(Terminal(j.action))
           failure  == State(Failure(j.action))
           parks    == IF j.action = "nudge-author" /\ ~j.resumed THEN Baseline ELSE <<>>
<1>1. j.action \in Actions
  BY DEF Jobs
<1>2. /\ recorded \in Seq(Silent) /\ terminal \in Seq(Silent) /\ failure \in Seq(Silent)
      /\ parks \in Seq(Silent) /\ Offer(j.action, "proposed") \in Seq(Silent)
  BY <1>1, SilentWrites, SilentLists, SpecStates, SpecResults
<1>3. FirstHook(j, outcome) =
        CASE outcome = Success -> terminal \o parks \o recorded
          [] outcome = "proposal" /\ j.action \in TwoPhase ->
               Offer(j.action, "proposed") \o recorded
          [] outcome = "needs_human" /\ ~j.resumed -> failure \o recorded
          [] OTHER -> recorded
  BY DEF FirstHook
<1> HIDE DEF recorded, terminal, failure, parks
<1>4. /\ terminal \o parks \o recorded \in Seq(Silent)
      /\ Offer(j.action, "proposed") \o recorded \in Seq(Silent)
      /\ failure \o recorded \in Seq(Silent)
  BY <1>2, SilentLists
<1> QED
  BY <1>2, <1>3, <1>4 DEF Success

\* The same of a later turn's.
LEMMA NextHookSilent ==
  ASSUME NEW j \in Jobs, NEW outcome \in Outcomes
  PROVE  NextHook(j, outcome) \in Seq(Silent)
<1> DEFINE recorded == Result(j.action, outcome, TRUE)
           settled  == State("done") \o Offer(j.action, "done")
<1>1. CASE j.action \notin TwoPhase
  <2>1. NextHook(j, outcome) = <<>>
    BY <1>1 DEF NextHook
  <2> QED
    BY <2>1
<1>2. CASE j.action \in TwoPhase
  <2>1. j.action \in Actions
    BY <1>2 DEF TwoPhase, Actions
  <2>2. recorded \in Seq(Silent)
    BY <2>1, OutcomesSettle, SilentWrites
  <2>3. settled \in Seq(Silent) /\ <<>> \in Seq(Silent)
    BY SilentWrites, SilentLists, SpecResults
  <2>4. NextHook(j, outcome) =
          IF j.action \notin TwoPhase \/ j.resumed \/ outcome = "proposal" THEN <<>>
          ELSE (IF outcome = Success THEN settled ELSE <<>>) \o recorded
    BY DEF NextHook
  <2> HIDE DEF recorded, settled
  <2>5. (IF outcome = Success THEN settled ELSE <<>>) \o recorded \in Seq(Silent)
    BY <2>2, <2>3, SilentLists
  <2> QED
    BY <2>3, <2>4, <2>5
<1> QED
  BY <1>1, <1>2

\* A silent list points nowhere, and leaves the card on the board.
LEMMA SilentPoints ==
  ASSUME NEW l \in Seq(Silent)
  PROVE  l \in Seq(Staying) /\ \A s : ~Points(l, s)
<1>1. Silent \subseteq Staying
  BY DEF Silent, Staying
<1>2. l \in Seq(Staying)
  BY <1>1
<1>3. \A i \in DOMAIN l : l[i] \in Silent
  OBVIOUS
<1> QED
  BY <1>2, <1>3 DEF Points, Silent

\* The list of a thread that has started a session points there.
LEMMA SpawnPoints ==
  ASSUME NEW s \in Session, NEW l \in Seq(Silent)
  PROVE  /\ <<[session |-> s]>> \o l \in Seq(Staying)
         /\ \A q : Points(<<[session |-> s]>> \o l, q) <=> q = s
<1> DEFINE p == [session |-> s]
           u == <<p>>
<1>1. p \in Staying /\ "session" \in DOMAIN p /\ p["session"] = s
  BY DEF Staying, Writes
<1> HIDE DEF p
<1>2. u \in Seq(Staying) /\ 1 \in DOMAIN u /\ u[1] = p /\ \A i \in DOMAIN u : i = 1
  BY <1>1
<1> HIDE DEF u
<1>3. Staying \subseteq Writes
  BY DEF Staying
<1>4. l \in Seq(Staying)
  BY SilentPoints
<1>5. u \in Seq(Writes) /\ l \in Seq(Writes)
  BY <1>2, <1>3, <1>4
<1>6. u \o l \in Seq(Staying)
  BY <1>2, <1>4
<1>7. /\ \A i \in DOMAIN u : i \in DOMAIN (u \o l) /\ (u \o l)[i] = u[i]
      /\ \A i \in DOMAIN (u \o l) :
           i \in DOMAIN u \/ (i - Len(u) \in DOMAIN l /\ (u \o l)[i] = l[i - Len(u)])
  BY <1>5
<1>8. \A i \in DOMAIN l : "session" \notin DOMAIN l[i]
  BY DEF Silent
<1>9. Points(u \o l, s)
  BY <1>1, <1>2, <1>7 DEF Points
<1>10. ASSUME NEW q, Points(u \o l, q) PROVE q = s
  <2>1. PICK i \in DOMAIN (u \o l) : "session" \in DOMAIN (u \o l)[i] /\ (u \o l)[i]["session"] = q
    BY <1>10 DEF Points
  <2>2. i \in DOMAIN u
    BY <1>7, <1>8, <2>1
  <2> QED
    BY <1>1, <1>2, <1>7, <2>1, <2>2
<1> QED
  BY <1>6, <1>9, <1>10 DEF u, p

\* Where a list points when its first write is made.
LEMMA PointsHead ==
  ASSUME NEW l \in Seq(Writes), l # <<>>, NEW s
  PROVE  Points(l, s) <=> \/ "session" \in DOMAIN Head(l) /\ Head(l)["session"] = s
                          \/ Points(Tail(l), s)
<1>1. /\ \A i \in DOMAIN Tail(l) : i + 1 \in DOMAIN l /\ Tail(l)[i] = l[i + 1]
      /\ \A i \in DOMAIN l : i = 1 \/ (i - 1 \in DOMAIN Tail(l) /\ Tail(l)[i - 1] = l[i])
      /\ 1 \in DOMAIN l /\ Head(l) = l[1]
  OBVIOUS
<1> DEFINE At(i) == "session" \in DOMAIN l[i] /\ l[i]["session"] = s
<1>2. Points(l, s) <=> \E i \in DOMAIN l : At(i)
  BY DEF Points
<1>3. Points(Tail(l), s) <=> \E i \in DOMAIN Tail(l) : At(i + 1)
  BY <1>1 DEF Points
<1>4. "session" \in DOMAIN Head(l) /\ Head(l)["session"] = s <=> At(1)
  BY <1>1
<1> HIDE DEF At
<1>5. ASSUME NEW i \in DOMAIN l, i - 1 \in DOMAIN Tail(l), At(i)
      PROVE  At((i - 1) + 1)
  <2>1. (i - 1) + 1 = i
    OBVIOUS
  <2> QED
    BY <1>5, <2>1
<1> QED
  BY <1>1, <1>2, <1>3, <1>4, <1>5
-----------------------------------------------------------------------------
(* The steps.                                                              *)

\* A thread or a session that has made its writes gets a silent list of them, and
\* no session comes to count that did not before.
LEMMA HandSilent ==
  ASSUME TypeInv, PointerInv, NEW x \in Everyone, NEW w \in Seq(Silent),
         todo[x] = <<>>, todo' = [todo EXCEPT ![x] = w], card' = card,
         Settled', Dispatched' \subseteq Dispatched
  PROVE  PointerInv'
<1>1. todo'[x] = w /\ \A y \in Everyone \ {x} : todo'[y] = todo[y]
  BY DEF TypeInv, TypeOK, Everyone
<1>2. HooksAreSilent'
  BY <1>1, SilentPoints DEF PointerInv, HooksAreSilent, Everyone
<1>3. \A r \in Request, s \in Session : Points(todo[r], s) <=> Points(todo'[r], s)
  BY <1>1, SilentPoints, SilentLists DEF Everyone
<1>4. PointersAreFresh'
  BY <1>3 DEF PointerInv, PointersAreFresh
<1>5. LiveIsPointedAt'
  BY <1>3 DEF PointerInv, LiveIsPointedAt, Dispatched, Wanted
<1> QED
  BY <1>2, <1>4, <1>5 DEF PointerInv

\* A thread returns, and starts no session.
LEMMA ReturnSilent ==
  ASSUME TypeInv, SessionInv, PointerInv, NEW r \in Request, NEW w \in Seq(Silent),
         Return(r, w), todo[r] = <<>>, card' = card, StartsNone
  PROVE  PointerInv'
<1>1. r \in Everyone /\ todo' = [todo EXCEPT ![r] = w] /\ pc' = [pc EXCEPT ![r] = "idle"]
  BY DEF Return, Everyone
<1>2. Settled'
  BY <1>1 DEF PointerInv, Settled, TypeInv, TypeOK, RequestsOK
<1> QED
  BY <1>1, <1>2, HandSilent, NoneRevived

\* A thread goes on.
LEMMA ProceedSilent ==
  ASSUME TypeInv, SessionInv, PointerInv, NEW r \in Request, NEW where, NEW j,
         NEW w \in Seq(Silent), Proceed(r, where, j, w), where = "prepare" \/ w = <<>>,
         todo[r] = <<>>, card' = card, StartsNone
  PROVE  PointerInv'
<1>1. r \in Everyone /\ todo' = [todo EXCEPT ![r] = w] /\ pc' = [pc EXCEPT ![r] = where]
  BY DEF Proceed, Everyone
<1>2. Settled'
  BY <1>1 DEF PointerInv, Settled, TypeInv, TypeOK, RequestsOK
<1> QED
  BY <1>1, <1>2, HandSilent, NoneRevived

\* A session goes on.
LEMMA MovesSilent ==
  ASSUME TypeInv, SessionInv, PointerInv, NEW s \in Session, NEW from, NEW to,
         NEW w \in Seq(Silent), Moves(s, from, to, w), StartsNone
  PROVE  PointerInv'
<1>1. /\ s \in Everyone /\ s \notin Request /\ pc' = pc /\ card' = card
      /\ todo[s] = <<>> /\ todo' = [todo EXCEPT ![s] = w]
  BY ActionsAssumption DEF ActionsAssumption, Moves, Everyone, requestVars
<1>2. Settled'
  BY <1>1 DEF PointerInv, Settled, TypeInv, TypeOK
<1> QED
  BY <1>1, <1>2, HandSilent, NoneRevived

\* A step that leaves the threads and the sessions alone, and the card's pointer.
LEMMA CardPointer ==
  ASSUME PointerInv, UNCHANGED <<todo, requestVars, sessionVars>>,
         card'.present, card'.session = card.session
  PROVE  PointerInv'
<1>1. pc' = pc /\ todo' = todo /\ phase' = phase /\ closing' = closing /\ inbox' = inbox
      /\ doing' = doing
  BY DEF requestVars, sessionVars
<1>2. Dispatched' = Dispatched
  BY <1>1 DEF Dispatched, Wanted, Aborted
<1>3. Settled' /\ HooksAreSilent' /\ PointersAreFresh'
  BY <1>1, <1>2 DEF PointerInv, Settled, HooksAreSilent, PointersAreFresh
<1>4. LiveIsPointedAt'
  BY <1>1, <1>2 DEF PointerInv, LiveIsPointedAt
<1> QED
  BY <1>3, <1>4 DEF PointerInv

\* The next write reaches the card: if it is a pointer, it is the live session's.
LEMMA WritePointer ==
  ASSUME TypeInv, PointerInv, NEW x \in Everyone, Write(x)
  PROVE  PointerInv'
<1> DEFINE h == Head(todo[x])
<1>1. /\ todo[x] \in Seq(Writes) /\ todo[x] # <<>> /\ card \in Cards
      /\ pc' = pc /\ phase' = phase /\ closing' = closing /\ inbox' = inbox /\ doing' = doing
      /\ card' = Overlay(h, card) /\ card.present
      /\ todo' = [todo EXCEPT ![x] = Tail(todo[x])]
  BY DEF Write, TypeInv, TypeOK, Everyone, requestVars, sessionVars, PointerInv
<1>2. h \in Writes /\ todo'[x] = Tail(todo[x]) /\ \A y \in Everyone \ {x} : todo'[y] = todo[y]
  BY <1>1 DEF TypeInv, TypeOK, Everyone
<1> HIDE DEF h
<1>3. \A s : Points(todo[x], s) <=>
        ("session" \in DOMAIN h /\ h["session"] = s) \/ Points(Tail(todo[x]), s)
  BY <1>1, PointsHead DEF h
<1>4. Dispatched' = Dispatched
  BY <1>1 DEF Dispatched, Wanted, Aborted
<1>5. /\ h \in Staying
      /\ x \in Session => h \in Silent /\ Tail(todo[x]) \in Seq(Silent)
      /\ x \in Request => Tail(todo[x]) \in Seq(Staying)
  <2>1. ASSUME NEW T, todo[x] \in Seq(T) PROVE h \in T /\ Tail(todo[x]) \in Seq(T)
    BY <1>1, <2>1 DEF h
  <2>2. CASE x \in Session
    <3>1. todo[x] \in Seq(Silent) /\ x \notin Request
      BY <2>2, ActionsAssumption DEF ActionsAssumption, PointerInv, HooksAreSilent
    <3> QED
      BY <2>1, <3>1 DEF Silent, Staying
  <2>3. CASE x \in Request
    <3>1. todo[x] \in Seq(Staying) /\ x \notin Session
      BY <2>3, ActionsAssumption DEF ActionsAssumption, PointerInv, HooksAreSilent
    <3> QED
      BY <2>1, <3>1
  <2> QED
    BY <2>2, <2>3 DEF Everyone
<1>6. Settled'
  <2>1. \A r \in Request : r \in Everyone
    BY DEF Everyone
  <2> QED
    BY <1>1, <1>2, <2>1 DEF PointerInv, Settled
<1>7. HooksAreSilent'
  BY <1>2, <1>5 DEF PointerInv, HooksAreSilent, Everyone
<1>8. \A r \in Request, s \in Session : Points(todo'[r], s) => Points(todo[r], s)
  BY <1>2, <1>3 DEF Everyone
<1>9. PointersAreFresh'
  BY <1>4, <1>8 DEF PointerInv, PointersAreFresh
<1>10. /\ card'.present = IF "present" \in DOMAIN h THEN h["present"] ELSE card.present
       /\ card'.session = IF "session" \in DOMAIN h THEN h["session"] ELSE card.session
  <2>1. \A f \in Fields : Overlay(h, card)[f] = IF f \in DOMAIN h THEN h[f] ELSE card[f]
    BY <1>1, OverlayField
  <2>2. "present" \in Fields /\ "session" \in Fields
    BY DEF Fields
  <2> QED
    BY <1>1, <2>1, <2>2
<1>11. LiveIsPointedAt'
  <2> SUFFICES ASSUME NEW s \in Dispatched, \A r \in Request : ~Points(todo'[r], s)
               PROVE  card'.session = s
    BY <1>4 DEF LiveIsPointedAt
  <2>1. s \in Session
    BY DEF Dispatched, Wanted
  <2>2. CASE "session" \in DOMAIN h
    <3>1. x \in Request /\ h["session"] \in Session /\ Points(todo[x], h["session"])
      <4>1. x \in Request
        BY <1>5, <2>2 DEF Silent, Everyone
      <4>2. h["session"] \in Session
        BY <1>2, <2>2, WriteShape
      <4> QED
        BY <1>3, <2>2, <4>1, <4>2
    <3>2. Dispatched \subseteq {h["session"]}
      BY <3>1 DEF PointerInv, PointersAreFresh
    <3> QED
      BY <1>10, <2>2, <3>2
  <2>3. CASE "session" \notin DOMAIN h
    <3>1. card.session = s \/ \E r \in Request : Points(todo[r], s)
      BY DEF PointerInv, LiveIsPointedAt
    <3>2. \A r \in Request : ~Points(todo[r], s)
      BY <1>2, <1>3, <2>3 DEF Everyone
    <3> QED
      BY <1>10, <2>3, <3>1, <3>2
  <2> QED
    BY <2>2, <2>3
<1>12. card'.present
  BY <1>1, <1>5, <1>10 DEF Staying
<1> QED
  BY <1>6, <1>7, <1>9, <1>11, <1>12 DEF PointerInv

\* The endpoints but for two: continue_action, which has no guard, and the deletion
\* of a card, which lets it come back without its pointer.
LEMMA EndpointPointer ==
  ASSUME Endpoints \cap {"continue", "delete"} = {},
         TypeInv, SessionInv, PointerInv, NEW r \in Request, Endpoint(r)
  PROVE  PointerInv'
<1>0. ~Continue(r) /\ ~Delete(r)
  BY DEF Continue, Delete, Call
<1>a. todo[r] = <<>> /\ StartsNone
  <2>1. Free(r)
    BY DEF Endpoint, ActInstant, Act, Approve, PostDrafts, Nudge, Continue, Discard, Retriage,
           Delete, Call
  <2> QED
    BY <2>1, EndpointStarts DEF Free
<1>b. ASSUME NEW w \in Seq(Silent), Return(r, w), card' = card PROVE PointerInv'
  BY <1>a, <1>b, ReturnSilent
<1>c. ASSUME NEW where, NEW j, Proceed(r, where, j, <<>>), card' = card PROVE PointerInv'
  BY <1>a, <1>c, ProceedSilent, SilentLists
<1>1. ASSUME NEW a \in Action, ActInstant(r, a) PROVE PointerInv'
  <2>1. a \in Actions
    BY ActionsAssumption DEF ActionsAssumption
  <2>2. /\ State(Terminal(a)) \in Seq(Silent) /\ Baseline \in Seq(Silent)
        /\ Result(a, "parked", FALSE) \in Seq(Silent)
        /\ Result(a, "skipped", FALSE) \in Seq(Silent)
    BY <2>1, SpecStates, SpecResults, SilentWrites
  <2>3. PICK w \in Seq(Silent) : Return(r, w)
    BY <1>1, <2>2, SilentLists DEF ActInstant
  <2> QED
    BY <1>1, <1>b, <2>3 DEF ActInstant
<1>2. ASSUME NEW a \in Action, Act(r, a) PROVE PointerInv'
  BY <1>2, <1>c DEF Act
<1>3. ASSUME Approve(r) PROVE PointerInv'
  <2>1. Executing("plan-fix") \in Seq(Silent)
    BY SilentAfterwards DEF TwoPhase
  <2>2. CASE Reachable
    BY <1>3, <1>b, <2>1, <2>2 DEF Approve
  <2>3. CASE ~Reachable
    BY <1>3, <1>c, <2>3 DEF Approve
  <2> QED
    BY <2>2, <2>3
<1>4. ASSUME PostDrafts(r) PROVE PointerInv'
  <2>1. Executing("address-comments") \in Seq(Silent)
    BY SilentAfterwards DEF TwoPhase
  <2>2. CASE Reachable
    BY <1>4, <1>b, <2>1, <2>2 DEF PostDrafts
  <2>3. CASE ~Reachable
    BY <1>4, <1>c, <2>3 DEF PostDrafts
  <2> QED
    BY <2>2, <2>3
<1>5. ASSUME Nudge(r) PROVE PointerInv'
  <2>1. card' = card /\ todo' = todo /\ pc' = pc
    BY <1>5 DEF Nudge
  <2>2. Dispatched' \subseteq Dispatched
    BY <1>a, NoneRevived
  <2> QED
    BY <2>1, <2>2 DEF PointerInv, Settled, HooksAreSilent, PointersAreFresh, LiveIsPointedAt
<1>6. ASSUME Discard(r) PROVE PointerInv'
  <2>1. PICK a \in TwoPhase : Return(r, Offer(a, "discarded"))
    BY <1>6 DEF Discard, TwoPhase
  <2> QED
    BY <1>6, <1>b, <2>1, SilentWrites, SpecResults DEF Discard
<1>7. ASSUME Retriage(r) PROVE PointerInv'
  BY <1>7, <1>b, SilentWrites DEF Retriage
<1> QED
  BY <1>0, <1>1, <1>2, <1>3, <1>4, <1>5, <1>6, <1>7 DEF Endpoint

\* The rest of a dispatch: the thread that starts a session is the only one past
\* the guard, and nobody has a pointer left to write.
LEMMA ThreadPointer ==
  ASSUME Alone, TypeInv, NoResumption, SessionInv, PointerInv, NEW r \in Request, Thread(r)
  PROVE  PointerInv'
<1>1. Afterwards(job[r]) \in Seq(Silent)
  BY SilentAfterwards
<1>2. pc[r] # "idle" => job[r].action \in Actions
  BY DEF TypeInv, TypeOK, RequestsOK, JobsNamed, Jobs
<1>3. pc[r] \in {"guard", "spawn", "posting"} => todo[r] = <<>>
  BY DEF PointerInv, Settled
<1>4. ASSUME Guard(r) PROVE PointerInv'
  <2>1. CASE AnyLive
    BY <1>1, <1>3, <1>4, <2>1, ReturnSilent, StayKeeps DEF Guard
  <2>2. CASE ~AnyLive
    <3>1. job[r].action \in Actions
      BY <1>2, <1>4 DEF Guard
    <3>2. /\ State(InProgress(job[r].action)) \in Seq(Silent)
          /\ Result(job[r].action, "queued", FALSE) \in Seq(Silent)
      BY <3>1, SpecStates, SpecResults, SilentWrites
    <3>3. PICK w \in Seq(Silent) : Proceed(r, "prepare", job[r], w)
      BY <1>4, <2>2, <3>2, SilentLists DEF Guard
    <3> QED
      BY <1>3, <1>4, <3>3, ProceedSilent, StayKeeps DEF Guard
  <2> QED
    BY <2>1, <2>2
<1>5. ASSUME Prepare(r) PROVE PointerInv'
  <2>0. job[r].action \in Actions
    BY <1>2, <1>5 DEF Prepare
  <2>1. CASE Ready(r)
    BY <1>5, <2>1, ProceedSilent, SilentLists, StayKeeps DEF Prepare, Ready
  <2>2. \A st \in {"needs_human", "error"} :
          State(Failure(job[r].action)) \o Result(job[r].action, st, FALSE)
            \o Afterwards(job[r]) \in Seq(Silent)
    <3>1. State(Failure(job[r].action)) \in Seq(Silent)
      BY <2>0, SpecStates, SilentWrites
    <3>2. \A st \in {"needs_human", "error"} : Result(job[r].action, st, FALSE) \in Seq(Silent)
      BY <2>0, SpecResults, SilentWrites DEF Outcomes
    <3> QED
      BY <1>1, <3>1, <3>2, SilentLists
  <2>3. CASE CannotPush(r) \/ Raises(r)
    <3>1. PICK w \in Seq(Silent) : Return(r, w)
      BY <2>2, <2>3, SilentLists DEF CannotPush, Raises
    <3> QED
      BY <1>5, <3>1, ReturnSilent, StayKeeps DEF Prepare
  <2> QED
    BY <1>5, <2>1, <2>3 DEF Prepare
<1>6. ASSUME NEW s \in Session, Spawn(r, s) PROVE PointerInv'
  <2> DEFINE w == <<[session |-> s]>> \o Afterwards(job[r])
  <2>1. /\ pc[r] = "spawn" /\ phase[s] = None
        /\ phase' = [phase EXCEPT ![s] = "scheduled"]
        /\ doing' = [doing EXCEPT ![s] = job[r]]
        /\ closing' = closing /\ inbox' = inbox /\ card' = card
        /\ todo' = [todo EXCEPT ![r] = w] /\ pc' = [pc EXCEPT ![r] = "idle"]
    BY <1>6 DEF Spawn, Return
  <2>2. w \in Seq(Staying) /\ \A q : Points(w, q) <=> q = s
    BY <1>1, SpawnPoints
  <2> HIDE DEF w
  <2>3. todo'[r] = w /\ r \in Everyone /\ \A x \in Everyone \ {r} : todo'[x] = todo[x]
    BY <2>1 DEF TypeInv, TypeOK, Everyone
  <2>4. \A q \in Request \ {r}, t \in Session : ~Points(todo[q], t)
    BY <2>1 DEF Alone, Busy, PastGuard
  <2>5. \A q \in Request, t \in Session : Points(todo'[q], t) <=> q = r /\ t = s
    BY <2>2, <2>3, <2>4 DEF Everyone
  <2>6. Dispatched' \subseteq {s}
    <3>1. Dispatched = {}
      BY <2>1 DEF SessionInv, Cleared, PastGuard, NoResumption
    <3>2. \A q \in Session \ {s} : phase'[q] = phase[q] /\ doing'[q] = doing[q]
      BY <2>1 DEF TypeInv, TypeOK, SessionsOK
    <3>3. \A q \in Dispatched' : q \in Dispatched \/ q = s
      BY <2>1, <3>2 DEF Dispatched, Wanted, Aborted
    <3> QED
      BY <3>1, <3>3
  <2>7. Settled'
    BY <2>1 DEF PointerInv, Settled, TypeInv, TypeOK, RequestsOK
  <2>8. HooksAreSilent'
    <3>1. r \notin Session
      BY ActionsAssumption DEF ActionsAssumption
    <3> QED
      BY <2>2, <2>3, <3>1 DEF PointerInv, HooksAreSilent, Everyone
  <2>9. PointersAreFresh' /\ LiveIsPointedAt'
    BY <2>5, <2>6 DEF PointersAreFresh, LiveIsPointedAt
  <2> QED
    BY <2>1, <2>7, <2>8, <2>9 DEF PointerInv
<1>7. ASSUME PostReplies(r) PROVE PointerInv'
  <2> DEFINE a == "address-comments"
  <2>1. /\ Offer(a, "done") \in Seq(Silent) /\ Offer(a, "error") \in Seq(Silent)
        /\ State("done") \in Seq(Silent)
    BY SilentWrites, SpecResults
  <2>2. \A st \in Outcomes : Result(a, st, FALSE) \in Seq(Silent)
    BY OutcomesSettle, SpecResults, SilentWrites
  <2>3. Success \in Outcomes /\ {"error", "needs_human"} \subseteq Outcomes
    BY DEF Outcomes
  <2>4. PICK w \in Seq(Silent) : Return(r, w)
    BY <1>7, <2>1, <2>2, <2>3, SilentLists DEF PostReplies
  <2> QED
    BY <1>3, <1>7, <2>4, ReturnSilent, StayKeeps DEF PostReplies
<1> QED
  BY <1>4, <1>5, <1>6, <1>7 DEF Thread

\* The sessions never touch the pointer.
LEMMA CoroutinePointer ==
  ASSUME TypeInv, SessionInv, PointerInv, NEW s \in Session, Coroutine(s)
  PROVE  PointerInv'
<1>0. StartsNone
  BY CoroutineStarts
<1>1. doing[s] \in Jobs /\ (phase[s] # None => doing[s].action # None)
  BY DEF TypeInv, TypeOK, SessionsOK, JobsNamed
<1>2. None \notin {"queued", "stamped"}
  BY DEF None
<1>3. \E w \in Seq(Silent) : \E from, to : Moves(s, from, to, w)
  <2>1. CASE Begin(s) \/ FirstTurn(s) \/ Park(s) \/ Take(s) \/ NextTurn(s) \/ IdleTimeout(s)
             \/ Fail(s)
    <3>1. \E from, to : Moves(s, from, to, <<>>)
      BY <2>1 DEF Begin, FirstTurn, Park, Take, NextTurn, IdleTimeout, Fail
    <3> QED
      BY <3>1, SilentLists
  <2>2. CASE Start(s)
    <3>1. Moves(s, "queued", "starting", Result(doing[s].action, "running", FALSE))
      BY <2>2 DEF Start
    <3>2. doing[s].action \in Actions
      BY <1>1, <1>2, <3>1 DEF Moves, Jobs
    <3>3. Result(doing[s].action, "running", FALSE) \in Seq(Silent)
      BY <3>2, SpecResults, SilentWrites
    <3> QED
      BY <3>1, <3>3
  <2>3. CASE Stamp(s)
    <3> DEFINE w == IF card.present /\ card.action # None
                      THEN Result(card.action, card.status, TRUE) ELSE <<>>
    <3>1. Moves(s, "first", "stamped", w)
      BY <2>3 DEF Stamp
    <3>2. /\ card.action \in Actions \cup {None}
          /\ card.status \in ResultStatuses \cup {None}
      BY DEF TypeInv, TypeOK, Cards
    <3>3. w \in Seq(Silent)
      BY <3>2, SilentWrites, SilentLists
    <3> HIDE DEF w
    <3> QED
      BY <3>1, <3>3
  <2>4. ASSUME NEW outcome \in Outcomes, EndFirstTurn(s, outcome)
        PROVE  \E w \in Seq(Silent) : \E from, to : Moves(s, from, to, w)
    <3>1. Moves(s, "stamped", "top", FirstHook(doing[s], outcome))
      BY <2>4 DEF EndFirstTurn
    <3>2. doing[s].action # None
      BY <1>1, <1>2, <3>1 DEF Moves
    <3> QED
      BY <1>1, <3>1, <3>2, FirstHookSilent
  <2>5. ASSUME NEW outcome \in Outcomes, EndNextTurn(s, outcome)
        PROVE  \E w \in Seq(Silent) : \E from, to : Moves(s, from, to, w)
    <3>1. Moves(s, "turn", "top", NextHook(doing[s], outcome))
      BY <2>5 DEF EndNextTurn
    <3> QED
      BY <1>1, <3>1, NextHookSilent
  <2> QED
    BY <2>1, <2>2, <2>3, <2>4, <2>5 DEF Coroutine
<1> QED
  BY <1>0, <1>3, MovesSilent

\* The refresh leaves the pointer alone, and there is nothing to bring back.
LEMMA RefreshPointer ==
  ASSUME TypeInv, PointerInv, RefreshLooks \/ RefreshApplies \/ RefreshOne \/ Readd
  PROVE  PointerInv'
<1>1. card \in Cards /\ card.present
  BY DEF TypeInv, TypeOK, PointerInv
<1>2. CASE RefreshLooks
  BY <1>1, <1>2, CardPointer DEF RefreshLooks
<1>3. CASE RefreshApplies
  <2>1. \E recover : card' \in Refreshes(recover)
    BY <1>1, <1>3 DEF RefreshApplies
  <2>2. card'.present /\ card'.session = card.session
    BY <1>1, <2>1, RefreshedResult
  <2> QED
    BY <1>3, <2>2, CardPointer DEF RefreshApplies
<1>4. CASE RefreshOne
  <2>1. card'.present /\ card'.session = card.session
    BY <1>1, <1>4, RefreshedResult DEF RefreshOne
  <2> QED
    BY <1>4, <2>1, CardPointer DEF RefreshOne
<1>5. CASE Readd
  BY <1>1, <1>5 DEF Readd
<1> QED
  BY <1>2, <1>3, <1>4, <1>5

\* After a restart there is no session, and no pointer to be written.
LEMMA RestartPointer ==
  ASSUME "continue" \notin Endpoints, TypeInv, PointerInv,
         NEW resume \in Request \cup {None}, Restart(resume)
  PROVE  PointerInv'
<1>1. /\ todo' = [x \in Everyone |-> <<>>] /\ pc' = [r \in Request |-> "idle"]
      /\ \A s \in Session : phase'[s] \notin Alive
  BY DEF Restart, TypeInv, TypeOK, Everyone, Alive, None
<1>2. Settled'
  BY <1>1 DEF Settled
<1>3. \A x \in Everyone : todo'[x] \in Seq(Silent) /\ todo'[x] \in Seq(Staying)
  BY <1>1, SilentLists, SilentPoints
<1>4. HooksAreSilent'
  BY <1>3 DEF HooksAreSilent, Everyone
<1>5. Dispatched' = {}
  BY <1>1 DEF Dispatched, Wanted
<1>6. PointersAreFresh' /\ LiveIsPointedAt'
  BY <1>5 DEF PointersAreFresh, LiveIsPointedAt
<1>7. card'.present
  <2>1. PICK initial \in InitialStates : card' = Swept(initial)
    BY DEF Restart, PointerInv
  <2> DEFINE c == Overlay([session |-> None], card)
             d == Overlay([state |-> initial, status |-> "interrupted"], c)
  <2>2. card \in Cards /\ c \in Cards
    BY RefreshFits, OverlayFits DEF TypeInv, TypeOK
  <2>3. c.present = card.present
    BY <2>2, OverlayField DEF Fields
  <2>4. card' = IF c.status \in Pending THEN d ELSE c
    BY <2>1 DEF Swept
  <2> HIDE DEF c
  <2>5. d.present = c.present
    BY <2>2, OverlayField DEF Fields
  <2> HIDE DEF d
  <2> QED
    BY <2>3, <2>4, <2>5 DEF PointerInv
<1> QED
  BY <1>2, <1>4, <1>6, <1>7 DEF PointerInv

\* At the start there is no session and nothing to write.
LEMMA InitPointer == Init => PointerInv
<1> SUFFICES ASSUME Init PROVE PointerInv
  OBVIOUS
<1>1. Settled
  BY DEF Init, Settled
<1>2. \A x \in Everyone : todo[x] = <<>>
  BY DEF Init, Everyone
<1>3. HooksAreSilent
  BY <1>2, SilentLists, SilentPoints DEF HooksAreSilent, Everyone
<1>4. Dispatched = {}
  BY DEF Init, Dispatched, Wanted, Alive, None
<1>5. card.present
  BY DEF Init, Fresh
<1> QED
  BY <1>1, <1>3, <1>4, <1>5 DEF PointerInv, PointersAreFresh, LiveIsPointedAt

\* The invariant implies what the card promises.
LEMMA PointerLeads ==
  ASSUME TypeInv, NoResumption, PointerInv
  PROVE  NoOrphan
<1> SUFFICES ASSUME \A r \in Request : Free(r), NEW s \in Wanted
             PROVE  doing[s].action # None /\ card.session = s
  BY DEF NoOrphan
<1>1. s \in Dispatched /\ s \in Session /\ phase[s] \in Alive
  BY DEF Dispatched, Wanted, NoResumption
<1>2. \A r \in Request : ~Points(todo[r], s)
  BY SilentLists, SilentPoints DEF Free
<1>3. card.session = s
  BY <1>1, <1>2 DEF PointerInv, LiveIsPointedAt
<1>4. doing[s].action # None
  BY <1>1 DEF TypeInv, JobsNamed, Alive, None
<1> QED
  BY <1>3, <1>4

\* As long as no two threads are between the guard and the pointer at a time, the
\* chat button of a card leads to the session that is live on it whenever no thread
\* is busy: with any number of threads, sessions and restarts, whatever is sent to
\* the session, and whatever its hooks, the refresh and the other endpoints do to
\* the card meanwhile.
THEOREM AloneNoOrphan ==
  ASSUME Endpoints \cap {"continue", "delete"} = {}
  PROVE  Spec /\ []Alone => []NoOrphan
<1>0. "continue" \notin Endpoints
  OBVIOUS
<1>1. /\ Alone /\ TypeInv /\ NoResumption /\ SessionInv /\ PointerInv
      /\ [Next]_vars
      => PointerInv'
  <2> SUFFICES ASSUME Alone, TypeInv, NoResumption, SessionInv, PointerInv, [Next]_vars
               PROVE  PointerInv'
    OBVIOUS
  <2>1. CASE UNCHANGED vars
    BY <2>1, CardPointer DEF vars, PointerInv
  <2>2. ASSUME NEW x \in Request \cup Session, Write(x) PROVE PointerInv'
    BY <2>2, WritePointer DEF Everyone
  <2> QED
    BY <1>0, <2>1, <2>2, EndpointPointer, ThreadPointer, CoroutinePointer, RefreshPointer,
       RestartPointer DEF Next
<1>2. TypeInv /\ [Next]_vars => TypeInv'
  BY StutterTypes, WriteTypes, EndpointTypes, ThreadTypes, CoroutineTypes,
     RefreshTypes, RestartTypes DEF Next
<1>3. Alone => Serial
  BY DEF Alone, Busy, Serial
<1>4. TypeInv /\ NoResumption /\ PointerInv => NoOrphan
  BY PointerLeads
<1> QED
  BY <1>0, InitTypes, InitPointer, NeverResumed, SessionInvariant, <1>1, <1>2, <1>3, <1>4, PTL
     DEF Spec

\* With one thread nothing has to be assumed of the interleaving.
THEOREM OneThreadNoOrphan ==
  ASSUME Endpoints \cap {"continue", "delete"} = {}, \A r, q \in Request : r = q
  PROVE  Spec => []NoOrphan /\ []OneLiveSession
<1>0. "continue" \notin Endpoints
  OBVIOUS
<1>1. Alone /\ Serial
  BY DEF Alone, Serial
<1> QED
  BY <1>0, <1>1, AloneNoOrphan, SerialOneLive, PTL
=============================================================================
