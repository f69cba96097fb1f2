------------------------------ MODULE Sessions ------------------------------
(***************************************************************************)
(* The Claude session manager (repobot/sessions.py).                       *)
(*                                                                         *)
(* Every session is one coroutine, _run_session, on the sessions loop; a   *)
(* semaphore bounds how many of them may use the SDK at once.  Request and *)
(* worker threads reach a session from outside: they start it, post user   *)
(* messages to its queue, ask it to abort, and resize the semaphore.  The  *)
(* coroutine's await points are the values of pc; the threads' accesses to *)
(* `status` interleave with them at every step.                            *)
(*                                                                         *)
(*   unborn -> scheduled -> acquire -> granted, or wait -> woken,          *)
(*     -> connect -> turn -> top -> get -> acquire -> ... -> turn -> ...   *)
(*     -> exit -> done, and connect, turn, exit -> done on an exception.   *)
(***************************************************************************)
EXTENDS Integers, Sequences, FiniteSets

CONSTANTS
  Session,      \* the sessions that may ever be started
  Item,         \* the work items (cards) sessions are bound to
  Kind,         \* the kinds of sessions: "action", "triage"
  ItemOf,       \* item_id of a session
  KindOf,       \* kind of a session
  InitialCap,   \* _max_concurrent() when the loop starts
  NewCaps,      \* values the user may later set the cap to ({}: none)
  MaxMessages,  \* bound: user messages sent, over all sessions
  MaxAborts     \* bound: calls of abort_sessions_for_item

ASSUME SessionsAssumption ==
  /\ IsFiniteSet(Session)
  /\ ItemOf \in [Session -> Item]
  /\ KindOf \in [Session -> Kind]
  /\ InitialCap \in Nat \ {0}
  /\ NewCaps \subseteq Nat \ {0}
  /\ MaxMessages \in Nat
  /\ MaxAborts \in Nat

VARIABLES
  pc,             \* where a session's coroutine is
  status,         \* SessionState.status, as the other threads see it
  acquired,       \* the coroutine's local `acquired`
  firstTurnDone,  \* the event _first_turn_done is set
  userQueue,      \* _user_queue
  posted,         \* puts handed to the loop that have not run yet
  targets,        \* sessions an abort call collected, status not yet flipped
  permits,        \* the semaphore's _value
  waiters,        \* those of its _waiters that it has not woken
  cap,            \* the cap the user configured last
  issued,         \* history: slots the semaphore was ever given
  messages,       \* bound counter: user messages sent
  aborts          \* bound counter: abort calls made

loopVars   == <<pc, status, acquired, firstTurnDone>>
queueVars  == <<userQueue, posted>>
semVars    == <<permits, waiters>>
capVars    == <<cap, issued>>
threadVars == <<targets, messages, aborts>>
vars == <<loopVars, queueVars, semVars, capVars, threadVars>>

Text  == "text"   \* a user follow-up; its words do not matter
Abort == "abort"  \* _ABORT_SENTINEL

PCs == {"unborn", "scheduled", "acquire", "wait", "woken", "granted",
        "connect", "turn", "top", "get", "exit", "done"}

Statuses == {"none", "queued", "starting", "running", "idle",
             "closing", "closed", "error"}

Over == {"closed", "closing", "error"}

\* What dispatch, refresh and triage count as a live session (runner.py:47-75).
LiveStatus == {"queued", "starting", "running", "idle"}

HasQueue(s) == pc[s] \notin {"unborn", "scheduled"}

Messages(q) == {i \in DOMAIN q : q[i] = Text}
-----------------------------------------------------------------------------
(* asyncio.Semaphore (Python 3.11+).  A permit released while somebody     *)
(* waits is taken on behalf of the longest waiter, so it never becomes     *)
(* visible.  Who is woken stays in line until its coroutine runs, and      *)
(* until then nobody is let past it, even beside a free permit; when it    *)
(* runs it wakes as many as there are permits by then.                     *)

\* Mutant: the value itself is not looked at.
NoPermitUnlessLine == waiters # <<>>

InLine == waiters # <<>> \/ \E s \in Session : pc[s] = "woken"

NoPermit == permits = 0 \/ InLine

\* The coroutines a batch of n permits wakes, and what it leaves.
Served(n)  == IF n < Len(waiters) THEN n ELSE Len(waiters)
Woken(n)   == {waiters[i] : i \in 1..Served(n)}
Wake(n, locations) ==
  [s \in Session |-> IF s \in Woken(n) THEN "woken" ELSE locations[s]]

\* n permits are new, or were free already.
Release(n) ==
  /\ permits' = permits + (n - Served(n))
  /\ waiters' = SubSeq(waiters, Served(n) + 1, Len(waiters))

PassOn ==
  /\ permits' = permits - Served(permits)
  /\ waiters' = SubSeq(waiters, Served(permits) + 1, Len(waiters))

\* Mutant: `acquired` is not reset when the slot goes back.
LeaveSlotNoReset(s, next) ==
  LET n == IF acquired[s] THEN 1 ELSE 0
  IN /\ pc' = Wake(n, [pc EXCEPT ![s] = next])
     /\ Release(n)
     /\ UNCHANGED acquired

\* Mutant: the slot never goes back.
LeaveSlotLost(s, next) ==
  /\ pc' = [pc EXCEPT ![s] = next]
  /\ acquired' = [acquired EXCEPT ![s] = FALSE]
  /\ UNCHANGED semVars

\* The coroutine of s moves to pc `next`, giving up its slot if it holds one.
LeaveSlot(s, next) ==
  LET n == IF acquired[s] THEN 1 ELSE 0
  IN /\ pc' = Wake(n, [pc EXCEPT ![s] = next])
     /\ acquired' = [acquired EXCEPT ![s] = FALSE]
     /\ Release(n)
-----------------------------------------------------------------------------
Init ==
  /\ pc = [s \in Session |-> "unborn"]
  /\ status = [s \in Session |-> "none"]
  /\ acquired = [s \in Session |-> FALSE]
  /\ firstTurnDone = [s \in Session |-> FALSE]
  /\ userQueue = [s \in Session |-> <<>>]
  /\ posted = [s \in Session |-> <<>>]
  /\ targets = {}
  /\ permits = InitialCap
  /\ waiters = <<>>
  /\ cap = InitialCap
  /\ issued = InitialCap
  /\ messages = 0
  /\ aborts = 0
-----------------------------------------------------------------------------
(* The steps of the coroutine, from one await to the next.                 *)

\* _run_session begins: queue and event exist, the status is set again.
Begin(s) ==
  /\ pc[s] = "scheduled"
  /\ pc' = [pc EXCEPT ![s] = "acquire"]
  /\ status' = [status EXCEPT ![s] = "queued"]
  /\ UNCHANGED <<acquired, firstTurnDone, queueVars, semVars, capVars, threadVars>>

\* Mutant: a newcomer is put in front of those who wait already.
AcquireBarging(s) ==
  /\ pc[s] = "acquire"
  /\ \/ /\ ~NoPermit
        /\ permits' = permits - 1
        /\ pc' = [pc EXCEPT ![s] = "granted"]
        /\ UNCHANGED waiters
     \/ /\ NoPermit
        /\ waiters' = <<s>> \o waiters
        /\ pc' = [pc EXCEPT ![s] = "wait"]
        /\ UNCHANGED permits
  /\ UNCHANGED <<status, acquired, firstTurnDone, queueVars, capVars, threadVars>>

\* sem.acquire(): take a permit, or join the waiters.
Acquire(s) ==
  /\ pc[s] = "acquire"
  /\ \/ /\ ~NoPermit
        /\ permits' = permits - 1
        /\ pc' = [pc EXCEPT ![s] = "granted"]
        /\ UNCHANGED waiters
     \/ /\ NoPermit
        /\ waiters' = Append(waiters, s)
        /\ pc' = [pc EXCEPT ![s] = "wait"]
        /\ UNCHANGED permits
  /\ UNCHANGED <<status, acquired, firstTurnDone, queueVars, capVars, threadVars>>

\* The slot is ours: connect before the first turn, or run the follow-up.
Resumed(s) == IF firstTurnDone[s] THEN "turn" ELSE "connect"

Resume(s) ==
  /\ \/ /\ pc[s] = "granted"
        /\ pc' = [pc EXCEPT ![s] = Resumed(s)]
        /\ UNCHANGED semVars
     \/ /\ pc[s] = "woken"
        /\ pc' = Wake(permits, [pc EXCEPT ![s] = Resumed(s)])
        /\ PassOn
  /\ acquired' = [acquired EXCEPT ![s] = TRUE]
  /\ status' = [status EXCEPT ![s] = IF firstTurnDone[s] THEN "running" ELSE "starting"]
  /\ UNCHANGED <<firstTurnDone, queueVars, capVars, threadVars>>

\* The SDK client is up: run the first turn; a session reopened without a
\* message (resume_session) has none.  Which of the two it is was settled when
\* it started, but nothing before this point depends on it.
Connect(s) ==
  /\ pc[s] = "connect"
  /\ \/ /\ pc' = [pc EXCEPT ![s] = "top"]
        /\ status' = [status EXCEPT ![s] = "idle"]
        /\ firstTurnDone' = [firstTurnDone EXCEPT ![s] = TRUE]
     \/ /\ pc' = [pc EXCEPT ![s] = "turn"]
        /\ status' = [status EXCEPT ![s] = "running"]
        /\ UNCHANGED firstTurnDone
  /\ UNCHANGED <<acquired, queueVars, semVars, capVars, threadVars>>

\* A turn ends: hooks run, and after the first the waiting caller is released.
EndTurn(s) ==
  /\ pc[s] = "turn"
  /\ pc' = [pc EXCEPT ![s] = "top"]
  /\ firstTurnDone' = [firstTurnDone EXCEPT ![s] = TRUE]
  /\ UNCHANGED <<status, acquired, queueVars, semVars, capVars, threadVars>>

\* Top of the follow-up loop: idle, and the slot goes back.
Park(s) ==
  /\ pc[s] = "top"
  /\ status' = [status EXCEPT ![s] = "idle"]
  /\ LeaveSlot(s, "get")
  /\ UNCHANGED <<firstTurnDone, queueVars, capVars, threadVars>>

\* Mutant: a follow-up runs without taking a slot again.
TakeNoSlot(s) ==
  /\ pc[s] = "get"
  /\ userQueue[s] # <<>>
  /\ userQueue' = [userQueue EXCEPT ![s] = Tail(@)]
  /\ pc' = [pc EXCEPT ![s] = IF Head(userQueue[s]) = Abort THEN "exit" ELSE "turn"]
  /\ UNCHANGED <<status, acquired, firstTurnDone, posted, semVars, capVars, threadVars>>

\* The queue yields a follow-up, which needs a slot again, or the sentinel.
Take(s) ==
  /\ pc[s] = "get"
  /\ userQueue[s] # <<>>
  /\ userQueue' = [userQueue EXCEPT ![s] = Tail(@)]
  /\ \/ /\ Head(userQueue[s]) = Abort
        /\ pc' = [pc EXCEPT ![s] = "exit"]
        /\ UNCHANGED status
     \/ /\ Head(userQueue[s]) # Abort
        /\ pc' = [pc EXCEPT ![s] = "acquire"]
        /\ status' = [status EXCEPT ![s] = "queued"]
  /\ UNCHANGED <<acquired, firstTurnDone, posted, semVars, capVars, threadVars>>

\* wait_for(..., IDLE_TIMEOUT_SEC) expires.
IdleTimeout(s) ==
  /\ pc[s] = "get"
  /\ userQueue[s] = <<>>
  /\ pc' = [pc EXCEPT ![s] = "exit"]
  /\ UNCHANGED <<status, acquired, firstTurnDone, queueVars, semVars, capVars, threadVars>>

\* The client has disconnected; the finally block closes the session.
Close(s) ==
  /\ pc[s] = "exit"
  /\ status' = [status EXCEPT ![s] = "closed"]
  /\ LeaveSlot(s, "done")
  /\ UNCHANGED <<firstTurnDone, queueVars, capVars, threadVars>>

\* Mutant: an exception does not release the caller waiting for the first turn.
FailUnsignalled(s) ==
  /\ pc[s] \in {"connect", "turn", "exit"}
  /\ status' = [status EXCEPT ![s] = "error"]
  /\ LeaveSlot(s, "done")
  /\ UNCHANGED <<firstTurnDone, queueVars, capVars, threadVars>>

\* Mutant: the status is left as it was when the coroutine dies.
FailSilently(s) ==
  /\ pc[s] \in {"connect", "turn", "exit"}
  /\ firstTurnDone' = [firstTurnDone EXCEPT ![s] = TRUE]
  /\ LeaveSlot(s, "done")
  /\ UNCHANGED <<status, queueVars, capVars, threadVars>>

\* Connecting, a turn or disconnecting raises: except, then finally.
Fail(s) ==
  /\ pc[s] \in {"connect", "turn", "exit"}
  /\ status' = [status EXCEPT ![s] = "error"]
  /\ firstTurnDone' = [firstTurnDone EXCEPT ![s] = TRUE]
  /\ LeaveSlot(s, "done")
  /\ UNCHANGED <<queueVars, capVars, threadVars>>
-----------------------------------------------------------------------------
(* The steps of the other threads.                                         *)

\* start_session, resume_session: registered as "queued", then scheduled.
StartSession(s) ==
  /\ pc[s] = "unborn"
  /\ pc' = [pc EXCEPT ![s] = "scheduled"]
  /\ status' = [status EXCEPT ![s] = "queued"]
  /\ UNCHANGED <<acquired, firstTurnDone, queueVars, semVars, capVars, threadVars>>

\* send_user_message: refused when over or without a queue, else posted.
SendUserMessage(s) ==
  /\ messages < MaxMessages
  /\ HasQueue(s)
  /\ status[s] \notin Over
  /\ posted' = [posted EXCEPT ![s] = Append(@, Text)]
  /\ messages' = messages + 1
  /\ UNCHANGED <<loopVars, userQueue, semVars, capVars, targets, aborts>>

\* A put scheduled by another thread runs on the loop.
Deliver(s) ==
  /\ posted[s] # <<>>
  /\ userQueue' = [userQueue EXCEPT ![s] = Append(@, Head(posted[s]))]
  /\ posted' = [posted EXCEPT ![s] = Tail(@)]
  /\ UNCHANGED <<loopVars, semVars, capVars, threadVars>>

\* abort_sessions_for_item, under the lock: the item's sessions of these kinds
\* that are not over and have a queue.
AbortTargets(i, kinds) ==
  {s \in Session : /\ ItemOf[s] = i /\ KindOf[s] \in kinds
                   /\ HasQueue(s) /\ status[s] \notin Over}

CollectTargets(i, kinds) ==
  /\ aborts < MaxAborts
  /\ AbortTargets(i, kinds) # {}
  /\ targets' = targets \cup AbortTargets(i, kinds)
  /\ aborts' = aborts + 1
  /\ UNCHANGED <<loopVars, queueVars, semVars, capVars, messages>>

\* Mutant: the status is flipped, but the sentinel is never posted.
SignalTargetOnlyFlips(s) ==
  /\ s \in targets
  /\ targets' = targets \ {s}
  /\ status' = [status EXCEPT ![s] = "closing"]
  /\ UNCHANGED <<pc, acquired, firstTurnDone, queueVars, semVars, capVars, messages, aborts>>

\* ... and, the lock released, each is flipped to "closing" and told to stop.
SignalTarget(s) ==
  /\ s \in targets
  /\ targets' = targets \ {s}
  /\ status' = [status EXCEPT ![s] = "closing"]
  /\ posted' = [posted EXCEPT ![s] = Append(@, Abort)]
  /\ UNCHANGED <<pc, acquired, firstTurnDone, userQueue, semVars, capVars, messages, aborts>>

\* resize_semaphore: the delta is taken from the free permits.  A positive one
\* is released; a negative one is not applied (wait_for(acquire(), timeout=0)
\* cancels the acquire before it starts, and the loop breaks).
Delta(c) == IF c > permits THEN c - permits ELSE 0

\* Mutant: the value is raised behind the back of those who wait.
ResizeValueOnly(c) ==
  /\ cap' = c
  /\ issued' = issued + Delta(c)
  /\ permits' = permits + Delta(c)
  /\ UNCHANGED <<pc, waiters, status, acquired, firstTurnDone, queueVars, threadVars>>

ResizeSemaphore(c) ==
  /\ cap' = c
  /\ issued' = issued + Delta(c)
  /\ pc' = Wake(Delta(c), pc)
  /\ Release(Delta(c))
  /\ UNCHANGED <<status, acquired, firstTurnDone, queueVars, threadVars>>
-----------------------------------------------------------------------------
Runs(s) ==
  \/ Begin(s) \/ Acquire(s) \/ Resume(s) \/ Connect(s) \/ EndTurn(s)
  \/ Park(s) \/ Take(s) \/ Close(s) \/ Fail(s)

Coroutine(s) == Runs(s) \/ IdleTimeout(s)

Threads ==
  \/ \E s \in Session :
        StartSession(s) \/ SendUserMessage(s) \/ Deliver(s) \/ SignalTarget(s)
  \/ \E i \in Item, kinds \in {Kind} \cup {{k} : k \in Kind} : CollectTargets(i, kinds)
  \/ \E c \in NewCaps : ResizeSemaphore(c)

Next == Threads \/ \E s \in Session : Coroutine(s)

Spec == Init /\ [][Next]_vars

\* The loop runs every ready coroutine and callback; a thread that collected
\* targets goes on to signal them; an SDK call ends (max_turns bounds a turn).
\* That an idle session times out is not assumed: nothing here needs it.
Fairness ==
  \A s \in Session : /\ WF_vars(Runs(s))
                     /\ WF_vars(Deliver(s))
                     /\ WF_vars(SignalTarget(s))

FairSpec == Spec /\ Fairness
-----------------------------------------------------------------------------
(* Properties.                                                             *)

\* Every variable keeps its type.
TypeOK ==
  /\ pc \in [Session -> PCs]
  /\ status \in [Session -> Statuses]
  /\ acquired \in [Session -> BOOLEAN]
  /\ firstTurnDone \in [Session -> BOOLEAN]
  /\ userQueue \in [Session -> Seq({Text, Abort})]
  /\ posted \in [Session -> Seq({Text, Abort})]
  /\ targets \subseteq Session
  /\ permits \in Nat
  /\ waiters \in Seq(Session)
  /\ cap \in Nat
  /\ issued \in Nat
  /\ messages \in Nat
  /\ aborts \in Nat

\* The sessions a permit was given to and not taken back from, those woken with
\* one and not run again included.
Holders == {s \in Session : pc[s] \in {"woken", "granted", "connect", "turn", "top"}}

\* No slot is lost or made: whatever fails, is aborted or times out, the free
\* permits and the sessions holding one add up to the slots ever issued.  A
\* path of _run_session that returned its slot twice, or never, breaks this.
SlotConservation == permits + Cardinality(Holders) = issued

\* An SDK client connects and runs only in a slot, and a session parked for a
\* follow-up, leaving or over holds none (the `acquired` local tells the truth).
SlotDiscipline ==
  \A s \in Session : acquired[s] <=> pc[s] \in {"connect", "turn", "top"}

\* Nobody waits beside a free slot, unless for a coroutine that is about to run
\* and hands the slot on; and the semaphore's waiters are exactly the coroutines
\* blocked in acquire(), each once.
WaitOnlyWhenFull ==
  /\ waiters # <<>> => permits = 0 \/ \E s \in Session : pc[s] = "woken"
  /\ {waiters[i] : i \in DOMAIN waiters} = {s \in Session : pc[s] = "wait"}
  /\ \A i, j \in DOMAIN waiters : waiters[i] = waiters[j] => i = j

\* Where the user leaves the cap alone (NewCaps = {}), no more sessions than it
\* allows are at the SDK at once: README, "Global cap on live Claude sessions".
AtMostCap == Cardinality({s \in Session : pc[s] \in {"connect", "turn"}}) <= cap

\* A session whose coroutine has ended never looks live again, whatever abort
\* calls were under way: a live status blocks dispatch and triage of its item.
DoneIsOver == \A s \in Session : pc[s] = "done" => status[s] \in Over

\* The limiter implements the pool of SlotPool: at most `issued` sessions hold
\* a slot, in the order they asked, also across a resize.  A free permit is as
\* good as held by whoever stands first in line beside it.
Pool == INSTANCE SlotPool WITH
          Client <- Session, InitialSize <- InitialCap,
          size <- issued, working <- Holders \cup Woken(permits),
          line <- SubSeq(waiters, Served(permits) + 1, Len(waiters))

PoolSpec == Pool!PoolSpec

\* run_session_blocking returns: the first turn of a started session ends or
\* fails, however many sessions compete for the slots.
FirstTurnSignalled ==
  \A s \in Session : pc[s] = "scheduled" ~> firstTurnDone[s]

\* A session that abort_sessions_for_item collected ends, whatever it was doing
\* and whatever messages are queued before the sentinel.
AbortEndsSession ==
  \A s \in Session : s \in targets ~> pc[s] = "done"

\* A follow-up has been taken from the queue and its turn has no slot yet.
Resuming(s) == firstTurnDone[s] /\ pc[s] \in {"acquire", "wait", "woken", "granted"}

Unserved(s) == Messages(posted[s]) # {} \/ Messages(userQueue[s]) # {} \/ Resuming(s)

\* A follow-up that was accepted gets its turn, in a slot of its own (sessions.py:
\* 735-744), however many other sessions and follow-ups compete for the slots, or
\* the session is over.
FollowUpServed ==
  \A s \in Session : Unserved(s) ~> (~Unserved(s) \/ pc[s] = "done")

\* What resize_semaphore's docstring promises (sessions.py:84-86): "existing
\* holders won't be pre-empted, but new acquires will see the smaller cap once
\* holders release".  Whoever takes a slot finds at most `cap` of them taken.
NewAcquiresSeeCap ==
  [][\A s \in Session :
       s \in Holders' /\ s \notin Holders /\ UNCHANGED cap
         => Cardinality(Holders') <= cap]_vars
=============================================================================
