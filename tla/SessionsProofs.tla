--------------------------- MODULE SessionsProofs ---------------------------
(***************************************************************************)
(* Proofs about the session manager, for every set of sessions and items,  *)
(* every initial cap, every set of caps the user may choose and every      *)
(* bound.  The inductive invariant is the conjunction of the five          *)
(* invariants the runs check: conserving the slots needs to know that a    *)
(* coroutine holds one exactly where SlotDiscipline says, and that a       *)
(* release wakes somebody who waits, which is WaitOnlyWhenFull.            *)
(***************************************************************************)
EXTENDS Sessions, FiniteSetTheorems, SequenceTheorems, TLAPS

IInv ==
  /\ TypeOK
  /\ SlotDiscipline
  /\ SlotConservation
  /\ WaitOnlyWhenFull
  /\ DoneIsOver

Waiting == {waiters[i] : i \in DOMAIN waiters}

\* The first k elements of a sequence without repetitions are k in number.
LEMMA PrefixCardinality ==
  ASSUME NEW S, NEW q \in Seq(S), NEW k \in 0..Len(q),
         \A i, j \in DOMAIN q : q[i] = q[j] => i = j
  PROVE  Cardinality({q[i] : i \in 1..k}) = k
<1> DEFINE T == {q[i] : i \in 1..k}
           f == [i \in 1..k |-> q[i]]
<1>1. 1..k \subseteq DOMAIN q
  OBVIOUS
<1>2. f \in Bijection(1..k, T)
  BY <1>1 DEF Bijection, Injection, IsInjective, Surjection
<1>3. ExistsBijection(1..k, T)
  BY <1>2 DEF ExistsBijection
<1> QED
  BY <1>3, FS_CountingElements

\* What handing on n permits does: it wakes Served(n) distinct waiters, keeps the
\* others in order, and leaves one of the n only if nobody waits any more.
LEMMA ServeEffect ==
  ASSUME TypeOK, WaitOnlyWhenFull, NEW n \in Nat,
         waiters' = SubSeq(waiters, Served(n) + 1, Len(waiters))
  PROVE  /\ Served(n) \in 0..Len(waiters) /\ Served(n) <= n
         /\ waiters' \in Seq(Session)
         /\ Woken(n) \subseteq Waiting
         /\ Cardinality(Woken(n)) = Served(n)
         /\ {waiters'[i] : i \in DOMAIN waiters'} = Waiting \ Woken(n)
         /\ \A i, j \in DOMAIN waiters' : waiters'[i] = waiters'[j] => i = j
         /\ waiters' # <<>> => waiters # <<>> /\ Served(n) = n
<1> DEFINE k == Served(n)
           L == Len(waiters)
<1>1. /\ waiters \in Seq(Session) /\ permits \in Nat /\ L \in Nat
      /\ DOMAIN waiters = 1..L
  BY DEF TypeOK
<1>2. k \in 0..L /\ k <= n /\ (k < L => k = n)
  <2>1. L \in Nat
    BY <1>1
  <2> QED
    BY <2>1 DEF Served
<1>3. Cardinality(Woken(n)) = k
  BY <1>1, <1>2, PrefixCardinality DEF Woken, WaitOnlyWhenFull
<1>4. Woken(n) \subseteq Waiting
  BY <1>1, <1>2 DEF Woken, Waiting
<1>6. /\ waiters' \in Seq(Session) /\ Len(waiters') = L - k
      /\ \A i \in 1..(L - k) : waiters'[i] = waiters[k + i]
  BY <1>1, <1>2
<1>7. DOMAIN waiters' = 1..(L - k)
  BY <1>6
<1>8. \A i, j \in DOMAIN waiters' : waiters'[i] = waiters'[j] => i = j
  <2>1. SUFFICES ASSUME NEW i \in 1..(L - k), NEW j \in 1..(L - k),
                        waiters[k + i] = waiters[k + j]
                 PROVE  i = j
    BY <1>6, <1>7
  <2>2. k + i \in 1..L /\ k + j \in 1..L
    BY <1>1, <1>2
  <2>3. k + i = k + j
    BY <1>1, <2>1, <2>2 DEF WaitOnlyWhenFull
  <2> QED
    BY <1>1, <1>2, <2>3
<1>9. {waiters'[i] : i \in DOMAIN waiters'} = Waiting \ Woken(n)
  <2>1. ASSUME NEW i \in 1..(L - k)
        PROVE  waiters'[i] \in Waiting \ Woken(n)
    <3>1. k + i \in 1..L
      BY <1>1, <1>2
    <3>2. ASSUME NEW j \in 1..k, waiters[j] = waiters[k + i]
          PROVE  FALSE
      <4>1. j \in 1..L
        BY <1>1, <1>2
      <4>2. j = k + i
        BY <1>1, <3>1, <3>2, <4>1 DEF WaitOnlyWhenFull
      <4> QED
        BY <1>1, <1>2, <4>2
    <3> QED
      BY <1>1, <1>6, <3>1, <3>2 DEF Waiting, Woken
  <2>2. ASSUME NEW j \in 1..L, waiters[j] \notin Woken(n)
        PROVE  \E i \in 1..(L - k) : waiters'[i] = waiters[j]
    <3>1. j > k
      BY <1>1, <1>2, <2>2 DEF Woken
    <3>2. j - k \in 1..(L - k) /\ waiters'[j - k] = waiters[j]
      BY <1>1, <1>2, <1>6, <3>1
    <3> QED
      BY <3>2
  <2> QED
    BY <1>1, <1>7, <2>1, <2>2 DEF Waiting
<1>10. waiters' # <<>> => waiters # <<>> /\ k = n
  <2>1. SUFFICES ASSUME waiters' # <<>> PROVE waiters # <<>> /\ k = n
    OBVIOUS
  <2>2. L - k > 0
    BY <1>1, <1>2, <1>6, <2>1
  <2> QED
    BY <1>1, <1>2, <2>2
<1> QED
  BY <1>2, <1>3, <1>4, <1>6, <1>8, <1>9, <1>10

\* Nobody is left waiting beside a permit that was released.
LEMMA LineStaysServed ==
  ASSUME TypeOK, WaitOnlyWhenFull, NEW n \in Nat, Release(n), waiters' # <<>>
  PROVE  waiters # <<>> /\ permits' = permits
<1>1. /\ permits \in Nat /\ permits' = permits + (n - Served(n))
      /\ waiters' = SubSeq(waiters, Served(n) + 1, Len(waiters))
  BY DEF Release, TypeOK
<1>2. waiters # <<>> /\ Served(n) = n
  BY <1>1, ServeEffect
<1> QED
  BY <1>1, <1>2

\* The holders are finite in number.
LEMMA HoldersFinite ==
  IsFiniteSet(Holders) /\ Cardinality(Holders) \in Nat
<1>1. Holders \in SUBSET Session
  BY DEF Holders
<1>2. IsFiniteSet(Holders)
  BY <1>1, FS_Subset, SessionsAssumption
<1> QED
  BY <1>2, FS_CardinalityType

\* Replacing one holder, or none, by k others keeps count of them.
LEMMA HandOverCardinality ==
  ASSUME NEW H, IsFiniteSet(H), NEW s, NEW W, IsFiniteSet(W), W \cap H = {},
         NEW k \in Nat, Cardinality(W) = k
  PROVE  Cardinality((H \ {s}) \cup W) =
           (IF s \in H THEN Cardinality(H) - 1 ELSE Cardinality(H)) + k
<1>1. /\ IsFiniteSet(H \ {s})
      /\ Cardinality(H \ {s}) = IF s \in H THEN Cardinality(H) - 1 ELSE Cardinality(H)
      /\ Cardinality(H \ {s}) \in Nat
  BY FS_RemoveElement, FS_CardinalityType
<1>2. (H \ {s}) \cap W = {}
  OBVIOUS
<1>3. Cardinality((H \ {s}) \cup W) =
        Cardinality(H \ {s}) + Cardinality(W) - Cardinality((H \ {s}) \cap W)
  BY <1>1, FS_Union
<1>4. Cardinality((H \ {s}) \cap W) = 0
  BY <1>2, FS_EmptySet
<1> QED
  BY <1>1, <1>3, <1>4

\* A woken session was waiting, and is granted; no other location changes.
LEMMA WakeEffect ==
  ASSUME TypeOK, WaitOnlyWhenFull, NEW n \in Nat, Woken(n) \subseteq Waiting
  PROVE  /\ Woken(n) \subseteq {s \in Session : pc[s] = "wait"}
         /\ Woken(n) \cap Holders = {}
         /\ IsFiniteSet(Woken(n))
<1>1. Woken(n) \subseteq {s \in Session : pc[s] = "wait"}
  BY DEF WaitOnlyWhenFull, Waiting
<1>2. IsFiniteSet(Woken(n))
  BY <1>1, FS_Subset, SessionsAssumption
<1> QED
  BY <1>1, <1>2 DEF Holders

\* A coroutine that gives its slot up, or holds none, leaves the semaphore sound.
LEMMA LeaveSlotEffect ==
  ASSUME IInv, NEW s \in Session, pc[s] \notin {"woken", "granted", "wait"},
         NEW next \in {"get", "done"}, LeaveSlot(s, next), issued' = issued
  PROVE  /\ pc' \in [Session -> PCs] /\ acquired' \in [Session -> BOOLEAN]
         /\ permits' \in Nat /\ waiters' \in Seq(Session)
         /\ SlotDiscipline' /\ SlotConservation' /\ WaitOnlyWhenFull'
         /\ pc'[s] = next
         /\ \A t \in Session \ {s} : pc'[t] = "done" => pc[t] = "done"
<1> DEFINE n == IF acquired[s] THEN 1 ELSE 0
<1>0. /\ TypeOK /\ SlotDiscipline /\ SlotConservation /\ WaitOnlyWhenFull
      /\ n \in Nat /\ Release(n)
      /\ pc' = Wake(n, [pc EXCEPT ![s] = next])
      /\ acquired' = [acquired EXCEPT ![s] = FALSE]
  BY DEF IInv, LeaveSlot
<1> HIDE DEF n
<1>1. /\ permits' \in Nat /\ permits' = permits + n - Served(n)
      /\ Served(n) \in 0..Len(waiters)
      /\ waiters' \in Seq(Session)
      /\ Woken(n) \subseteq Waiting
      /\ Cardinality(Woken(n)) = Served(n)
      /\ {waiters'[i] : i \in DOMAIN waiters'} = Waiting \ Woken(n)
      /\ \A i, j \in DOMAIN waiters' : waiters'[i] = waiters'[j] => i = j
      /\ waiters' # <<>> => waiters # <<>> /\ permits' = permits
  <2>1. /\ permits \in Nat /\ permits' = permits + (n - Served(n))
        /\ waiters' = SubSeq(waiters, Served(n) + 1, Len(waiters))
    BY <1>0 DEF Release, TypeOK
  <2>2. waiters \in Seq(Session) /\ Len(waiters) \in Nat
    BY <1>0 DEF TypeOK
  <2>3. Served(n) \in 0..Len(waiters) /\ Served(n) <= n
    BY <1>0, <2>1, ServeEffect
  <2>4. permits' \in Nat /\ permits' = permits + n - Served(n)
    BY <1>0, <2>1, <2>2, <2>3
  <2> QED
    BY <1>0, <2>1, <2>3, <2>4, ServeEffect, LineStaysServed
<1>2. /\ Woken(n) \subseteq {t \in Session : pc[t] = "wait"}
      /\ Woken(n) \cap Holders = {}
      /\ IsFiniteSet(Woken(n))
  BY <1>0, <1>1, WakeEffect
<1>3. /\ pc' \in [Session -> PCs]
      /\ pc'[s] = next
      /\ \A t \in Session \ {s} :
            pc'[t] = IF t \in Woken(n) THEN "woken" ELSE pc[t]
  BY <1>0, <1>2 DEF Wake, TypeOK, PCs
<1>4. acquired' \in [Session -> BOOLEAN]
  BY <1>0 DEF TypeOK
<1>5. SlotDiscipline'
  BY <1>0, <1>2, <1>3 DEF SlotDiscipline, TypeOK
<1>6. WaitOnlyWhenFull'
  <2>1. Waiting \ Woken(n) = {t \in Session : pc'[t] = "wait"}
    BY <1>0, <1>3 DEF WaitOnlyWhenFull, Waiting
  <2>2. \A t \in Session : pc[t] = "woken" => pc'[t] = "woken"
    BY <1>3
  <2> QED
    BY <1>0, <1>1, <2>1, <2>2 DEF WaitOnlyWhenFull
<1>7. SlotConservation'
  <2>1. Holders' = (Holders \ {s}) \cup Woken(n)
    BY <1>2, <1>3 DEF Holders
  <2>2. s \in Holders <=> n = 1
    BY <1>0 DEF n, Holders, SlotDiscipline, TypeOK
  <2>3. n \in {0, 1} /\ Served(n) \in Nat /\ permits \in Nat
    BY <1>0, <1>1 DEF n, TypeOK
  <2>4. Cardinality(Holders') =
          (IF s \in Holders THEN Cardinality(Holders) - 1 ELSE Cardinality(Holders))
            + Served(n)
    <3>1. Woken(n) \cap Holders = {} /\ IsFiniteSet(Woken(n)) /\ IsFiniteSet(Holders)
      BY <1>2, HoldersFinite
    <3>2. Served(n) \in Nat /\ Cardinality(Woken(n)) = Served(n)
      BY <1>1, <2>3
    <3>3. Cardinality((Holders \ {s}) \cup Woken(n)) =
            (IF s \in Holders THEN Cardinality(Holders) - 1 ELSE Cardinality(Holders)) + Served(n)
      BY <3>1, <3>2, HandOverCardinality
    <3> QED
      BY <2>1, <3>3
  <2> QED
    BY <1>0, <1>1, <2>2, <2>3, <2>4, HoldersFinite DEF SlotConservation
<1>8. \A t \in Session \ {s} : pc'[t] = "done" => pc[t] = "done"
  BY <1>3
<1> QED
  BY <1>1, <1>3, <1>4, <1>5, <1>6, <1>7, <1>8

\* A step of a coroutine that leaves the semaphore alone and moves one session
\* between locations that hold a slot, or between locations that do not.
LEMMA QuietMove ==
  ASSUME IInv, NEW s \in Session, NEW next \in PCs, UNCHANGED <<semVars, issued>>,
         pc' = [pc EXCEPT ![s] = next], pc[s] \notin {"wait", "woken"},
         next \notin {"wait", "woken"},
         s \in Holders <=> next \in {"granted", "connect", "turn", "top"}
  PROVE  pc' \in [Session -> PCs] /\ SlotConservation' /\ WaitOnlyWhenFull'
<1>1. TypeOK /\ SlotConservation /\ WaitOnlyWhenFull
  BY DEF IInv
<1>2. pc' \in [Session -> PCs]
  BY <1>1 DEF TypeOK
<1>3. Holders' = Holders
  BY <1>1 DEF Holders, TypeOK
<1>4. {t \in Session : pc'[t] = "wait"} = {t \in Session : pc[t] = "wait"}
  BY <1>1 DEF TypeOK
<1>5. \A t \in Session : pc[t] = "woken" => pc'[t] = "woken"
  BY <1>1 DEF TypeOK
<1> QED
  BY <1>1, <1>2, <1>3, <1>4, <1>5 DEF SlotConservation, WaitOnlyWhenFull, semVars

\* acquire() takes a free permit or joins the line; both keep the invariant.
LEMMA AcquireInvariant ==
  ASSUME IInv, NEW s \in Session, Acquire(s)
  PROVE  IInv'
<1>1. TypeOK /\ SlotDiscipline /\ SlotConservation /\ WaitOnlyWhenFull /\ DoneIsOver
  BY DEF IInv
<1>2. pc[s] = "acquire" /\ issued' = issued
  BY DEF Acquire, capVars
<1>3. CASE /\ ~NoPermit /\ permits' = permits - 1
           /\ pc' = [pc EXCEPT ![s] = "granted"] /\ UNCHANGED waiters
  <2>1. permits \in Nat \ {0} /\ waiters = <<>>
    BY <1>1, <1>3 DEF NoPermit, InLine, TypeOK
  <2>2. Holders' = Holders \cup {s} /\ s \notin Holders
    BY <1>1, <1>2, <1>3 DEF Holders, TypeOK
  <2>3. SlotConservation'
    <3>1. Cardinality(Holders') = Cardinality(Holders) + 1
      BY <2>2, HoldersFinite, FS_AddElement
    <3> QED
      BY <1>1, <1>2, <1>3, <2>1, <3>1, HoldersFinite DEF SlotConservation
  <2>4. WaitOnlyWhenFull'
    <3>1. {t \in Session : pc'[t] = "wait"} = {t \in Session : pc[t] = "wait"}
      BY <1>1, <1>2, <1>3 DEF TypeOK
    <3> QED
      BY <1>1, <1>3, <2>1, <3>1 DEF WaitOnlyWhenFull
  <2>5. TypeOK'
    BY <1>1, <1>3, <2>1 DEF Acquire, TypeOK, PCs, queueVars, capVars, threadVars
  <2>6. SlotDiscipline' /\ DoneIsOver'
    BY <1>1, <1>2, <1>3 DEF Acquire, SlotDiscipline, DoneIsOver, TypeOK
  <2> QED
    BY <2>3, <2>4, <2>5, <2>6 DEF IInv
<1>4. CASE /\ NoPermit /\ waiters' = Append(waiters, s)
           /\ pc' = [pc EXCEPT ![s] = "wait"] /\ UNCHANGED permits
  <2>1. /\ waiters \in Seq(Session) /\ Len(waiters) \in Nat
        /\ DOMAIN waiters = 1..Len(waiters)
    BY <1>1 DEF TypeOK
  <2>2. /\ waiters' \in Seq(Session) /\ Len(waiters') = Len(waiters) + 1
        /\ DOMAIN waiters' = 1..(Len(waiters) + 1)
        /\ waiters'[Len(waiters) + 1] = s
        /\ \A i \in 1..Len(waiters) : waiters'[i] = waiters[i]
    BY <1>4, <2>1
  <2>3. \A i \in 1..Len(waiters) : waiters[i] # s
    BY <1>1, <1>2, <2>1 DEF WaitOnlyWhenFull
  <2>4. Holders' = Holders
    BY <1>1, <1>2, <1>4 DEF Holders, TypeOK
  <2>5. permits = 0 \/ \E t \in Session : pc'[t] = "woken"
    BY <1>1, <1>2, <1>4 DEF NoPermit, InLine, WaitOnlyWhenFull, TypeOK
  <2>6. {waiters'[i] : i \in DOMAIN waiters'} = {t \in Session : pc'[t] = "wait"}
    <3>1. {waiters'[i] : i \in DOMAIN waiters'} = Waiting \cup {s}
      BY <2>1, <2>2 DEF Waiting
    <3>2. {t \in Session : pc'[t] = "wait"} = {t \in Session : pc[t] = "wait"} \cup {s}
      BY <1>1, <1>4 DEF TypeOK
    <3> QED
      BY <1>1, <3>1, <3>2 DEF WaitOnlyWhenFull, Waiting
  <2>7. \A i, j \in DOMAIN waiters' : waiters'[i] = waiters'[j] => i = j
    <3>1. SUFFICES ASSUME NEW i \in 1..(Len(waiters) + 1), NEW j \in 1..(Len(waiters) + 1),
                          waiters'[i] = waiters'[j]
                   PROVE  i = j
      BY <2>2
    <3>2. CASE i \in 1..Len(waiters) /\ j \in 1..Len(waiters)
      <4>1. waiters[i] = waiters[j]
        BY <2>2, <3>1, <3>2
      <4> QED
        BY <1>1, <2>1, <3>2, <4>1 DEF WaitOnlyWhenFull
    <3>3. CASE i = Len(waiters) + 1 \/ j = Len(waiters) + 1
      BY <2>1, <2>2, <2>3, <3>1, <3>3
    <3> QED
      BY <2>1, <3>2, <3>3
  <2>8. WaitOnlyWhenFull' /\ SlotConservation'
    BY <1>1, <1>2, <1>4, <2>4, <2>5, <2>6, <2>7 DEF WaitOnlyWhenFull, SlotConservation
  <2>9. TypeOK'
    BY <1>1, <1>4, <2>2 DEF Acquire, TypeOK, PCs, queueVars, capVars, threadVars
  <2>10. SlotDiscipline' /\ DoneIsOver'
    BY <1>1, <1>2, <1>4 DEF Acquire, SlotDiscipline, DoneIsOver, TypeOK
  <2> QED
    BY <2>8, <2>9, <2>10 DEF IInv
<1> QED
  BY <1>3, <1>4 DEF Acquire

\* A resize only ever adds permits, and those wake the head of the line.
LEMMA ResizeInvariant ==
  ASSUME IInv, NEW c \in NewCaps, ResizeSemaphore(c)
  PROVE  IInv'
<1> DEFINE n == Delta(c)
<1>0. /\ TypeOK /\ SlotDiscipline /\ SlotConservation /\ WaitOnlyWhenFull /\ DoneIsOver
      /\ Release(n) /\ pc' = Wake(n, pc) /\ issued' = issued + n /\ cap' = c
      /\ UNCHANGED <<status, acquired, firstTurnDone, queueVars, threadVars>>
  BY DEF IInv, ResizeSemaphore
<1>1. n \in Nat /\ c \in Nat /\ issued \in Nat /\ permits \in Nat
  BY <1>0, SessionsAssumption DEF Delta, TypeOK
<1> HIDE DEF n
<1>2. /\ permits' \in Nat /\ permits' = permits + n - Served(n)
      /\ Served(n) \in 0..Len(waiters)
      /\ waiters' \in Seq(Session)
      /\ Woken(n) \subseteq Waiting
      /\ Cardinality(Woken(n)) = Served(n)
      /\ {waiters'[i] : i \in DOMAIN waiters'} = Waiting \ Woken(n)
      /\ \A i, j \in DOMAIN waiters' : waiters'[i] = waiters'[j] => i = j
      /\ waiters' # <<>> => waiters # <<>> /\ permits' = permits
  <2>1. /\ permits \in Nat /\ permits' = permits + (n - Served(n))
        /\ waiters' = SubSeq(waiters, Served(n) + 1, Len(waiters))
    BY <1>0 DEF Release, TypeOK
  <2>2. waiters \in Seq(Session) /\ Len(waiters) \in Nat
    BY <1>0 DEF TypeOK
  <2>3. Served(n) \in 0..Len(waiters) /\ Served(n) <= n
    BY <1>0, <1>1, <2>1, ServeEffect
  <2>4. permits' \in Nat /\ permits' = permits + n - Served(n)
    BY <1>1, <2>1, <2>2, <2>3
  <2> QED
    BY <1>0, <1>1, <2>1, <2>3, <2>4, ServeEffect, LineStaysServed
<1>3. /\ Woken(n) \subseteq {t \in Session : pc[t] = "wait"}
      /\ Woken(n) \cap Holders = {}
      /\ IsFiniteSet(Woken(n))
  BY <1>0, <1>1, <1>2, WakeEffect
<1>4. /\ pc' \in [Session -> PCs]
      /\ \A t \in Session : pc'[t] = IF t \in Woken(n) THEN "woken" ELSE pc[t]
  BY <1>0, <1>3 DEF Wake, TypeOK, PCs
<1>5. SlotConservation'
  <2>1. Holders' = Holders \cup Woken(n)
    BY <1>3, <1>4 DEF Holders
  <2>2. Cardinality(Holders \cap Woken(n)) = 0
    BY <1>3, FS_EmptySet
  <2>3. Cardinality(Holders \cup Woken(n)) =
          Cardinality(Holders) + Cardinality(Woken(n)) - Cardinality(Holders \cap Woken(n))
    BY <1>3, HoldersFinite, FS_Union
  <2>4. Cardinality(Holders') = Cardinality(Holders) + Served(n)
    BY <1>2, <2>1, <2>2, <2>3, HoldersFinite
  <2>5. permits' = permits + n - Served(n) /\ Served(n) \in 0..Len(waiters)
    BY <1>2
  <2>6. Len(waiters) \in Nat
    BY <1>0 DEF TypeOK
  <2>7. /\ permits + Cardinality(Holders) = issued /\ issued' = issued + n
        /\ Cardinality(Holders) \in Nat
    BY <1>0, HoldersFinite DEF SlotConservation
  <2>8. permits' + Cardinality(Holders') = issued'
    BY <1>1, <2>4, <2>5, <2>6, <2>7
  <2> QED
    BY <2>8 DEF SlotConservation
<1>6. WaitOnlyWhenFull'
  <2>1. Waiting \ Woken(n) = {t \in Session : pc'[t] = "wait"}
    BY <1>0, <1>4 DEF WaitOnlyWhenFull, Waiting
  <2>2. \A t \in Session : pc[t] = "woken" => pc'[t] = "woken"
    BY <1>4
  <2> QED
    BY <1>0, <1>2, <2>1, <2>2 DEF WaitOnlyWhenFull
<1>7. SlotDiscipline' /\ DoneIsOver'
  BY <1>0, <1>3, <1>4 DEF SlotDiscipline, DoneIsOver, TypeOK
<1>8. TypeOK'
  BY <1>0, <1>1, <1>2, <1>4 DEF TypeOK, queueVars, threadVars
<1> QED
  BY <1>5, <1>6, <1>7, <1>8 DEF IInv

\* The steps of a coroutine that give no slot up and ask for none.
LEMMA QuietInvariant ==
  ASSUME IInv, NEW s \in Session,
         \/ Begin(s) \/ (Resume(s) /\ pc[s] = "granted") \/ Connect(s) \/ EndTurn(s)
         \/ Take(s) \/ IdleTimeout(s) \/ StartSession(s)
  PROVE  IInv'
<1> USE DEF semVars, capVars, queueVars, threadVars
<1>0. TypeOK /\ SlotDiscipline /\ SlotConservation /\ WaitOnlyWhenFull /\ DoneIsOver
  BY DEF IInv
<1>1. PICK next \in PCs : /\ pc' = [pc EXCEPT ![s] = next]
                          /\ UNCHANGED <<semVars, issued>>
                          /\ pc[s] \notin {"wait", "woken"}
                          /\ next \notin {"wait", "woken", "done"}
                          /\ s \in Holders <=> next \in {"granted", "connect", "turn", "top"}
  BY <1>0 DEF Begin, Resume, Resumed, Connect, EndTurn, Take, IdleTimeout, StartSession, PCs,
              Holders, TypeOK
<1>2. pc' \in [Session -> PCs] /\ SlotConservation' /\ WaitOnlyWhenFull'
  BY <1>1, QuietMove
<1>3. SlotDiscipline' /\ DoneIsOver'
  BY <1>0, <1>1 DEF SlotDiscipline, DoneIsOver, TypeOK, Begin, Resume, Resumed, Connect, EndTurn,
                   Take, IdleTimeout, StartSession
<1>4. userQueue' \in [Session -> Seq({Text, Abort})]
  <2>1. CASE Take(s)
    <3>1. userQueue[s] \in Seq({Text, Abort}) /\ userQueue[s] # <<>>
      BY <1>0, <2>1 DEF TypeOK, Take
    <3>2. Tail(userQueue[s]) \in Seq({Text, Abort})
      BY <3>1
    <3> QED
      BY <1>0, <2>1, <3>2 DEF TypeOK, Take
  <2>2. CASE ~Take(s)
    BY <1>0, <2>2 DEF TypeOK, Begin, Resume, Connect, EndTurn, IdleTimeout, StartSession
  <2> QED
    BY <2>1, <2>2
<1>5. TypeOK'
  BY <1>0, <1>1, <1>2, <1>4 DEF TypeOK, Statuses, Begin, Resume, Connect, EndTurn, Take,
                               IdleTimeout, StartSession
<1> QED
  BY <1>2, <1>3, <1>5 DEF IInv

\* Who was woken runs, and wakes those who stand beside a free permit.
LEMMA WokenInvariant ==
  ASSUME IInv, NEW s \in Session, Resume(s), pc[s] = "woken"
  PROVE  IInv'
<1> DEFINE n == permits
<1>0. /\ TypeOK /\ SlotDiscipline /\ SlotConservation /\ WaitOnlyWhenFull /\ DoneIsOver
      /\ n \in Nat /\ PassOn
      /\ pc' = Wake(n, [pc EXCEPT ![s] = Resumed(s)])
      /\ acquired' = [acquired EXCEPT ![s] = TRUE]
      /\ status' = [status EXCEPT ![s] = IF firstTurnDone[s] THEN "running" ELSE "starting"]
      /\ UNCHANGED <<firstTurnDone, queueVars, capVars, threadVars>>
  BY DEF IInv, Resume, TypeOK
<1>1. /\ permits' = n - Served(n)
      /\ Served(n) \in 0..Len(waiters) /\ Served(n) <= n
      /\ waiters' \in Seq(Session)
      /\ Woken(n) \subseteq Waiting
      /\ Cardinality(Woken(n)) = Served(n)
      /\ {waiters'[i] : i \in DOMAIN waiters'} = Waiting \ Woken(n)
      /\ \A i, j \in DOMAIN waiters' : waiters'[i] = waiters'[j] => i = j
      /\ waiters' # <<>> => Served(n) = n
  BY <1>0, ServeEffect DEF PassOn
<1>2. /\ Woken(n) \subseteq {t \in Session : pc[t] = "wait"}
      /\ Woken(n) \cap Holders = {}
      /\ IsFiniteSet(Woken(n))
  BY <1>0, <1>1, WakeEffect
<1>3. /\ pc' \in [Session -> PCs]
      /\ pc'[s] \in {"turn", "connect"} /\ s \notin Woken(n)
      /\ \A t \in Session \ {s} :
            pc'[t] = IF t \in Woken(n) THEN "woken" ELSE pc[t]
  BY <1>0, <1>2 DEF Wake, Resumed, TypeOK, PCs
<1>4. permits' \in Nat
  BY <1>0, <1>1
<1>5. SlotDiscipline' /\ DoneIsOver'
  BY <1>0, <1>2, <1>3 DEF SlotDiscipline, DoneIsOver, TypeOK
<1>6. WaitOnlyWhenFull'
  <2>1. Waiting \ Woken(n) = {t \in Session : pc'[t] = "wait"}
    BY <1>0, <1>3 DEF WaitOnlyWhenFull, Waiting
  <2>2. waiters' # <<>> => permits' = 0
    BY <1>0, <1>1
  <2> QED
    BY <1>1, <2>1, <2>2 DEF WaitOnlyWhenFull
<1>7. SlotConservation'
  <2>1. Holders' = Holders \cup Woken(n)
    BY <1>2, <1>3 DEF Holders
  <2>2. Cardinality(Holders \cap Woken(n)) = 0
    BY <1>2, FS_EmptySet
  <2>3. Cardinality(Holders \cup Woken(n)) =
          Cardinality(Holders) + Cardinality(Woken(n)) - Cardinality(Holders \cap Woken(n))
    BY <1>2, HoldersFinite, FS_Union
  <2>4. Cardinality(Holders') = Cardinality(Holders) + Served(n)
    BY <1>1, <2>1, <2>2, <2>3, HoldersFinite
  <2> QED
    BY <1>0, <1>1, <2>4, HoldersFinite DEF SlotConservation, capVars
<1>8. TypeOK'
  BY <1>0, <1>1, <1>3, <1>4 DEF TypeOK, Statuses, queueVars, capVars, threadVars
<1> QED
  BY <1>5, <1>6, <1>7, <1>8 DEF IInv

\* The steps of a coroutine that return its slot.
LEMMA LeaveInvariant ==
  ASSUME IInv, NEW s \in Session, Park(s) \/ Close(s) \/ Fail(s)
  PROVE  IInv'
<1> USE DEF capVars, queueVars, threadVars
<1>0. TypeOK /\ DoneIsOver
  BY DEF IInv
<1>1. PICK next \in {"get", "done"} : LeaveSlot(s, next)
  BY DEF Park, Close, Fail
<1>2. pc[s] \notin {"woken", "granted", "wait"} /\ issued' = issued
  BY DEF Park, Close, Fail
<1>3. /\ pc' \in [Session -> PCs] /\ acquired' \in [Session -> BOOLEAN]
      /\ permits' \in Nat /\ waiters' \in Seq(Session)
      /\ SlotDiscipline' /\ SlotConservation' /\ WaitOnlyWhenFull'
      /\ \A t \in Session \ {s} : pc'[t] = "done" => pc[t] = "done"
  BY <1>1, <1>2, LeaveSlotEffect
<1>4. TypeOK'
  BY <1>0, <1>3 DEF TypeOK, Statuses, Park, Close, Fail
<1>5. DoneIsOver'
  <2>1. CASE Park(s)
    <3>1. pc'[s] = "get"
      BY <1>2, <2>1, LeaveSlotEffect DEF Park
    <3> QED
      BY <1>0, <1>3, <2>1, <3>1 DEF DoneIsOver, Park, TypeOK
  <2>2. CASE Close(s) \/ Fail(s)
    BY <1>0, <1>3, <2>2 DEF DoneIsOver, Over, Close, Fail, TypeOK
  <2> QED
    BY <2>1, <2>2
<1> QED
  BY <1>3, <1>4, <1>5 DEF IInv

\* The steps of the other threads touch neither a coroutine nor the semaphore.
LEMMA ThreadInvariant ==
  ASSUME IInv,
         \/ \E s \in Session : SendUserMessage(s) \/ Deliver(s) \/ SignalTarget(s)
         \/ \E i \in Item, kinds \in SUBSET Kind : CollectTargets(i, kinds)
  PROVE  IInv'
<1> USE DEF loopVars, semVars, capVars, queueVars, threadVars
<1>0. TypeOK /\ SlotDiscipline /\ SlotConservation /\ WaitOnlyWhenFull /\ DoneIsOver
  BY DEF IInv
<1>1. UNCHANGED <<pc, acquired, permits, waiters, issued>>
  BY DEF SendUserMessage, Deliver, SignalTarget, CollectTargets
<1>2. SlotDiscipline' /\ SlotConservation' /\ WaitOnlyWhenFull'
  BY <1>0, <1>1 DEF SlotDiscipline, SlotConservation, WaitOnlyWhenFull, Holders
<1>3. DoneIsOver'
  BY <1>0, <1>1 DEF DoneIsOver, Over, TypeOK, SendUserMessage, Deliver, SignalTarget, CollectTargets
<1>4. ASSUME NEW s \in Session, SendUserMessage(s)
      PROVE  TypeOK'
  <2>1. Append(posted[s], Text) \in Seq({Text, Abort})
    BY <1>0 DEF TypeOK
  <2> QED
    BY <1>0, <1>4, <2>1 DEF TypeOK, SendUserMessage
<1>5. ASSUME NEW s \in Session, Deliver(s)
      PROVE  TypeOK'
  <2>1. posted[s] \in Seq({Text, Abort}) /\ posted[s] # <<>>
    BY <1>0, <1>5 DEF TypeOK, Deliver
  <2>2. Head(posted[s]) \in {Text, Abort} /\ Tail(posted[s]) \in Seq({Text, Abort})
    BY <2>1
  <2>3. Append(userQueue[s], Head(posted[s])) \in Seq({Text, Abort})
    BY <1>0, <2>2 DEF TypeOK
  <2> QED
    BY <1>0, <1>5, <2>2, <2>3 DEF TypeOK, Deliver
<1>6. ASSUME NEW s \in Session, SignalTarget(s)
      PROVE  TypeOK'
  <2>1. Append(posted[s], Abort) \in Seq({Text, Abort})
    BY <1>0 DEF TypeOK
  <2> QED
    BY <1>0, <1>6, <2>1 DEF TypeOK, Statuses, SignalTarget
<1>7. ASSUME NEW i \in Item, NEW kinds \in SUBSET Kind, CollectTargets(i, kinds)
      PROVE  TypeOK'
  BY <1>0, <1>7 DEF TypeOK, CollectTargets, AbortTargets
<1> QED
  BY <1>2, <1>3, <1>4, <1>5, <1>6, <1>7 DEF IInv

\* Nothing runs when the loop starts.
LEMMA InitInvariant == Init => IInv
<1> SUFFICES ASSUME Init PROVE IInv
  OBVIOUS
<1>1. TypeOK
  BY SessionsAssumption DEF Init, TypeOK, PCs, Statuses
<1>2. Holders = {} /\ Cardinality(Holders) = 0
  BY FS_EmptySet DEF Init, Holders
<1>3. SlotConservation
  BY <1>2, SessionsAssumption DEF Init, SlotConservation
<1>4. SlotDiscipline /\ WaitOnlyWhenFull /\ DoneIsOver
  BY DEF Init, SlotDiscipline, WaitOnlyWhenFull, DoneIsOver
<1> QED
  BY <1>1, <1>3, <1>4 DEF IInv

\* Every step of a coroutine or a thread keeps the invariant.
LEMMA NextInvariant == IInv /\ [Next]_vars => IInv'
<1> SUFFICES ASSUME IInv, [Next]_vars PROVE IInv'
  OBVIOUS
<1>1. ASSUME NEW s \in Session, Coroutine(s)
      PROVE  IInv'
  BY <1>1, AcquireInvariant, QuietInvariant, WokenInvariant, LeaveInvariant
     DEF Coroutine, Runs, Resume
<1>2. ASSUME Threads
      PROVE  IInv'
  <2>1. ASSUME NEW s \in Session, StartSession(s)
        PROVE  IInv'
    BY <2>1, QuietInvariant
  <2>2. ASSUME NEW s \in Session, SendUserMessage(s) \/ Deliver(s) \/ SignalTarget(s)
        PROVE  IInv'
    BY <2>2, ThreadInvariant
  <2>3. ASSUME NEW i \in Item, NEW kinds \in {Kind} \cup {{k} : k \in Kind},
               CollectTargets(i, kinds)
        PROVE  IInv'
    <3>1. kinds \in SUBSET Kind
      OBVIOUS
    <3> QED
      BY <2>3, <3>1, ThreadInvariant
  <2>4. ASSUME NEW c \in NewCaps, ResizeSemaphore(c)
        PROVE  IInv'
    BY <2>4, ResizeInvariant
  <2> QED
    BY <1>2, <2>1, <2>2, <2>3, <2>4 DEF Threads
<1>3. CASE UNCHANGED vars
  BY <1>3 DEF vars, loopVars, semVars, capVars, queueVars, threadVars, IInv, TypeOK,
              SlotDiscipline, SlotConservation, WaitOnlyWhenFull, DoneIsOver, Holders
<1> QED
  BY <1>1, <1>2, <1>3 DEF Next

\* The inductive invariant holds in every reachable state.
THEOREM Invariance == Spec => []IInv
  BY InitInvariant, NextInvariant, PTL DEF Spec

\* Every reachable state is well typed.
THEOREM TypeCorrect == Spec => []TypeOK
<1>1. IInv => TypeOK
  BY DEF IInv
<1> QED
  BY <1>1, Invariance, PTL

\* No path of _run_session loses a slot or returns one twice (sessions.py:638-780).
THEOREM SlotsConserved == Spec => []SlotConservation
<1>1. IInv => SlotConservation
  BY DEF IInv
<1> QED
  BY <1>1, Invariance, PTL

\* A session holds a slot exactly while it is at the SDK, and its local `acquired`
\* says so (sessions.py:655, 721-728, 740).
THEOREM SlotsDisciplined == Spec => []SlotDiscipline
<1>1. IInv => SlotDiscipline
  BY DEF IInv
<1> QED
  BY <1>1, Invariance, PTL

\* No session waits beside a free slot but for one that is about to run and hand it
\* on: no wake-up of the semaphore is lost.
THEOREM WaitingMeansFull == Spec => []WaitOnlyWhenFull
<1>1. IInv => WaitOnlyWhenFull
  BY DEF IInv
<1> QED
  BY <1>1, Invariance, PTL

\* A session that has ended never looks live again (sessions.py:608-632).
THEOREM EndedIsOver == Spec => []DoneIsOver
<1>1. IInv => DoneIsOver
  BY DEF IInv
<1> QED
  BY <1>1, Invariance, PTL

\* As many slots were issued as the cap says.
CapIsIssued == issued = cap

LEMMA IssuedBoundsHolders ==
  ASSUME IInv, CapIsIssued
  PROVE  Cardinality(Holders) <= cap /\ AtMostCap
<1> DEFINE Busy == {s \in Session : pc[s] \in {"connect", "turn"}}
<1>1. Busy \in SUBSET Holders
  BY DEF Holders
<1>2. Cardinality(Busy) <= Cardinality(Holders) /\ IsFiniteSet(Busy)
  BY <1>1, HoldersFinite, FS_Subset
<1>3. Cardinality(Busy) \in Nat
  BY <1>2, FS_CardinalityType
<1>4. Cardinality(Holders) <= cap
  BY HoldersFinite DEF IInv, SlotConservation, TypeOK, CapIsIssued
<1>5. Cardinality(Busy) <= cap
  BY <1>2, <1>3, <1>4, HoldersFinite DEF IInv, TypeOK
<1> QED
  BY <1>4, <1>5 DEF AtMostCap

\* Only resize_semaphore touches the cap and what was issued.
LEMMA OnlyResizeIssues ==
  ASSUME [Next]_vars
  PROVE  UNCHANGED capVars \/ \E c \in NewCaps : ResizeSemaphore(c)
<1>1. ASSUME NEW s \in Session, Coroutine(s)
      PROVE  UNCHANGED capVars
  BY <1>1 DEF Coroutine, Runs, Begin, Acquire, Resume, Connect, EndTurn, Park, Take, IdleTimeout,
              Close, Fail, capVars
<1>2. ASSUME Threads
      PROVE  UNCHANGED capVars \/ \E c \in NewCaps : ResizeSemaphore(c)
  BY <1>2 DEF Threads, StartSession, SendUserMessage, Deliver, SignalTarget,
              CollectTargets, capVars
<1>3. CASE UNCHANGED vars
  BY <1>3 DEF vars, capVars
<1> QED
  BY <1>1, <1>2, <1>3 DEF Next

\* While the user leaves the cap alone, at most `cap` sessions are at the SDK.
THEOREM CapRespected ==
  ASSUME NewCaps = {}
  PROVE  Spec => []AtMostCap
<1>1. Init => CapIsIssued
  BY DEF Init, CapIsIssued
<1>2. CapIsIssued /\ [Next]_vars => CapIsIssued'
  BY OnlyResizeIssues DEF CapIsIssued, capVars
<1> QED
  BY <1>1, <1>2, IssuedBoundsHolders, Invariance, PTL DEF Spec

\* The one kind of resize that does what its docstring says: nobody holds a slot,
\* and the cap is not lowered.  resize_semaphore compares the new cap with the
\* free permits (sessions.py:98-104), and so counts every slot that is held, at a
\* raise or at the same value, as one that is missing.
ResizedIdle ==
  \/ UNCHANGED capVars
  \/ Holders = {} /\ permits <= cap'

\* If the cap is only ever raised, and only while no session holds a slot, then at
\* most `cap` sessions are at the SDK, and whoever takes a slot finds at most `cap`
\* taken: what the docstring of resize_semaphore promises (sessions.py:84-86).
THEOREM IdleResizeKeepsCap ==
  Spec /\ [][ResizedIdle]_vars => []AtMostCap /\ NewAcquiresSeeCap
<1>1. Init => CapIsIssued
  BY DEF Init, CapIsIssued
<1>2. IInv /\ CapIsIssued /\ [Next]_vars /\ [ResizedIdle]_vars => CapIsIssued'
  <2> SUFFICES ASSUME IInv, CapIsIssued, [Next]_vars, [ResizedIdle]_vars PROVE CapIsIssued'
    OBVIOUS
  <2>1. CASE UNCHANGED capVars
    BY <2>1 DEF CapIsIssued, capVars
  <2>2. CASE ~UNCHANGED capVars
    <3>1. Holders = {} /\ permits <= cap'
      BY <2>2 DEF ResizedIdle, vars
    <3>2. PICK c \in NewCaps : ResizeSemaphore(c)
      BY <2>2, OnlyResizeIssues
    <3>3. cap' = c /\ issued' = issued + Delta(c) /\ c \in Nat /\ permits \in Nat
      BY <3>2, SessionsAssumption DEF ResizeSemaphore, IInv, TypeOK
    <3>4. issued = permits
      BY <3>1, <3>3, FS_EmptySet DEF IInv, SlotConservation
    <3> QED
      BY <3>1, <3>3, <3>4 DEF Delta, CapIsIssued
  <2> QED
    BY <2>1, <2>2
<1>3. IInv /\ CapIsIssued => AtMostCap /\ Cardinality(Holders) <= cap
  BY IssuedBoundsHolders
<1>4. (Cardinality(Holders) <= cap)' =>
        [\A s \in Session :
           s \in Holders' /\ s \notin Holders /\ UNCHANGED cap
             => Cardinality(Holders') <= cap]_vars
  OBVIOUS
<1> QED
  BY <1>1, <1>2, <1>3, <1>4, Invariance, PTL DEF Spec, NewAcquiresSeeCap

-----------------------------------------------------------------------------
(* What the liveness properties rest on: a caller that is still waiting    *)
(* waits for a coroutine that is on its way to the end of its first turn,  *)
(* and what tells a session to stop is not lost before it has stopped.     *)

\* The coroutines that are past their first turn, or are over.
SignalledWhenPast ==
  \A s \in Session : pc[s] \in {"top", "get", "exit", "done"} => firstTurnDone[s]

\* Whoever is woken was waiting.
LEMMA LeaveSlotMoves ==
  ASSUME IInv, NEW s \in Session, NEW next \in {"get", "done"},
         pc[s] \notin {"woken", "granted", "wait"}, LeaveSlot(s, next), issued' = issued
  PROVE  \A t \in Session : pc'[t] \in {"top", "get", "exit", "done"} => pc[t] = pc'[t] \/ t = s
<1> DEFINE n == IF acquired[s] THEN 1 ELSE 0
<1>1. pc' = Wake(n, [pc EXCEPT ![s] = next])
  BY DEF LeaveSlot
<1> HIDE DEF n
<1> QED
  BY <1>1 DEF Wake, IInv, TypeOK

LEMMA SignalledNext ==
  ASSUME IInv, SignalledWhenPast, [Next]_vars
  PROVE  SignalledWhenPast'
<1>0. TypeOK
  BY DEF IInv
<1>1. ASSUME NEW s \in Session,
             Begin(s) \/ Acquire(s) \/ Resume(s) \/ Connect(s) \/ EndTurn(s) \/ Take(s)
               \/ IdleTimeout(s) \/ StartSession(s)
      PROVE  SignalledWhenPast'
  BY <1>0, <1>1 DEF SignalledWhenPast, TypeOK, Begin, Acquire, Resume, Resumed, Wake, Connect,
                    EndTurn, Take, IdleTimeout, StartSession
<1>2. ASSUME NEW s \in Session, Park(s) \/ Close(s) \/ Fail(s)
      PROVE  SignalledWhenPast'
  <2>1. PICK next \in {"get", "done"} : LeaveSlot(s, next)
    BY <1>2 DEF Park, Close, Fail
  <2>2. pc[s] \notin {"woken", "granted", "wait"} /\ issued' = issued
    BY <1>2 DEF Park, Close, Fail, capVars
  <2>3. \A t \in Session : pc'[t] \in {"top", "get", "exit", "done"} => pc[t] = pc'[t] \/ t = s
    BY <2>1, <2>2, LeaveSlotMoves
  <2>4. firstTurnDone'[s] /\ \A t \in Session : firstTurnDone[t] => firstTurnDone'[t]
    BY <1>0, <1>2 DEF SignalledWhenPast, TypeOK, Park, Close, Fail
  <2> QED
    BY <2>3, <2>4 DEF SignalledWhenPast
<1>3. ASSUME NEW c \in NewCaps, ResizeSemaphore(c)
      PROVE  SignalledWhenPast'
  <2>1. firstTurnDone' = firstTurnDone
    BY <1>3 DEF ResizeSemaphore
  <2>2. \A t \in Session : pc'[t] \in {"top", "get", "exit", "done"} => pc[t] = pc'[t]
    BY <1>0, <1>3 DEF ResizeSemaphore, Wake, TypeOK
  <2> QED
    BY <2>1, <2>2 DEF SignalledWhenPast
<1>4. CASE UNCHANGED loopVars
  BY <1>4 DEF loopVars, SignalledWhenPast
<1>5. ASSUME NEW s \in Session, Coroutine(s)
      PROVE  SignalledWhenPast'
  BY <1>1, <1>2, <1>5 DEF Coroutine, Runs
<1>6. CASE Threads
  BY <1>1, <1>3, <1>4, <1>6 DEF Threads, SendUserMessage, Deliver, SignalTarget, CollectTargets,
                               SignalledWhenPast, loopVars
<1>7. CASE UNCHANGED vars
  BY <1>4, <1>7 DEF vars
<1> QED
  BY <1>5, <1>6, <1>7 DEF Next

\* Nobody waits for the first turn of a session that is past it, has failed or is
\* over (sessions.py:729-780): the event is set on every path that leads there.  That
\* the coroutine gets there is FirstTurnSignalled, which is left to TLC.
THEOREM PastFirstTurnIsSignalled == Spec => []SignalledWhenPast
<1>1. Init => SignalledWhenPast
  BY DEF Init, SignalledWhenPast
<1> QED
  BY <1>1, SignalledNext, Invariance, PTL DEF Spec

Holds(q) == \E i \in DOMAIN q : q[i] = Abort

\* A session that an abort has collected, and that has not read so yet.
Told(s) == s \in targets \/ Holds(posted[s]) \/ Holds(userQueue[s])

\* It is told until it stops.
AbortIsHeard == [][\A s \in Session : Told(s) /\ ~Told(s)' => pc'[s] = "exit"]_vars

LEMMA HoldsAppend ==
  ASSUME NEW q \in Seq({Text, Abort}), NEW m \in {Text, Abort}, Holds(q) \/ m = Abort
  PROVE  Holds(Append(q, m))
<1>1. CASE Holds(q)
  <2>1. PICK i \in DOMAIN q : q[i] = Abort
    BY <1>1 DEF Holds
  <2>2. i \in DOMAIN Append(q, m) /\ Append(q, m)[i] = Abort
    BY <2>1
  <2> QED
    BY <2>2 DEF Holds
<1>2. CASE m = Abort
  <2>1. Len(q) + 1 \in DOMAIN Append(q, m) /\ Append(q, m)[Len(q) + 1] = Abort
    BY <1>2
  <2> QED
    BY <2>1 DEF Holds
<1> QED
  BY <1>1, <1>2

LEMMA HoldsTail ==
  ASSUME NEW q \in Seq({Text, Abort}), Holds(q), Head(q) # Abort
  PROVE  Holds(Tail(q))
<1>1. PICK i \in DOMAIN q : q[i] = Abort
  BY DEF Holds
<1>2. i # 1
  BY <1>1
<1>3. i - 1 \in DOMAIN Tail(q) /\ Tail(q)[i - 1] = Abort
  BY <1>1, <1>2
<1> QED
  BY <1>3 DEF Holds

LEMMA ToldUntilExit ==
  ASSUME TypeOK, [Next]_vars, NEW s \in Session, Told(s), pc'[s] # "exit"
  PROVE  Told(s)'
<1>1. CASE UNCHANGED <<targets, queueVars>>
  BY <1>1 DEF Told, queueVars
<1>2. ASSUME NEW t \in Session, Take(t)
      PROVE  Told(s)'
  <2>1. UNCHANGED <<targets, posted>> /\ userQueue' = [userQueue EXCEPT ![t] = Tail(@)]
    BY <1>2 DEF Take, threadVars
  <2>2. t = s => Head(userQueue[s]) # Abort
    BY <1>2 DEF Take, TypeOK
  <2>3. Holds(userQueue[s]) => Holds(userQueue'[s])
    BY <2>1, <2>2, HoldsTail DEF TypeOK
  <2> QED
    BY <2>1, <2>3 DEF Told
<1>3. ASSUME NEW t \in Session, SendUserMessage(t)
      PROVE  Told(s)'
  <2>1. UNCHANGED <<targets, userQueue>> /\ posted' = [posted EXCEPT ![t] = Append(@, Text)]
    BY <1>3 DEF SendUserMessage
  <2>2. Holds(posted[s]) => Holds(posted'[s])
    BY <2>1, HoldsAppend DEF TypeOK
  <2> QED
    BY <2>1, <2>2 DEF Told
<1>4. ASSUME NEW t \in Session, Deliver(t)
      PROVE  Told(s)'
  <2>1. /\ UNCHANGED targets /\ posted[t] # <<>>
        /\ userQueue' = [userQueue EXCEPT ![t] = Append(@, Head(posted[t]))]
        /\ posted' = [posted EXCEPT ![t] = Tail(@)]
    BY <1>4 DEF Deliver, threadVars
  <2>2. Head(posted[t]) \in {Text, Abort}
    BY <2>1 DEF TypeOK
  <2>3. Holds(userQueue[s]) => Holds(userQueue'[s])
    BY <2>1, <2>2, HoldsAppend DEF TypeOK
  <2>4. Holds(posted[s]) => Holds(posted'[s]) \/ Holds(userQueue'[s])
    BY <2>1, <2>2, HoldsTail, HoldsAppend DEF TypeOK
  <2> QED
    BY <2>1, <2>3, <2>4 DEF Told
<1>5. ASSUME NEW t \in Session, SignalTarget(t)
      PROVE  Told(s)'
  <2>1. /\ UNCHANGED userQueue /\ targets' = targets \ {t}
        /\ posted' = [posted EXCEPT ![t] = Append(@, Abort)]
    BY <1>5 DEF SignalTarget
  <2>2. Holds(posted[s]) \/ t = s => Holds(posted'[s])
    BY <2>1, HoldsAppend DEF TypeOK
  <2> QED
    BY <2>1, <2>2 DEF Told
<1>6. ASSUME NEW i \in Item, NEW kinds, CollectTargets(i, kinds)
      PROVE  Told(s)'
  BY <1>6 DEF CollectTargets, Told, queueVars
<1>7. ASSUME NEW t \in Session, Coroutine(t)
      PROVE  Take(t) \/ UNCHANGED <<targets, queueVars>>
  BY <1>7 DEF Coroutine, Runs, Begin, Acquire, Resume, Connect, EndTurn, Park, IdleTimeout, Close,
              Fail, threadVars, queueVars
<1>8. CASE Threads
  BY <1>1, <1>3, <1>4, <1>5, <1>6, <1>8
     DEF Threads, StartSession, ResizeSemaphore, threadVars, queueVars
<1>9. CASE UNCHANGED vars
  BY <1>1, <1>9 DEF vars, threadVars
<1> QED
  BY <1>1, <1>2, <1>7, <1>8, <1>9 DEF Next

\* What abort_sessions_for_item has collected is told to stop until it does
\* (sessions.py:608-632): neither the lock that is released before the sentinel is
\* posted, nor messages before or after it, nor a status that is overwritten lose it.
\* That the session then reads it is AbortEndsSession, which is left to TLC.
THEOREM AbortsAreHeard == Spec => AbortIsHeard
<1>1. TypeOK /\ [Next]_vars =>
        [\A s \in Session : Told(s) /\ ~Told(s)' => pc'[s] = "exit"]_vars
  BY ToldUntilExit
<1> QED
  BY <1>1, TypeCorrect, PTL DEF Spec, AbortIsHeard

-----------------------------------------------------------------------------
(* The limiter implements the pool.  Permits that are free while somebody  *)
(* waits are those a woken coroutine will hand on when it runs: the pool   *)
(* counts them as held already, by the longest waiters.                    *)

First(q, n) == IF n < Len(q) THEN n ELSE Len(q)

Front(q, n) == {q[i] : i \in 1..First(q, n)}

Rest(q, n) == SubSeq(q, First(q, n) + 1, Len(q))

Working == Holders \cup Front(waiters, permits)

Line == Rest(waiters, permits)

\* What the front of a line and its rest consist of.
LEMMA RestProperties ==
  ASSUME NEW q \in Seq(Session), NEW n \in Nat
  PROVE  /\ Len(q) \in Nat /\ First(q, n) \in 0..Len(q) /\ First(q, n) <= n
         /\ Rest(q, n) \in Seq(Session)
         /\ Len(Rest(q, n)) = Len(q) - First(q, n)
         /\ \A i \in 1..(Len(q) - First(q, n)) : Rest(q, n)[i] = q[First(q, n) + i]
<1>1. Len(q) \in Nat
  OBVIOUS
<1>2. First(q, n) \in 0..Len(q) /\ First(q, n) <= n
  BY <1>1 DEF First
<1> HIDE DEF First
<1>3. \A i \in (First(q, n) + 1)..Len(q) : q[i] \in Session
  BY <1>1, <1>2
<1>4. First(q, n) + 1 \in Int /\ Len(q) \in Int
  BY <1>1, <1>2
<1>5. /\ Rest(q, n) \in Seq(Session)
      /\ Len(Rest(q, n)) = IF First(q, n) + 1 <= Len(q)
                           THEN Len(q) - (First(q, n) + 1) + 1 ELSE 0
      /\ \A i \in 1..(Len(q) - (First(q, n) + 1) + 1) :
            Rest(q, n)[i] = q[(First(q, n) + 1) + i - 1]
  <2> DEFINE m == First(q, n) + 1
             l == Len(q)
  <2>1. m \in Int /\ l \in Int /\ \A i \in m..l : q[i] \in Session
    BY <1>3, <1>4
  <2>2. Rest(q, n) = SubSeq(q, m, l)
    BY DEF Rest
  <2> HIDE DEF m, l
  <2>3. /\ SubSeq(q, m, l) \in Seq(Session)
        /\ Len(SubSeq(q, m, l)) = IF m <= l THEN l - m + 1 ELSE 0
        /\ \A i \in 1..(l - m + 1) : SubSeq(q, m, l)[i] = q[m + i - 1]
    BY <2>1, SubSeqProperties
  <2> QED
    BY <2>2, <2>3 DEF m, l
<1>6. Len(Rest(q, n)) = Len(q) - First(q, n)
  <2> DEFINE f == First(q, n)
             l == Len(q)
  <2>1. f \in Int /\ l \in Int /\ f <= l
    BY <1>1, <1>2
  <2>2. Len(Rest(q, n)) = IF f + 1 <= l THEN l - (f + 1) + 1 ELSE 0
    BY <1>5
  <2> HIDE DEF f, l
  <2>3. Len(Rest(q, n)) = l - f
    BY <2>1, <2>2
  <2> QED
    BY <2>3 DEF f, l
<1>7. ASSUME NEW i \in 1..(Len(q) - First(q, n))
      PROVE  Rest(q, n)[i] = q[First(q, n) + i]
  <2>1. i \in 1..(Len(q) - (First(q, n) + 1) + 1) /\ (First(q, n) + 1) + i - 1 = First(q, n) + i
    BY <1>1, <1>2
  <2> QED
    BY <1>5, <2>1
<1> QED
  BY <1>1, <1>2, <1>5, <1>6, <1>7

\* n more go to those who are first in the rest of the line.
LEMMA RestServed ==
  ASSUME NEW q \in Seq(Session), NEW p \in Nat, NEW n \in Nat
  PROVE  /\ Front(q, p + n) = Front(q, p) \cup Front(Rest(q, p), n)
         /\ Rest(q, p + n) = Rest(Rest(q, p), n)
<1> DEFINE r == Rest(q, p)
           W == Len(q)
           f == First(q, p)
           k == First(r, n)
           g == First(q, p + n)
<1>1. /\ W \in Nat /\ f \in 0..W /\ r \in Seq(Session) /\ Len(r) = W - f
      /\ \A i \in 1..(W - f) : r[i] = q[f + i]
  BY RestProperties
<1> p + n \in Nat
  OBVIOUS
<1>2. /\ Rest(q, p + n) \in Seq(Session) /\ Len(Rest(q, p + n)) = W - g /\ g \in 0..W
      /\ \A i \in 1..(W - g) : Rest(q, p + n)[i] = q[g + i]
  BY RestProperties
<1>3. /\ Rest(r, n) \in Seq(Session) /\ Len(Rest(r, n)) = (W - f) - k /\ k \in 0..(W - f)
      /\ \A i \in 1..((W - f) - k) : Rest(r, n)[i] = r[k + i]
  <2> HIDE DEF r
  <2>1. /\ Rest(r, n) \in Seq(Session) /\ Len(Rest(r, n)) = Len(r) - First(r, n)
        /\ First(r, n) \in 0..Len(r)
        /\ \A i \in 1..(Len(r) - First(r, n)) : Rest(r, n)[i] = r[First(r, n) + i]
    BY <1>1, RestProperties
  <2> QED
    BY <1>1, <2>1 DEF k
<1>4. g = f + k
  <2>1. f = IF p < W THEN p ELSE W
    BY DEF First
  <2>2. g = IF p + n < W THEN p + n ELSE W
    BY DEF First
  <2>3. k = IF n < W - f THEN n ELSE W - f
    BY <1>1 DEF First
  <2> HIDE DEF f, g, k, W
  <2> QED
    BY <1>1, <2>1, <2>2, <2>3
<1>5. Front(q, p + n) = {q[i] : i \in 1..g} /\ Front(q, p) = {q[i] : i \in 1..f}
      /\ Front(r, n) = {r[i] : i \in 1..k}
  BY DEF Front
<1> HIDE DEF f, g, k, W, r
<1>6. Front(q, p + n) = Front(q, p) \cup Front(r, n)
  <2>1. ASSUME NEW i \in 1..g, i \notin 1..f
        PROVE  i - f \in 1..k /\ q[i] = r[i - f]
    <3>1. i - f \in 1..k /\ i - f \in 1..(W - f) /\ f + (i - f) = i
      BY <1>1, <1>2, <1>3, <1>4, <2>1
    <3> QED
      BY <1>1, <3>1
  <2>2. ASSUME NEW i \in 1..k
        PROVE  f + i \in 1..g /\ r[i] = q[f + i]
    <3>1. i \in 1..(W - f) /\ f + i \in 1..g
      BY <1>1, <1>3, <1>4
    <3> QED
      BY <1>1, <3>1
  <2>3. 1..f \subseteq 1..g
    BY <1>1, <1>3, <1>4
  <2>4. ASSUME NEW x \in Front(q, p + n) PROVE x \in Front(q, p) \cup Front(r, n)
    <3>1. PICK i \in 1..g : x = q[i]
      BY <1>5
    <3>2. CASE i \in 1..f
      BY <1>5, <3>1, <3>2
    <3>3. CASE i \notin 1..f
      BY <1>5, <2>1, <3>1, <3>3
    <3> QED
      BY <3>2, <3>3
  <2>5. ASSUME NEW x \in Front(r, n) PROVE x \in Front(q, p + n)
    <3>1. PICK i \in 1..k : x = r[i]
      BY <1>5
    <3> QED
      BY <1>5, <2>2, <3>1
  <2>6. Front(q, p) \subseteq Front(q, p + n)
    BY <1>5, <2>3
  <2> QED
    BY <2>4, <2>5, <2>6
<1>7. Rest(q, p + n) = Rest(r, n)
  <2>1. Len(Rest(q, p + n)) = Len(Rest(r, n))
    BY <1>1, <1>2, <1>3, <1>4
  <2>2. ASSUME NEW i \in 1..Len(Rest(q, p + n))
        PROVE  Rest(q, p + n)[i] = Rest(r, n)[i]
    <3>1. /\ i \in 1..(W - g) /\ i \in 1..((W - f) - k) /\ k + i \in 1..(W - f)
          /\ g + i = f + (k + i)
      BY <1>1, <1>2, <1>3, <1>4, <2>2
    <3>2. Rest(q, p + n)[i] = q[g + i] /\ Rest(r, n)[i] = r[k + i] /\ r[k + i] = q[f + (k + i)]
      BY <1>1, <1>2, <1>3, <3>1
    <3> QED
      BY <3>1, <3>2
  <2> QED
    BY <1>2, <1>3, <2>1, <2>2, SeqEqual
<1> QED
  BY <1>6, <1>7 DEF r

\* The operators of Sessions, in these terms.
LEMMA ServedIsFirst ==
  ASSUME NEW n \in Nat
  PROVE  /\ Served(n) = First(waiters, n) /\ Woken(n) = Front(waiters, n)
         /\ SubSeq(waiters, Served(n) + 1, Len(waiters)) = Rest(waiters, n)
BY DEF Served, Woken, First, Front, Rest

\* Waking n of the line, and then those beside the m + n - Served(n) permits that
\* are free, wakes the first m + n.
LEMMA Advance ==
  ASSUME TypeOK, NEW n \in Nat, NEW m \in Nat,
         waiters' = SubSeq(waiters, Served(n) + 1, Len(waiters)),
         permits' = m + (n - Served(n))
  PROVE  /\ Woken(n) \cup Front(waiters', permits') = Front(waiters, m + n)
         /\ Rest(waiters', permits') = Rest(waiters, m + n)
<1> DEFINE r == Rest(waiters, n)
           k == First(waiters, n)
<1>1. /\ waiters \in Seq(Session) /\ Len(waiters) \in Nat /\ k \in 0..Len(waiters) /\ k <= n
      /\ r \in Seq(Session) /\ Len(r) = Len(waiters) - k
  BY RestProperties DEF TypeOK
<1>2. waiters' = r /\ permits' = m + (n - k) /\ Woken(n) = Front(waiters, n)
  BY ServedIsFirst
<1>3. First(r, m + (n - k)) = First(r, m)
  <2>1. k = n \/ Len(r) = 0
    BY <1>1 DEF First
  <2>2. CASE k = n
    <3>1. m + (n - k) = m
      BY <2>2
    <3> QED
      BY <3>1
  <2>3. CASE Len(r) = 0
    <3>1. m + (n - k) \in Nat
      BY <1>1
    <3>2. First(r, m) \in 0..0 /\ First(r, m + (n - k)) \in 0..0
      BY <1>1, <2>3, <3>1, RestProperties
    <3> QED
      BY <3>2
  <2> QED
    BY <2>1, <2>2, <2>3
<1>4. Front(r, m + (n - k)) = Front(r, m) /\ Rest(r, m + (n - k)) = Rest(r, m)
  BY <1>3 DEF Front, Rest
<1>5. Front(waiters, n + m) = Front(waiters, n) \cup Front(r, m) /\ Rest(waiters, n + m) = Rest(r, m)
  BY <1>1, RestServed
<1>6. n + m = m + n
  OBVIOUS
<1> QED
  BY <1>2, <1>4, <1>5, <1>6

\* Who is counted as working: the holders, and the first of those who wait.
LEMMA WorkingCount ==
  ASSUME IInv
  PROVE  /\ permits \in Nat /\ waiters \in Seq(Session) /\ Len(waiters) \in Nat
         /\ Front(waiters, permits) \subseteq {s \in Session : pc[s] = "wait"}
         /\ Front(waiters, permits) \cap Holders = {}
         /\ Cardinality(Working) >= issued <=> Len(waiters) >= permits
<1> DEFINE F == Front(waiters, permits)
           k == First(waiters, permits)
<1>1. /\ TypeOK /\ WaitOnlyWhenFull /\ SlotConservation
      /\ permits \in Nat /\ issued \in Nat /\ waiters \in Seq(Session)
  BY DEF IInv, TypeOK
<1>2. Len(waiters) \in Nat /\ k \in 0..Len(waiters)
  BY <1>1, RestProperties
<1>3. F = {waiters[i] : i \in 1..k} /\ 1..k \subseteq DOMAIN waiters
  BY <1>1, <1>2 DEF Front
<1>4. Woken(permits) = F /\ F \subseteq Waiting
  BY <1>1, <1>3, ServedIsFirst DEF Waiting
<1>5. /\ F \subseteq {s \in Session : pc[s] = "wait"}
      /\ F \cap Holders = {}
      /\ IsFiniteSet(F)
  BY <1>1, <1>4, WakeEffect
<1>6. Cardinality(F) = k
  <2> HIDE DEF k
  <2> QED
    BY <1>1, <1>2, <1>3, PrefixCardinality DEF WaitOnlyWhenFull
<1>7. Cardinality(Holders \cap F) = 0
  BY <1>5, FS_EmptySet
<1> HIDE DEF F
<1>8. Cardinality(Holders \cup F) = Cardinality(Holders) + Cardinality(F) - Cardinality(Holders \cap F)
  BY <1>5, HoldersFinite, FS_Union
<1>9. Cardinality(Working) = Cardinality(Holders \cup F)
  BY DEF Working, F
<1>10. k >= permits <=> Len(waiters) >= permits
  BY <1>1, <1>2 DEF First
<1> HIDE DEF k
<1>11. Cardinality(Working) >= issued <=> k >= permits
  BY <1>1, <1>2, <1>6, <1>7, <1>8, <1>9, HoldersFinite DEF SlotConservation
<1> QED
  BY <1>1, <1>2, <1>5, <1>10, <1>11 DEF F

\* The refinement mapping, in these terms.
LEMMA PoolMapping ==
  ASSUME permits \in Nat
  PROVE  /\ Holders \cup Woken(permits) = Working
         /\ SubSeq(waiters, Served(permits) + 1, Len(waiters)) = Line
BY ServedIsFirst DEF Working, Line

LEMMA PoolMappingNext ==
  ASSUME permits' \in Nat
  PROVE  /\ (Holders \cup Woken(permits))' = Working'
         /\ SubSeq(waiters', Served(permits)' + 1, Len(waiters')) = Line'
BY DEF Working, Line, Served, Woken, First, Front, Rest

LEMMA PoolState ==
  ASSUME IInv
  PROVE  /\ Pool!Full <=> Len(waiters) >= permits
         /\ \A c : Pool!InLine(c) <=> \E i \in DOMAIN Line : Line[i] = c
<1>1. Pool!Cardinality(Working) = Cardinality(Working)
  BY DEF Pool!Cardinality, Cardinality
<1> QED
  BY <1>1, WorkingCount, PoolMapping DEF Pool!Full, Pool!InLine

\* The steps of the pool, in terms of Working and Line.
LEMMA PoolSteps ==
  ASSUME permits \in Nat, permits' \in Nat
  PROVE  /\ UNCHANGED <<issued, Working, Line>> => UNCHANGED Pool!poolVars
         /\ \A c \in Session :
              /\ c \notin Working /\ ~Pool!InLine(c) /\ ~Pool!Full /\ Line = <<>>
              /\ Working' = Working \cup {c} /\ UNCHANGED <<issued, Line>>
              => Pool!Enter(c)
         /\ \A c \in Session :
              /\ c \notin Working /\ ~Pool!InLine(c) /\ Pool!Full
              /\ Line' = Append(Line, c) /\ UNCHANGED <<issued, Working>>
              => Pool!Queue(c)
         /\ \A c \in Session :
              /\ c \in Working /\ UNCHANGED issued
              /\ IF Line = <<>>
                 THEN Working' = Working \ {c} /\ UNCHANGED Line
                 ELSE Working' = (Working \ {c}) \cup {Head(Line)} /\ Line' = Tail(Line)
              => Pool!Leave(c)
<1>1. /\ Holders \cup Woken(permits) = Working
      /\ SubSeq(waiters, Served(permits) + 1, Len(waiters)) = Line
  BY PoolMapping
<1>2. /\ (Holders \cup Woken(permits))' = Working'
      /\ SubSeq(waiters', Served(permits)' + 1, Len(waiters')) = Line'
  BY PoolMappingNext
<1>3. UNCHANGED <<issued, Working, Line>> => UNCHANGED Pool!poolVars
  BY <1>1, <1>2 DEF Pool!poolVars
<1>4. ASSUME NEW c \in Session,
             c \notin Working, ~Pool!InLine(c), ~Pool!Full, Line = <<>>,
             Working' = Working \cup {c}, UNCHANGED <<issued, Line>>
      PROVE  Pool!Enter(c)
  BY <1>1, <1>2, <1>4 DEF Pool!Enter
<1>5. ASSUME NEW c \in Session,
             c \notin Working, ~Pool!InLine(c), Pool!Full,
             Line' = Append(Line, c), UNCHANGED <<issued, Working>>
      PROVE  Pool!Queue(c)
  BY <1>1, <1>2, <1>5 DEF Pool!Queue
<1>6. ASSUME NEW c \in Session, c \in Working, UNCHANGED issued,
             IF Line = <<>>
             THEN Working' = Working \ {c} /\ UNCHANGED Line
             ELSE Working' = (Working \ {c}) \cup {Head(Line)} /\ Line' = Tail(Line)
      PROVE  Pool!Leave(c)
  BY <1>1, <1>2, <1>6 DEF Pool!Leave
<1> QED
  BY <1>3, <1>4, <1>5, <1>6

\* The first of a line, alone.
LEMMA FrontOne ==
  ASSUME NEW q \in Seq(Session)
  PROVE  /\ q = <<>> => Front(q, 1) = {} /\ Rest(q, 1) = <<>>
         /\ q # <<>> => Front(q, 1) = {Head(q)} /\ Rest(q, 1) = Tail(q)
<1>1. CASE q = <<>>
  <2>1. First(q, 1) = 0 /\ Len(q) = 0
    BY <1>1 DEF First
  <2>2. Rest(q, 1) \in Seq(Session) /\ Len(Rest(q, 1)) = Len(q) - First(q, 1)
    BY RestProperties
  <2> QED
    BY <1>1, <2>1, <2>2 DEF Front
<1>2. CASE q # <<>>
  <2>1. Len(q) >= 1 /\ Len(q) \in Nat
    BY <1>2
  <2>2. First(q, 1) = 1
    <3>1. ASSUME NEW L \in Nat, L >= 1 PROVE (IF 1 < L THEN 1 ELSE L) = 1
      BY <3>1
    <3> QED
      BY <2>1, <3>1 DEF First
  <2>3. Front(q, 1) = {Head(q)}
    BY <1>2, <2>2 DEF Front
  <2>4. Rest(q, 1) = Tail(q)
    BY <1>2, <2>2, TailIsSubSeq DEF Rest
  <2> QED
    BY <1>2, <2>3, <2>4
<1> QED
  BY <1>1, <1>2

\* Giving a slot up is the pool's Leave for a holder, and nothing otherwise.
LEMMA LeaveImplementsLeave ==
  ASSUME IInv, NEW s \in Session, Park(s) \/ Close(s) \/ Fail(s)
  PROVE  Pool!Leave(s) \/ UNCHANGED Pool!poolVars
<1> DEFINE n == IF acquired[s] THEN 1 ELSE 0
<1>1. PICK next \in {"get", "done"} : LeaveSlot(s, next)
  BY DEF Park, Close, Fail
<1>2. pc[s] \notin {"woken", "granted", "wait"} /\ issued' = issued
  BY DEF Park, Close, Fail, capVars
<1>3. TypeOK /\ SlotDiscipline /\ WaitOnlyWhenFull /\ n \in {0, 1} /\ n \in Nat
  BY DEF IInv
<1>4. /\ permits \in Nat /\ permits' = permits + (n - Served(n))
      /\ waiters' = SubSeq(waiters, Served(n) + 1, Len(waiters))
      /\ pc' = Wake(n, [pc EXCEPT ![s] = next])
  BY <1>1, <1>3 DEF LeaveSlot, Release, TypeOK
<1>5. n = 1 <=> s \in Holders
  BY <1>2, <1>3 DEF Holders, SlotDiscipline
<1> HIDE DEF n
<1>6. /\ Woken(n) \subseteq {t \in Session : pc[t] = "wait"}
      /\ permits' \in Nat
  <2>1. Served(n) \in 0..Len(waiters) /\ Served(n) <= n /\ Woken(n) \subseteq Waiting
    BY <1>3, <1>4, ServeEffect
  <2>2. Len(waiters) \in Nat
    BY <1>3 DEF TypeOK
  <2>3. permits' \in Nat
    BY <1>3, <1>4, <2>1, <2>2
  <2> QED
    BY <1>3, <2>1, <2>3, WakeEffect
<1>7. /\ Woken(n) \cup Front(waiters', permits') = Front(waiters, permits + n)
      /\ Rest(waiters', permits') = Rest(waiters, permits + n)
  BY <1>3, <1>4, Advance
<1>8. Holders' = (Holders \ {s}) \cup Woken(n)
  BY <1>2, <1>3, <1>4, <1>6 DEF Wake, Holders, TypeOK
<1>9. /\ Working' = (Holders \ {s}) \cup Front(waiters, permits + n)
      /\ Line' = Rest(waiters, permits + n)
  BY <1>7, <1>8 DEF Working, Line
<1>10. s \notin Front(waiters, permits) /\ waiters \in Seq(Session)
  BY <1>2, WorkingCount
<1>11. CASE n = 0
  <2>1. permits + n = permits
    BY <1>4, <1>11
  <2>2. Working' = Working /\ Line' = Line
    BY <1>5, <1>9, <1>11, <2>1 DEF Working, Line
  <2> QED
    BY <1>2, <1>4, <1>6, <2>2, PoolSteps
<1>12. CASE n = 1
  <2>1. /\ Front(waiters, permits + 1) = Front(waiters, permits) \cup Front(Line, 1)
        /\ Rest(waiters, permits + 1) = Rest(Line, 1)
    BY <1>4, <1>10, RestServed DEF Line
  <2>2. Line \in Seq(Session) /\ \A i \in DOMAIN Line : Line[i] # s
    <3>1. /\ Len(waiters) \in Nat /\ First(waiters, permits) \in 0..Len(waiters)
          /\ Line \in Seq(Session) /\ Len(Line) = Len(waiters) - First(waiters, permits)
          /\ \A i \in 1..(Len(waiters) - First(waiters, permits)) :
               Line[i] = waiters[First(waiters, permits) + i]
      BY <1>4, <1>10, RestProperties DEF Line
    <3>2. ASSUME NEW i \in DOMAIN Line
          PROVE  \E j \in DOMAIN waiters : Line[i] = waiters[j]
      <4>1. /\ i \in 1..(Len(waiters) - First(waiters, permits))
            /\ First(waiters, permits) + i \in DOMAIN waiters
        BY <1>10, <3>1
      <4> QED
        BY <3>1, <4>1
    <3>3. \A j \in DOMAIN waiters : waiters[j] # s
      BY <1>2, <1>3 DEF WaitOnlyWhenFull
    <3> QED
      BY <3>1, <3>2, <3>3
  <2>3. CASE Line = <<>>
    <3>1. Working' = Working \ {s} /\ Line' = Line
      BY <1>9, <1>10, <1>12, <2>1, <2>2, <2>3, FrontOne DEF Working
    <3> QED
      BY <1>2, <1>4, <1>5, <1>6, <1>12, <2>3, <3>1, PoolSteps DEF Working
  <2>4. CASE Line # <<>>
    <3>1. Head(Line) # s
      BY <2>2, <2>4
    <3>2. Working' = (Working \ {s}) \cup {Head(Line)} /\ Line' = Tail(Line)
      BY <1>9, <1>10, <1>12, <2>1, <2>2, <2>4, <3>1, FrontOne DEF Working
    <3> QED
      BY <1>2, <1>4, <1>5, <1>6, <1>12, <2>4, <3>2, PoolSteps DEF Working
  <2> QED
    BY <2>3, <2>4
<1> QED
  BY <1>3, <1>11, <1>12

\* One more in the line: it stands beside a permit that nobody before it is due,
\* or behind all those who do.
LEMMA FrontAppend ==
  ASSUME NEW q \in Seq(Session), NEW x \in Session, NEW p \in Nat
  PROVE  /\ p > Len(q) => /\ Front(Append(q, x), p) = Front(q, p) \cup {x}
                          /\ Rest(q, p) = <<>> /\ Rest(Append(q, x), p) = <<>>
         /\ p <= Len(q) => /\ Front(Append(q, x), p) = Front(q, p)
                           /\ Rest(Append(q, x), p) = Append(Rest(q, p), x)
<1> DEFINE W == Len(q)
           a == Append(q, x)
<1>1. /\ W \in Nat /\ a \in Seq(Session) /\ Len(a) = W + 1 /\ a[W + 1] = x
      /\ \A i \in 1..W : a[i] = q[i]
  OBVIOUS
<1>2. /\ Rest(q, p) \in Seq(Session) /\ Len(Rest(q, p)) = W - First(q, p)
      /\ \A i \in 1..(W - First(q, p)) : Rest(q, p)[i] = q[First(q, p) + i]
  BY RestProperties
<1> HIDE DEF a
<1>3. /\ Rest(a, p) \in Seq(Session) /\ Len(Rest(a, p)) = Len(a) - First(a, p)
      /\ \A i \in 1..(Len(a) - First(a, p)) : Rest(a, p)[i] = a[First(a, p) + i]
  BY <1>1, RestProperties
<1> HIDE DEF W
<1>4. CASE p > W
  <2>1. First(q, p) = W /\ First(a, p) = W + 1
    BY <1>1, <1>4 DEF First, W
  <2>2. Rest(q, p) = <<>> /\ Rest(a, p) = <<>>
    <3>1. Len(Rest(q, p)) = 0 /\ Len(Rest(a, p)) = 0
      BY <1>1, <1>2, <1>3, <2>1
    <3> QED
      BY <1>2, <1>3, <3>1
  <2>3. 1..(W + 1) = (1..W) \cup {W + 1}
    BY <1>1
  <2>4. Front(a, p) = Front(q, p) \cup {x}
    BY <1>1, <2>1, <2>3 DEF Front
  <2> QED
    BY <1>1, <1>4, <2>2, <2>4 DEF a, W
<1>5. CASE p <= W
  <2>1. First(q, p) = p /\ First(a, p) = p
    BY <1>1, <1>5 DEF First, W
  <2>2. 1..p \subseteq 1..W
    BY <1>1, <1>5
  <2>3. Front(a, p) = Front(q, p)
    BY <1>1, <2>1, <2>2 DEF Front
  <2>4. /\ Append(Rest(q, p), x) \in Seq(Session)
        /\ Len(Append(Rest(q, p), x)) = W - p + 1
        /\ Append(Rest(q, p), x)[W - p + 1] = x
        /\ \A i \in 1..(W - p) : Append(Rest(q, p), x)[i] = Rest(q, p)[i]
    BY <1>2, <2>1
  <2>5. ASSUME NEW i \in 1..(W + 1 - p) PROVE Rest(a, p)[i] = Append(Rest(q, p), x)[i]
    <3>1. Rest(a, p)[i] = a[p + i]
      BY <1>1, <1>3, <2>1, <2>5
    <3>2. CASE i = W - p + 1
      <4>1. p + i = W + 1
        BY <1>1, <3>2
      <4> QED
        BY <1>1, <2>4, <3>1, <3>2, <4>1
    <3>3. CASE i \in 1..(W - p)
      <4>1. p + i \in 1..W
        BY <1>1, <1>5, <3>3
      <4>2. a[p + i] = q[p + i] /\ Rest(q, p)[i] = q[p + i]
        BY <1>1, <1>2, <2>1, <3>3, <4>1
      <4> QED
        BY <2>4, <3>1, <3>3, <4>2
    <3>4. i = W - p + 1 \/ i \in 1..(W - p)
      BY <1>1, <1>5, <2>5
    <3> QED
      BY <3>2, <3>3, <3>4
  <2>6. Len(Rest(a, p)) = W + 1 - p /\ W - p + 1 = W + 1 - p
    BY <1>1, <1>3, <2>1
  <2>7. Rest(a, p) = Append(Rest(q, p), x)
    BY <1>3, <2>4, <2>5, <2>6, SeqEqual
  <2> QED
    BY <1>1, <1>5, <2>3, <2>7 DEF a, W
<1> QED
  BY <1>1, <1>4, <1>5 DEF W

\* acquire() enters the pool or joins its line: who queues beside a free permit
\* that nobody before it is due has entered.
LEMMA AcquireImplementsEnter ==
  ASSUME IInv, NEW s \in Session, Acquire(s)
  PROVE  Pool!Enter(s) \/ Pool!Queue(s)
<1>1. /\ TypeOK /\ SlotConservation /\ WaitOnlyWhenFull /\ permits \in Nat
      /\ waiters \in Seq(Session) /\ Len(waiters) \in Nat
  BY DEF IInv, TypeOK
<1>2. pc[s] = "acquire" /\ issued' = issued
  BY DEF Acquire, capVars
<1>3. s \notin Working
  BY <1>2, WorkingCount DEF Working, Holders
<1>4. ~Pool!InLine(s)
  <2>1. /\ First(waiters, permits) \in 0..Len(waiters)
        /\ Line \in Seq(Session) /\ Len(Line) = Len(waiters) - First(waiters, permits)
        /\ \A i \in 1..(Len(waiters) - First(waiters, permits)) :
             Line[i] = waiters[First(waiters, permits) + i]
    BY <1>1, RestProperties DEF Line
  <2>2. SUFFICES ASSUME NEW i \in DOMAIN Line, Line[i] = s PROVE FALSE
    BY PoolState
  <2>3. /\ i \in 1..(Len(waiters) - First(waiters, permits))
        /\ First(waiters, permits) + i \in DOMAIN waiters
    BY <1>1, <2>1
  <2>4. waiters[First(waiters, permits) + i] = s
    BY <2>1, <2>2, <2>3
  <2> QED
    BY <1>1, <1>2, <2>3, <2>4 DEF WaitOnlyWhenFull
<1>5. CASE /\ ~NoPermit /\ permits' = permits - 1
           /\ pc' = [pc EXCEPT ![s] = "granted"] /\ UNCHANGED waiters
  <2>1. permits > 0 /\ waiters = <<>> /\ Len(waiters) = 0 /\ permits' \in Nat
    BY <1>1, <1>5 DEF NoPermit, InLine
  <2>2. ~Pool!Full
    BY <1>1, <2>1, PoolState
  <2>3. First(waiters, permits) = 0 /\ First(waiters', permits') = 0
    BY <1>1, <1>5, <2>1 DEF First
  <2>4. Front(waiters, permits) = {} /\ Front(waiters', permits') = {}
    BY <2>3 DEF Front
  <2>5. Holders' = Holders \cup {s}
    BY <1>1, <1>2, <1>5 DEF Holders, TypeOK
  <2>6. Rest(waiters, permits) = <<>> /\ Rest(waiters', permits') = <<>>
    <3>1. /\ Rest(waiters, permits) \in Seq(Session)
          /\ Len(Rest(waiters, permits)) = Len(waiters) - First(waiters, permits)
      BY <1>1, RestProperties
    <3>2. /\ Rest(waiters, permits') \in Seq(Session)
          /\ Len(Rest(waiters, permits')) = Len(waiters) - First(waiters, permits')
      BY <1>1, <2>1, RestProperties
    <3> QED
      BY <1>5, <2>1, <2>3, <3>1, <3>2
  <2>7. Working' = Working \cup {s} /\ Line = <<>> /\ Line' = <<>>
    BY <2>4, <2>5, <2>6 DEF Working, Line
  <2> QED
    BY <1>1, <1>2, <1>3, <1>4, <2>1, <2>2, <2>7, PoolSteps
<1>6. CASE /\ NoPermit /\ waiters' = Append(waiters, s)
           /\ pc' = [pc EXCEPT ![s] = "wait"] /\ UNCHANGED permits
  <2>1. Holders' = Holders
    BY <1>1, <1>2, <1>6 DEF Holders, TypeOK
  <2>2. CASE permits > Len(waiters)
    <3>1. Working' = Working \cup {s} /\ Line = <<>> /\ Line' = <<>>
      <4>1. /\ Front(Append(waiters, s), permits) = Front(waiters, permits) \cup {s}
            /\ Rest(waiters, permits) = <<>> /\ Rest(Append(waiters, s), permits) = <<>>
        BY <1>1, <2>2, FrontAppend
      <4> QED
        BY <1>6, <2>1, <4>1 DEF Working, Line
    <3>2. ~Pool!Full
      BY <1>1, <2>2, PoolState
    <3> QED
      BY <1>1, <1>2, <1>3, <1>4, <1>6, <3>1, <3>2, PoolSteps
  <2>3. CASE permits <= Len(waiters)
    <3>1. Working' = Working /\ Line' = Append(Line, s)
      BY <1>1, <1>6, <2>1, <2>3, FrontAppend DEF Working, Line
    <3>2. Pool!Full
      BY <1>1, <2>3, PoolState
    <3> QED
      BY <1>1, <1>2, <1>3, <1>4, <1>6, <3>1, <3>2, PoolSteps
  <2> QED
    BY <1>1, <2>2, <2>3
<1> QED
  BY <1>5, <1>6 DEF Acquire

\* Who was woken runs, and wakes the others the pool counted already.
LEMMA ResumeStutters ==
  ASSUME IInv, NEW s \in Session, Resume(s), pc[s] = "woken"
  PROVE  UNCHANGED Pool!poolVars
<1>1. /\ TypeOK /\ WaitOnlyWhenFull /\ permits \in Nat /\ issued' = issued
      /\ pc' = Wake(permits, [pc EXCEPT ![s] = Resumed(s)])
      /\ permits' = permits - Served(permits)
      /\ waiters' = SubSeq(waiters, Served(permits) + 1, Len(waiters))
  BY DEF IInv, TypeOK, Resume, PassOn, capVars
<1>2. Served(permits) \in 0..Len(waiters) /\ Served(permits) <= permits /\ Len(waiters) \in Nat
  <2>1. Len(waiters) \in Nat
    BY <1>1 DEF TypeOK
  <2> QED
    BY <1>1, <2>1, ServeEffect
<1>3. permits' = 0 + (permits - Served(permits)) /\ permits' \in Nat /\ 0 + permits = permits
  BY <1>1, <1>2
<1>4. /\ Woken(permits) \cup Front(waiters', permits') = Front(waiters, 0 + permits)
      /\ Rest(waiters', permits') = Rest(waiters, 0 + permits)
  BY <1>1, <1>3, Advance
<1>5. Woken(permits) = Front(waiters, permits)
  BY <1>1, ServedIsFirst
<1>6. Holders' = Holders \cup Woken(permits)
  BY <1>1, <1>5, WorkingCount DEF Wake, Resumed, Holders, TypeOK
<1>7. UNCHANGED <<issued, Working, Line>>
  BY <1>1, <1>3, <1>4, <1>5, <1>6 DEF Working, Line
<1> QED
  BY <1>1, <1>3, <1>7, PoolSteps

\* A resize that releases permits grows the pool; another one changes nothing.
LEMMA ResizeImplementsGrow ==
  ASSUME IInv, NEW c \in NewCaps, ResizeSemaphore(c)
  PROVE  Pool!Grow \/ UNCHANGED Pool!poolVars
<1> DEFINE n == Delta(c)
<1>0. c \in Nat /\ permits \in Nat /\ n \in Nat
  BY SessionsAssumption DEF IInv, TypeOK, Delta
<1> HIDE DEF n
<1>1. /\ TypeOK /\ WaitOnlyWhenFull /\ issued \in Nat
      /\ pc' = Wake(n, pc) /\ issued' = issued + n
      /\ permits' = permits + (n - Served(n))
      /\ waiters' = SubSeq(waiters, Served(n) + 1, Len(waiters))
  BY DEF IInv, TypeOK, ResizeSemaphore, Release, n
<1>2. Woken(n) \subseteq {t \in Session : pc[t] = "wait"} /\ permits' \in Nat
  <2>1. Served(n) \in 0..Len(waiters) /\ Served(n) <= n /\ Woken(n) \subseteq Waiting
    BY <1>0, <1>1, ServeEffect
  <2>2. Len(waiters) \in Nat
    BY <1>1 DEF TypeOK
  <2>3. permits' \in Nat
    BY <1>0, <1>1, <2>1, <2>2
  <2> QED
    BY <1>0, <1>1, <2>1, <2>3, WakeEffect
<1>3. Holders' = Holders \cup Woken(n)
  BY <1>1, <1>2 DEF Wake, Holders, TypeOK
<1>4. /\ Woken(n) \cup Front(waiters', permits') = Front(waiters, permits + n)
      /\ Rest(waiters', permits') = Rest(waiters, permits + n)
  BY <1>0, <1>1, Advance
<1>5. /\ Front(waiters, permits + n) = Front(waiters, permits) \cup Front(Line, n)
      /\ Rest(waiters, permits + n) = Rest(Line, n)
  BY <1>0, <1>1, RestServed DEF Line, TypeOK
<1>6. Working' = Working \cup Front(Line, n) /\ Line' = Rest(Line, n)
  BY <1>3, <1>4, <1>5 DEF Working, Line
<1>7. CASE n > 0
  <2>1. /\ Holders \cup Woken(permits) = Working
        /\ SubSeq(waiters, Served(permits) + 1, Len(waiters)) = Line
    BY <1>0, PoolMapping
  <2>2. /\ (Holders \cup Woken(permits))' = Working'
        /\ SubSeq(waiters', Served(permits)' + 1, Len(waiters')) = Line'
    BY <1>2, PoolMappingNext
  <2>3. issued' - issued = n
    BY <1>0, <1>1
  <2>4. Front(Line, n) = {Line[i] : i \in 1..(IF n < Len(Line) THEN n ELSE Len(Line))}
        /\ Rest(Line, n) = SubSeq(Line, (IF n < Len(Line) THEN n ELSE Len(Line)) + 1, Len(Line))
    BY DEF Front, Rest, First
  <2> DEFINE served == IF n < Len(Line) THEN n ELSE Len(Line)
  <2>5. Working' = Working \cup {Line[i] : i \in 1..served} /\ Line' = SubSeq(Line, served + 1, Len(Line))
    BY <1>6, <2>4
  <2>6. Pool!Grow <=>
          LET d == issued' - issued
              k == IF d < Len(Line) THEN d ELSE Len(Line)
          IN /\ d > 0
             /\ Working' = Working \cup {Line[i] : i \in 1..k}
             /\ Line' = SubSeq(Line, k + 1, Len(Line))
    BY <2>1, <2>2 DEF Pool!Grow
  <2> QED
    BY <1>7, <2>3, <2>5, <2>6
<1>8. CASE n = 0
  <2>1. permits + n = permits /\ issued' = issued
    BY <1>0, <1>1, <1>8
  <2>2. Woken(n) \subseteq Front(waiters, permits)
    BY <1>4, <2>1
  <2>3. UNCHANGED <<issued, Working, Line>>
    BY <1>3, <1>4, <2>1, <2>2 DEF Working, Line
  <2> QED
    BY <1>0, <1>2, <2>3, PoolSteps
<1> QED
  BY <1>0, <1>7, <1>8

\* No other step moves a session into or out of the pool or its line.
LEMMA OthersStutter ==
  ASSUME IInv, NEW s \in Session,
         \/ Begin(s) \/ (Resume(s) /\ pc[s] = "granted") \/ Connect(s) \/ EndTurn(s) \/ Take(s)
         \/ IdleTimeout(s)
         \/ StartSession(s) \/ SendUserMessage(s) \/ Deliver(s) \/ SignalTarget(s)
         \/ \E i \in Item, kinds \in SUBSET Kind : CollectTargets(i, kinds)
  PROVE  UNCHANGED Pool!poolVars
<1>1. UNCHANGED <<permits, waiters, issued>>
  BY DEF Begin, Resume, Connect, EndTurn, Take, IdleTimeout, StartSession, SendUserMessage,
         Deliver, SignalTarget, CollectTargets, semVars, capVars
<1>2. Holders' = Holders
  BY DEF IInv, TypeOK, Holders, Begin, Resume, Resumed, Connect, EndTurn, Take, IdleTimeout,
         StartSession, SendUserMessage, Deliver, SignalTarget, CollectTargets, loopVars
<1>3. Served(permits)' = Served(permits) /\ Woken(permits)' = Woken(permits)
  BY <1>1 DEF Served, Woken
<1> QED
  BY <1>1, <1>2, <1>3 DEF Pool!poolVars

\* The session limiter implements the slot pool: README, "Global cap on live
\* Claude sessions", first come first served, at most `issued` at once.
THEOREM ImplementsPool == Spec => PoolSpec
<1>1. Init => Pool!PoolInit
  <2> SUFFICES ASSUME Init PROVE Pool!PoolInit
    OBVIOUS
  <2>1. waiters = <<>> /\ Served(permits) = 0
    BY SessionsAssumption DEF Init, Served
  <2>2. Woken(permits) = {} /\ SubSeq(waiters, Served(permits) + 1, Len(waiters)) = <<>>
    BY <2>1 DEF Woken
  <2> QED
    BY <2>2 DEF Init, Pool!PoolInit, Holders
<1>2. IInv /\ [Next]_vars => [Pool!PoolNext]_(Pool!poolVars)
  <2> SUFFICES ASSUME IInv, [Next]_vars
               PROVE  Pool!PoolNext \/ UNCHANGED Pool!poolVars
    OBVIOUS
  <2>1. ASSUME NEW s \in Session, Coroutine(s)
        PROVE  Pool!PoolNext \/ UNCHANGED Pool!poolVars
    BY <2>1, AcquireImplementsEnter, LeaveImplementsLeave, ResumeStutters, OthersStutter
       DEF Coroutine, Runs, Resume, Pool!PoolNext
  <2>2. ASSUME Threads
        PROVE  Pool!PoolNext \/ UNCHANGED Pool!poolVars
    <3>1. ASSUME NEW s \in Session,
                 StartSession(s) \/ SendUserMessage(s) \/ Deliver(s) \/ SignalTarget(s)
          PROVE  UNCHANGED Pool!poolVars
      BY <3>1, OthersStutter
    <3>2. ASSUME NEW i \in Item, NEW kinds \in {Kind} \cup {{k} : k \in Kind},
                 CollectTargets(i, kinds)
          PROVE  UNCHANGED Pool!poolVars
      BY <3>2 DEF CollectTargets, loopVars, semVars, capVars, Pool!poolVars, Holders, Served, Woken
    <3>3. ASSUME NEW c \in NewCaps, ResizeSemaphore(c)
          PROVE  Pool!PoolNext \/ UNCHANGED Pool!poolVars
      BY <3>3, ResizeImplementsGrow DEF Pool!PoolNext
    <3> QED
      BY <2>2, <3>1, <3>2, <3>3 DEF Threads
  <2>3. CASE UNCHANGED vars
    BY <2>3 DEF vars, loopVars, semVars, capVars, Pool!poolVars, Holders, Served, Woken
  <2> QED
    BY <2>1, <2>2, <2>3 DEF Next
<1> QED
  BY <1>1, <1>2, Invariance, PTL DEF Spec, PoolSpec, Pool!PoolSpec
=============================================================================
