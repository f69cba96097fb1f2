------------------------------ MODULE SlotPool ------------------------------
(***************************************************************************)
(* What the session limiter promises, without its mechanism: a pool of     *)
(* `size` slots and a line of clients.  Never more than `size` clients     *)
(* work, a client waits only when the pool is full, and whoever has waited *)
(* longest is served first.  README: "Global cap on live Claude sessions". *)
(*                                                                         *)
(* Sessions.tla is shown to implement this specification (PoolSpec there). *)
(***************************************************************************)
EXTENDS Naturals, Sequences, FiniteSets

CONSTANTS
  Client,      \* everyone who may ever ask for a slot
  InitialSize  \* the slots the pool opens with

VARIABLES
  size,     \* slots the pool has
  working,  \* the clients holding a slot
  line      \* the clients waiting for one, longest wait first

poolVars == <<size, working, line>>

Full == Cardinality(working) >= size

InLine(c) == \E i \in DOMAIN line : line[i] = c

PoolInit ==
  /\ size = InitialSize
  /\ working = {}
  /\ line = <<>>

\* A client that finds room, and nobody before it, starts at once.
Enter(c) ==
  /\ c \notin working /\ ~InLine(c)
  /\ ~Full /\ line = <<>>
  /\ working' = working \cup {c}
  /\ UNCHANGED <<size, line>>

\* A client that does not, joins the line.
Queue(c) ==
  /\ c \notin working /\ ~InLine(c)
  /\ Full \/ line # <<>>
  /\ line' = Append(line, c)
  /\ UNCHANGED <<size, working>>

\* A client that leaves hands its slot to the head of the line, if any.
Leave(c) ==
  /\ c \in working
  /\ IF line = <<>>
       THEN working' = working \ {c} /\ UNCHANGED line
       ELSE working' = (working \ {c}) \cup {Head(line)} /\ line' = Tail(line)
  /\ UNCHANGED size

\* Slots are added, and as many clients, the longest in line first, get them.
Grow ==
  LET n == size' - size
      served == IF n < Len(line) THEN n ELSE Len(line)
  IN /\ n > 0
     /\ working' = working \cup {line[i] : i \in 1..served}
     /\ line' = SubSeq(line, served + 1, Len(line))

PoolNext ==
  \/ \E c \in Client : Enter(c) \/ Queue(c) \/ Leave(c)
  \/ Grow

PoolSpec == PoolInit /\ [][PoolNext]_poolVars
=============================================================================
