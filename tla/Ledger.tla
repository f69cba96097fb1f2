------------------------------- MODULE Ledger -------------------------------
(***************************************************************************)
(* What the task board promises, without its store: a book of numbered     *)
(* tasks.  A number is given once, an entry is changed by one patch at a   *)
(* time, a task that was deleted is gone, and nothing that was entered is  *)
(* undone by another entry, not even by a stop of the server.              *)
(*                                                                         *)
(* Board.tla is shown to implement this specification (LedgerSpec there).  *)
(***************************************************************************)
EXTENDS Naturals

CONSTANTS
  Blank,   \* a new task
  Patches  \* what an entry may set: records of some of a task's fields

VARIABLES
  tasks,  \* the entries, by number
  next    \* the number of the next one

ledgerVars == <<tasks, next>>

\* A record with the fields of a patch set.
Patched(record, patch) ==
  [f \in DOMAIN record |-> IF f \in DOMAIN patch THEN patch[f] ELSE record[f]]

LedgerInit == tasks = [i \in {} |-> Blank] /\ next = 1

Create ==
  /\ tasks' = [i \in DOMAIN tasks \cup {next} |-> IF i = next THEN Blank ELSE tasks[i]]
  /\ next' = next + 1

Patch(i) ==
  /\ \E patch \in Patches : tasks' = [tasks EXCEPT ![i] = Patched(@, patch)]
  /\ UNCHANGED next

Delete(i) ==
  /\ tasks' = [j \in DOMAIN tasks \ {i} |-> tasks[j]]
  /\ UNCHANGED next

LedgerNext == Create \/ \E i \in DOMAIN tasks : Patch(i) \/ Delete(i)

LedgerSpec == LedgerInit /\ [][LedgerNext]_ledgerVars
=============================================================================
