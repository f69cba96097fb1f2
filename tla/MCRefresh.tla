------------------------------ MODULE MCRefresh ------------------------------
(* The instance of Refresh for the model checker.                          *)
EXTENDS Refresh

\* One that a fetcher of what needs attention leaves out, one that it keeps, and one
\* that it keeps and the intake does not take yet.
MCContents ==
  {[ci |-> "passing", threads |-> FALSE], [ci |-> "passing", threads |-> TRUE],
   [ci |-> "pending", threads |-> TRUE]}
=============================================================================
