----------------------------- MODULE MCSessions -----------------------------
(* A small instance of Sessions: an action and a triage session of one card *)
(* and, when there are three, an action session of another.                 *)
EXTENDS Sessions

MCItemOf == [s \in Session |-> IF s = "s3" THEN "pr2" ELSE "pr1"]
MCKindOf == [s \in Session |-> IF s = "s2" THEN "triage" ELSE "action"]
=============================================================================
