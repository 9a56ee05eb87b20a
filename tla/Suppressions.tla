---------------------------- MODULE Suppressions ----------------------------
(***************************************************************************)
(* The reason column of the suppressions table.  SES events, the API,      *)
(* contact updates and unsubscribe links all write it, each with an upsert *)
(* that merges the old reason and the new one in the same way.             *)
(*                                                                         *)
(* "none" stands for "no such row".  An operator whose comment starts with *)
(* "Fault:" is the operator after it with a plausible bug, and part of no  *)
(* specification.                                                          *)
(***************************************************************************)

Reasons == {"bounce", "complaint", "manual", "unsubscribe"}

\* Reasons that no upsert replaces by a softer one.
HardReasons == {"bounce", "complaint"}

\* Fault: the newer reason always wins.
lastReason(old, new) == new

\* ON CONFLICT (team_id, email) DO UPDATE SET reason = CASE ...
mergedReason(old, new) ==
    IF old \in HardReasons /\ new \notin HardReasons THEN old ELSE new

=============================================================================
