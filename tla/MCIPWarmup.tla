----------------------------- MODULE MCIPWarmup -----------------------------
(***************************************************************************)
(* A short plan, so that pools come to its end.                            *)
(***************************************************************************)
EXTENDS IPWarmup

MCPlan == <<1, 2>>

=============================================================================
