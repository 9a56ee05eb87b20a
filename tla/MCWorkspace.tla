---------------------------- MODULE MCWorkspace ----------------------------
(***************************************************************************)
(* Two listeners; none of the events is of the types the second asks for.  *)
(* Requests are interchangeable: no part tells one from another.           *)
(***************************************************************************)
EXTENDS Workspace, TLC

CONSTANTS l1, l2   \* the listeners

MCListeners == {l1, l2}
MCWanted == (l1 :> LiveEvents) @@ (l2 :> {})

Symmetry == Permutations(Calls) \cup Permutations(Clients)

=============================================================================
