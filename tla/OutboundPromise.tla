-------------------------- MODULE OutboundPromise --------------------------
(***************************************************************************)
(* What the send path promises about an email, whatever API, queue and     *)
(* workers do underneath:                                                  *)
(*                                                                         *)
(*   - copies leave only for an email that was accepted;                   *)
(*   - one enqueued task is good for at most MaxRetry + 1 copies;          *)
(*   - once an email is closed (canceled, sent, or out of tasks, with no   *)
(*     attempt under way) it stays closed and no copy leaves any more,     *)
(*     unless the provider reports a copy that did leave as bounced,       *)
(*     complained of or rejected: that may open it again for the tasks it  *)
(*     has left.                                                           *)
(*                                                                         *)
(* EmailSend implements this specification under the refinement mapping    *)
(* given there.                                                            *)
(***************************************************************************)
EXTENDS Naturals

CONSTANTS Emails, MaxReschedules, MaxRetry

VARIABLES
    phase,    \* "absent", "open" or "closed", per email
    copies,   \* messages the provider accepted, per task of an email
    reported  \* emails with a copy the provider reported as gone wrong

vars == <<phase, copies, reported>>

Tasks == Emails \X (0 .. MaxReschedules)

Init ==
    /\ phase    = [e \in Emails |-> "absent"]
    /\ copies   = [t \in Tasks |-> 0]
    /\ reported = {}

Accept(e) ==
    /\ phase[e] = "absent"
    /\ phase' = [phase EXCEPT ![e] = "open"]
    /\ UNCHANGED <<copies, reported>>

Copy(t) ==
    /\ phase[t[1]] = "open"
    /\ copies[t] <= MaxRetry
    /\ copies' = [copies EXCEPT ![t] = @ + 1]
    /\ UNCHANGED <<phase, reported>>

Close(e) ==
    /\ phase[e] = "open"
    /\ phase' = [phase EXCEPT ![e] = "closed"]
    /\ UNCHANGED <<copies, reported>>

Report(e) ==
    /\ phase[e] # "absent"
    /\ \E k \in 0 .. MaxReschedules : copies[<<e, k>>] > 0
    /\ reported' = reported \cup {e}
    /\ phase' \in {phase, [phase EXCEPT ![e] = "open"]}
    /\ UNCHANGED copies

Next ==
    \/ \E e \in Emails : Accept(e) \/ Close(e) \/ Report(e)
    \/ \E t \in Tasks : Copy(t)

Spec == Init /\ [][Next]_vars

=============================================================================
