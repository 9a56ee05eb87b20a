---------------------------- MODULE ClaimedName ----------------------------
(***************************************************************************)
(* What the rows for one domain name promise to those who read them: a row *)
(* may be verified, claimed, open for receiving; the facts change one team *)
(* at a time; and at most one team has a verified claim.                   *)
(***************************************************************************)
EXTENDS Naturals, Tenancy

VARIABLE facts   \* what is true of the row of a team, {} when it has none

DomainFacts == {"verified", "claimed", "receiving"}

Claimants(f) == {t \in Teams : {"verified", "claimed"} \subseteq f[t]}

OneClaimant(f) == \A t, u \in Claimants(f) : t = u

NameInit == facts = [t \in Teams |-> {}]

Learn(t, f) == facts' = [facts EXCEPT ![t] = @ \cup {f}]

Forget(t, f) == facts' = [facts EXCEPT ![t] = @ \ {f}]

DeleteName(t) == facts' = [facts EXCEPT ![t] = {}]

NameNext ==
    /\ \E t \in Teams : \/ DeleteName(t)
                        \/ \E f \in DomainFacts : Learn(t, f) \/ Forget(t, f)
    /\ OneClaimant(facts')

NameSpec == NameInit /\ [][NameNext]_facts
=============================================================================
