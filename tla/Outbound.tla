------------------------------ MODULE Outbound ------------------------------
(***************************************************************************)
(* The two consumers of an event that run as tasks of their own: the       *)
(* Processor fans an event out to the webhooks and then triggers the       *)
(* automations.  The two share no row: a behaviour picks one of them and   *)
(* runs that.                                                              *)
(***************************************************************************)
EXTENDS WebhookDelivery, AutomationRun

VARIABLE consumer   \* the one this behaviour is about

outboundVars == <<consumer, webhookVars, automationVars>>

OutboundInit ==
    /\ consumer \in {"webhooks", "automations"}
    /\ WebhooksInit
    /\ consumer = "automations" => lists = {}
    /\ AutomationInit

OutboundNext ==
    \/ /\ consumer = "webhooks"
       /\ WebhooksNext
       /\ UNCHANGED <<consumer, automationVars>>
    \/ /\ consumer = "automations"
       /\ AutomationNext
       /\ UNCHANGED <<consumer, webhookVars>>

\* The fairness of both; that of the idle one asks for nothing, none of its
\* fair steps is enabled in its first state.
OutboundSpec ==
    /\ OutboundInit
    /\ [][OutboundNext]_outboundVars
    /\ WebhooksFairness
    /\ AutomationFairness

\* The state of both has its type.
OutboundTyped == WebhooksTyped /\ AutomationTyped

=============================================================================
