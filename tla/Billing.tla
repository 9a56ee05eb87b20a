------------------------------ MODULE Billing ------------------------------
(***************************************************************************)
(* A team's plan: two columns of its row, written from the events of       *)
(* Stripe (internal/billing, httpapi/stripe_webhook.go).  Stripe posts an  *)
(* event until it is answered with 2xx, in no particular order and         *)
(* sometimes twice, and no handler compares an event with what the row     *)
(* already knows.                                                          *)
(*                                                                         *)
(* Subscriptions and their invoices carry the team_id that CreateCheckout  *)
(* gave the subscription; invoices carry none and are told by their        *)
(* subscription.  Subscriptions made by hand in Stripe, and the Stripe     *)
(* customer that checkout and portal pass on, are left out.                *)
(***************************************************************************)
EXTENDS Naturals, Sequences, FiniteSets

CONSTANTS
    Subs,        \* subscriptions that may be made
    NoSub,       \* NULL
    MaxEvents    \* bound: events of Stripe

ASSUME BillingAssumption ==
    NoSub \notin Subs /\ IsFiniteSet(Subs) /\ MaxEvents \in Nat

VARIABLES
    plan,       \* teams: billing_status, stripe_subscription_id, and whether
                \* monthly_quota is the paid one
    checkouts,   \* open checkout sessions
    sub,        \* Stripe: status of a subscription
    events,     \* events so far
    inFlight,   \* events Stripe has to deliver
    \* what happened, for the properties only
    newest,     \* the youngest event handled
    late,       \* an event was handled after a younger one
    current,    \* the subscription made last
    overlap     \* it was made while another one lived

billingVars == <<plan, checkouts, sub, events, inFlight, newest, late, current, overlap>>

SubStatuses == {"none", "incomplete", "incomplete_expired", "trialing", "active",
                "past_due", "unpaid", "paused", "canceled"}
Ended == {"none", "incomplete_expired", "canceled"}
EventKinds == {"subscription", "deleted", "payment_failed", "completed",
               "async_payment_succeeded"}

BillingTyped ==
    /\ plan \in [status : {"free", "active", "past_due", "canceled", "paused"},
                 sub : Subs \cup {NoSub}, pro : BOOLEAN]
    /\ checkouts \in 0 .. Cardinality(Subs)
    /\ sub \in [Subs -> SubStatuses]
    /\ events \in 0 .. MaxEvents
    /\ inFlight \subseteq [n : 1 .. MaxEvents, kind : EventKinds, sub : Subs,
                           status : SubStatuses]
    /\ newest \in 0 .. MaxEvents
    /\ late \in BOOLEAN
    /\ overlap \in BOOLEAN
    /\ current \in Subs \cup {NoSub}

BillingInit ==
    /\ plan = [status |-> "free", sub |-> NoSub, pro |-> FALSE]
    /\ checkouts = 0
    /\ sub = [s \in Subs |-> "none"]
    /\ events = 0
    /\ inFlight = {}
    /\ newest = 0
    /\ late = FALSE
    /\ current = NoSub
    /\ overlap = FALSE

-----------------------------------------------------------------------------
\* The customer and Stripe.

\* Service.CreateCheckout: a session at Stripe, open until it is paid.
CreateCheckout == checkouts < Cardinality(Subs) /\ checkouts' = checkouts + 1

createCheckout ==
    /\ CreateCheckout
    /\ UNCHANGED <<plan, sub, events, inFlight, newest, late, current, overlap>>

\* A subscription has a new status; its events carry that status for good.
Emit(s, status, kinds) ==
    /\ events + Len(kinds) <= MaxEvents
    /\ events' = events + Len(kinds)
    /\ inFlight' = inFlight \cup
         {[n |-> events + i, kind |-> kinds[i], sub |-> s, status |-> status] :
            i \in DOMAIN kinds}
    /\ sub' = [sub EXCEPT ![s] = status]
    /\ UNCHANGED <<plan, newest, late>>

\* The session is completed, paid at once or by a payment that is under way.
Subscribe(s, status) ==
    /\ checkouts > 0
    /\ checkouts' = checkouts - 1
    /\ sub[s] = "none"
    /\ Emit(s, status, <<"subscription", "completed">>)
    /\ current' = s
    /\ overlap' = (overlap \/ \E r \in Subs : sub[r] \notin Ended)

Change(s, from, status, kinds) ==
    /\ sub[s] \in from
    /\ sub[s] # status
    /\ Emit(s, status, kinds)
    /\ UNCHANGED <<checkouts, current, overlap>>

Paying == {"trialing", "active", "past_due", "unpaid", "paused"}

StripeChanges(s) ==
    \/ Change(s, {"incomplete"}, "active", <<"subscription", "async_payment_succeeded">>)
    \/ Change(s, {"incomplete"}, "incomplete_expired", <<"subscription">>)
    \/ Change(s, {"active"}, "past_due", <<"payment_failed", "subscription">>)
    \/ Change(s, SubStatuses \ Ended, "canceled", <<"deleted">>)
    \/ \E status \in Paying : Change(s, Paying, status, <<"subscription">>)

-----------------------------------------------------------------------------
\* The webhook.

subscriptionStatusToBilling(status) ==
    CASE status \in {"active", "trialing"}             -> "active"
      [] status \in {"past_due", "unpaid"}             -> "past_due"
      [] status \in {"canceled", "incomplete_expired"} -> "canceled"
      [] status = "paused"                             -> "paused"
      [] OTHER                                         -> ""

\* The quota is raised with the status, and never lowered again.
MarkActive(s) == plan' = [status |-> "active", sub |-> s, pro |-> TRUE]

MarkStatus(status, s) ==
    plan' = [status |-> status, sub |-> s, pro |-> plan.pro \/ status = "active"]

MarkCanceled == plan' = [plan EXCEPT !.status = "canceled"]

\* Fault: a session counts as paid when it is completed.
CheckoutCompleted(e) == MarkActive(e.sub)

\* A session whose payment is under way waits for async_payment_succeeded.
CheckoutPaid(e) ==
    IF e.kind = "completed" /\ e.status = "incomplete" THEN UNCHANGED plan
    ELSE MarkActive(e.sub)

SubscriptionChanged(e) ==
    IF subscriptionStatusToBilling(e.status) = "" THEN UNCHANGED plan
    ELSE MarkStatus(subscriptionStatusToBilling(e.status), e.sub)

\* WHERE stripe_subscription_id = $1
PaymentFailed(e) ==
    plan' = IF plan.sub = e.sub THEN [plan EXCEPT !.status = "past_due"] ELSE plan

HandleStripeEvent(e) ==
    \/ e.kind \in {"completed", "async_payment_succeeded"} /\ CheckoutPaid(e)
    \/ e.kind = "subscription" /\ SubscriptionChanged(e)
    \/ e.kind = "deleted" /\ MarkCanceled
    \/ e.kind = "payment_failed" /\ PaymentFailed(e)

\* The 2xx may be lost: the event comes again.  An UPDATE that fails changes
\* nothing, and the event comes again too.
stripeWebhook(e) ==
    /\ HandleStripeEvent(e)
    /\ inFlight' \in {inFlight, inFlight \ {e}}
    /\ newest' = IF e.n > newest THEN e.n ELSE newest
    /\ late' = (late \/ e.n < newest)
    /\ UNCHANGED <<checkouts, sub, events, current, overlap>>

BillingNext ==
    \/ createCheckout
    \/ \E s \in Subs : \/ StripeChanges(s)
                       \/ \E status \in {"active", "incomplete"} : Subscribe(s, status)
    \/ \E e \in inFlight : stripeWebhook(e)

BillingSpec == BillingInit /\ [][BillingNext]_billingVars

-----------------------------------------------------------------------------
\* The status a team should have.
StripeSays ==
    IF current # NoSub /\ subscriptionStatusToBilling(sub[current]) # ""
    THEN subscriptionStatusToBilling(sub[current])
    ELSE IF \E s \in Subs : sub[s] \in Ended \ {"none"} THEN "canceled" ELSE "free"

(* When every event of Stripe is handled, each once its elders were, the row of
   a team that has one subscription at a time says what Stripe says, and a paid
   plan has the paid quota - through unpaid sessions, failed payments,
   cancellation and a second subscription (service.go:273-377).             *)
BillingFollowsStripe ==
    (inFlight = {} /\ ~late /\ ~overlap) =>
        /\ plan.status = StripeSays
        /\ plan.status = "active" => plan.pro /\ plan.sub = current
=============================================================================
