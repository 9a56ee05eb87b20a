-------------------------- MODULE WebhookDelivery --------------------------
(***************************************************************************)
(* Webhooks (internal/webhook and Handlers.HandleWebhookDeliver): an event *)
(* is fanned out to the team's enabled, subscribed webhooks, one row and   *)
(* one task each, and each task posts to its endpoint until it is answered *)
(* with a 2xx or has no retry left.                                        *)
(*                                                                         *)
(* Fanout keeps the connection of its SELECT for as long as it iterates    *)
(* over the rows and takes a second one of the same pool for each INSERT,  *)
(* so the pool is part of the model.  The pool (20) is as large as the     *)
(* number of workers (20): fanouts can hold all of it and wait for each    *)
(* other until the context of one of them ends.                            *)
(*                                                                         *)
(* One team.  Which types of event a webhook lists is fixed for a          *)
(* behaviour; whether it is enabled is not.                                *)
(***************************************************************************)
EXTENDS FiniteSets, Queue

CONSTANTS
    Hooks,            \* webhooks that may be created
    Occurrences,      \* events that may happen
    Listings,         \* possible sets of pairs of a webhook and an event it lists
    Connections,      \* MaxConns of the pool (20 in the code)
    MaxDeliverRetry,  \* MaxRetry of webhook:deliver (8 in the code)
    MaxFanoutFaults   \* bound: errors and deaths inside a fanout

ASSUME WebhookAssumption ==
    /\ IsFiniteSet(Occurrences) /\ "none" \notin Hooks
    /\ Listings \subseteq SUBSET (Hooks \X Occurrences)
    /\ {Connections, MaxDeliverRetry, MaxFanoutFaults} \subseteq Nat
    /\ Connections > 0

VARIABLES
    lists,       \* webhooks.events: which webhook lists the type of which event
    hook,        \* the webhook: "unused", "on", "off" or "deleted"
    fanout,      \* Fanout of an event: next statement and the rows left to read
    hookEvents,  \* webhook_events: pairs of webhook and event
    delivery,    \* the webhook:deliver task of a pair
    worker,      \* what the handler of a pair's task does next
    fanoutFaults,
    answered,    \* for the properties only: pairs answered with a 2xx
    selected     \* for the properties only: pairs some Fanout selected

history == <<answered, selected>>
webhookVars == <<lists, hook, fanout, hookEvents, delivery, worker, fanoutFaults, history>>

Pairs == Hooks \X Occurrences
FanoutPcs == {"none", "insert", "enqueue", "sent", "cut"}

WebhooksTyped ==
    /\ lists \in Listings
    /\ hook \in [Hooks -> {"unused", "on", "off", "deleted"}]
    /\ \A o \in Occurrences :
         /\ fanout[o].pc \in FanoutPcs
         /\ fanout[o].todo \subseteq Hooks
         /\ fanout[o].pc = "enqueue" <=> fanout[o].at \in Hooks
    /\ hookEvents \subseteq {p \in selected : hook[p[1]] # "deleted"}
    /\ delivery \in [Pairs -> Tasks(MaxDeliverRetry)]
    /\ worker \in [Pairs -> {"idle", "post", "won", "lost"}]
    /\ \A p \in Pairs : worker[p] # "idle" <=> delivery[p].state = "running"
    /\ fanoutFaults \in 0 .. MaxFanoutFaults
    /\ answered \subseteq selected
    /\ selected \subseteq lists

NoHook == "none"
NoFanout == [pc |-> "none", todo |-> {}, at |-> NoHook]

WebhooksInit ==
    /\ lists \in Listings
    /\ hook = [w \in Hooks |-> "unused"]
    /\ fanout = [o \in Occurrences |-> NoFanout]
    /\ hookEvents = {}
    /\ delivery = [p \in Pairs |-> NoTask]
    /\ worker = [p \in Pairs |-> "idle"]
    /\ fanoutFaults = 0
    /\ answered = {}
    /\ selected = {}

-----------------------------------------------------------------------------
(* The webhooks.                                                           *)

CreateHook(w) == hook[w] = "unused" /\ hook' = [hook EXCEPT ![w] = "on"]

createWebhook(w) ==
    /\ CreateHook(w)
    /\ UNCHANGED <<lists, fanout, hookEvents, delivery, worker, fanoutFaults, history>>

UpdateHook(w, enabled) ==
    /\ hook[w] \in {"on", "off"}
    /\ hook' = [hook EXCEPT ![w] = IF enabled THEN "on" ELSE "off"]

updateWebhook(w) ==
    /\ \E enabled \in BOOLEAN : UpdateHook(w, enabled)
    /\ UNCHANGED <<lists, fanout, hookEvents, delivery, worker, fanoutFaults, history>>

\* ON DELETE CASCADE takes the events of the webhook along; its tasks stay.
DeleteHook(w) ==
    /\ hook[w] \in {"on", "off"}
    /\ hook' = [hook EXCEPT ![w] = "deleted"]
    /\ hookEvents' = {p \in hookEvents : p[1] # w}

deleteWebhook(w) ==
    /\ DeleteHook(w)
    /\ UNCHANGED <<lists, fanout, delivery, worker, fanoutFaults, history>>

-----------------------------------------------------------------------------
(* Fanout.                                                                 *)

Cut(o) == fanout' = [fanout EXCEPT ![o] = [pc |-> "cut", todo |-> {}, at |-> NoHook]]

\* The fanouts whose rows are open, each of which holds a connection.  Every
\* other statement has one for a single step.
Iterating == {o \in Occurrences : fanout[o].pc \in {"insert", "enqueue"}}
FreeConnection == Cardinality(Iterating) < Connections

SelectHooks(o) ==
    /\ fanout[o].pc = "none"
    /\ FreeConnection
    /\ LET on == {w \in Hooks : hook[w] = "on" /\ <<w, o>> \in lists}
       IN  /\ fanout' = [fanout EXCEPT ![o] =
                           [NoFanout EXCEPT !.pc = "insert", !.todo = on]]
           /\ selected' = selected \cup (on \X {o})
    /\ UNCHANGED <<lists, hook, hookEvents, delivery, worker, fanoutFaults, answered>>

\* The rows are read to the end, which closes them.
FanoutReturns(o) ==
    /\ fanout[o].pc = "insert" /\ fanout[o].todo = {}
    /\ fanout' = [fanout EXCEPT ![o].pc = "sent"]
    /\ UNCHANGED <<lists, hook, hookEvents, delivery, worker, fanoutFaults, history>>

\* The INSERT of a row for a webhook deleted since the SELECT breaks its
\* foreign key, and the error ends the fanout for the other webhooks, too.
InsertHookEvent(o, w) ==
    /\ fanout[o].pc = "insert" /\ w \in fanout[o].todo
    /\ FreeConnection
    /\ IF hook[w] = "deleted"
       THEN Cut(o) /\ UNCHANGED hookEvents
       ELSE /\ hookEvents' = hookEvents \cup {<<w, o>>}
            /\ fanout' = [fanout EXCEPT ![o] =
                            [pc |-> "enqueue", todo |-> @.todo \ {w}, at |-> w]]
    /\ UNCHANGED <<lists, hook, delivery, worker, fanoutFaults, history>>

\* Fault: the row is left without its task.
ForgetDelivery(o) ==
    /\ fanout[o].pc = "enqueue"
    /\ fanout' = [fanout EXCEPT ![o].pc = "insert", ![o].at = NoHook]
    /\ UNCHANGED <<lists, hook, hookEvents, delivery, worker, fanoutFaults, history>>

EnqueueDelivery(o) ==
    /\ fanout[o].pc = "enqueue"
    /\ delivery' = [delivery EXCEPT ![<<fanout[o].at, o>>] = Enqueued]
    /\ fanout' = [fanout EXCEPT ![o].pc = "insert", ![o].at = NoHook]
    /\ UNCHANGED <<lists, hook, hookEvents, worker, fanoutFaults, history>>

\* Postgres or Redis refuses, or the process dies.
FanoutFails(o) ==
    /\ fanoutFaults < MaxFanoutFaults
    /\ fanout[o].pc \in {"insert", "enqueue"}
    /\ Cut(o)
    /\ fanoutFaults' = fanoutFaults + 1
    /\ UNCHANGED <<lists, hook, hookEvents, delivery, worker, history>>

\* The context of a fanout that waits for a connection ends: the task's after
\* 30 minutes, the request's with the client.  That of the SES consumer has no
\* deadline; it runs one fanout at a time, so the others free a connection.
FanoutTimesOut(o) ==
    /\ fanout[o].pc = "insert" /\ fanout[o].todo # {}
    /\ ~FreeConnection
    /\ Cut(o)
    /\ UNCHANGED <<lists, hook, hookEvents, delivery, worker, fanoutFaults, history>>

-----------------------------------------------------------------------------
(* Deliver.                                                                *)

HookTaskFails(p) ==
    /\ delivery' = [delivery EXCEPT ![p] = Failed(@, MaxDeliverRetry)]
    /\ worker' = [worker EXCEPT ![p] = "idle"]

\* A worker takes the task and reads its event.  The JOIN does not ask
\* whether the webhook is still enabled; no row is an error like any other.
ReadHookEvent(p) ==
    /\ delivery[p].state = "queued" /\ FreeConnection
    /\ IF p \in hookEvents
       THEN /\ delivery' = [delivery EXCEPT ![p] = Started(@)]
            /\ worker' = [worker EXCEPT ![p] = "post"]
       ELSE HookTaskFails(p)
    /\ UNCHANGED <<lists, hook, fanout, hookEvents, fanoutFaults, history>>

\* An answer outside of 2xx, and none at all, are no success; of the
\* latter the endpoint may have taken the event.
PostEvent(p) ==
    /\ worker[p] = "post"
    /\ \/ worker' = [worker EXCEPT ![p] = "won"] /\ answered' = answered \cup {p}
       \/ worker' = [worker EXCEPT ![p] = "lost"] /\ UNCHANGED answered
    /\ UNCHANGED <<lists, hook, fanout, hookEvents, delivery, fanoutFaults, selected>>

\* The attempt's row goes nowhere but to the console, and the error of its
\* INSERT is dropped.
Deliver(p) ==
    /\ worker[p] \in {"won", "lost"}
    /\ IF worker[p] = "won"
       THEN /\ delivery' = [delivery EXCEPT ![p] = Finished(@)]
            /\ worker' = [worker EXCEPT ![p] = "idle"]
       ELSE HookTaskFails(p)
    /\ UNCHANGED <<lists, hook, fanout, hookEvents, fanoutFaults, history>>

\* The process dies; after the lease the recoverer retries or archives.
DeliveryDies(p) ==
    /\ worker[p] # "idle"
    /\ HookTaskFails(p)
    /\ UNCHANGED <<lists, hook, fanout, hookEvents, fanoutFaults, history>>

HandleWebhookDeliver(p) == ReadHookEvent(p) \/ PostEvent(p) \/ Deliver(p)

FanoutStep(o) ==
    \/ FanoutReturns(o)
    \/ \E w \in Hooks : InsertHookEvent(o, w)
    \/ EnqueueDelivery(o)
    \/ FanoutTimesOut(o)

WebhooksNext ==
    \/ \E w \in Hooks : createWebhook(w) \/ updateWebhook(w) \/ deleteWebhook(w)
    \/ \E o \in Occurrences : SelectHooks(o) \/ FanoutStep(o) \/ FanoutFails(o)
    \/ \E p \in Pairs : HandleWebhookDeliver(p) \/ DeliveryDies(p)

\* The processes run and come back; an event, a request and an answer of an
\* endpoint owe nothing.
WebhooksFairness ==
    /\ \A o \in Occurrences : WF_webhookVars(FanoutStep(o))
    /\ \A p \in Pairs : WF_webhookVars(HandleWebhookDeliver(p))

WebhooksSpec == WebhooksInit /\ [][WebhooksNext]_webhookVars /\ WebhooksFairness

-----------------------------------------------------------------------------
(* The properties.                                                         *)

\* An event whose fanout saw a webhook is answered by its endpoint with a
\* 2xx, or runs out of retries, also those for a row lost with the webhook;
\* or the fanout was cut, which no retry makes good.  Fanouts that hold the
\* whole pool end, if only with their contexts
\* (internal/webhook/service.go:148-161, :206-212).
EventReachesEndpoint ==
    \A p \in UNION Listings :
      p \in selected ~> \/ delivery[p].state = "done" /\ p \in answered
                        \/ delivery[p].state = "archived"
                        \/ fanout[p[2]].pc = "cut"

=============================================================================
