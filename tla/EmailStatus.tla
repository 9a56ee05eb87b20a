---------------------------- MODULE EmailStatus ----------------------------
(***************************************************************************)
(* The status column of the emails table and the pure functions of         *)
(* internal/events that decide how an event moves it.  EmailSend and       *)
(* DeliveryEvents both write the column, with the same functions.          *)
(*                                                                         *)
(* "none" stands for "no such row".  An operator whose comment starts with *)
(* "Fault:" is the operator after it with a plausible bug, and part of no  *)
(* specification.                                                          *)
(***************************************************************************)
EXTENDS FiniteSets

\* The values migrations/001_init.sql lists for emails.status.
EmailStatuses ==
    {"queued", "scheduled", "sent", "delivered", "bounced", "complained",
     "failed", "canceled", "suppressed"}

RowStatuses == EmailStatuses \cup {"none"}

TerminalStatuses == {"bounced", "complained", "failed", "suppressed", "canceled"}

\* The event types Raisin records for an email, without their "email." prefix.
\* mapSESType turns an SES type it does not know into one that statusFromEvent
\* maps to no status, as "opened" does.
EventTypes ==
    {"sent", "delivered", "bounced", "complained", "failed",
     "delivery_delayed", "opened", "clicked"}

\* "" is "this event says nothing about the status".
statusFromEvent(type) ==
    IF type \in {"sent", "delivered", "bounced", "complained", "failed", "suppressed"}
    THEN type ELSE ""

\* The statuses an event can lead to.
EventStatuses == {statusFromEvent(type) : type \in EventTypes} \ {""}

\* Fault: "no status" passes as a status.
canTransitionAlways(from, to) == from \in TerminalStatuses => to \in TerminalStatuses

canTransitionStatus(from, to) ==
    /\ to # ""
    /\ from \in TerminalStatuses => to \in TerminalStatuses

\* Addresses are already normalised (trimmed and lower case) here, so the two
\* slices are sets.  An empty slice means "scope unknown", never "everybody".
recipientsCoverAll(affected, destinations) ==
    /\ affected # {}
    /\ destinations # {}
    /\ destinations \subseteq affected

\* The status writes UpdateSchedule and Cancel are restricted to.
Unsent == {"queued", "scheduled"}

\* The statuses at which HandleEmailSend returns without sending.
SkippedByWorker == {"canceled", "sent", "delivered"}

=============================================================================
