------------------------------ MODULE Inbound ------------------------------
(***************************************************************************)
(* One email that SES received for a domain name, from the notifications   *)
(* that SNS posts to the API until one is answered with 2xx                *)
(* (httpapi/inbound_attachments.go, internal/inbound).  Which team it is   *)
(* for is asked of the domains table, in each delivery anew; what the rows *)
(* of that table promise is ClaimedName.                                   *)
(*                                                                         *)
(* An email has one recipient and one attachment.  Direct ingest, a        *)
(* development aid without message id, is left out.                        *)
(***************************************************************************)
EXTENDS ClaimedName

CONSTANTS
    MaxDeliveries,   \* bound: notifications posted for the email
    MaxMoves         \* bound: changes of the domain's rows after it arrived

ASSUME InboundAssumption == MaxDeliveries \in Nat /\ MaxMoves \in Nat

VARIABLES
    inboundPc,    \* next statement of a delivery
    inboundTeam,  \* the team the delivery is for
    bodiless,     \* deliveries whose email could not be fetched from S3
    received,     \* received_emails: rows of a team with this message id
    attached,     \* received_attachments: rows of that row
    deliveries,   \* notifications posted
    acked,        \* SNS got its 2xx
    moves,
    \* what happened, for the properties only
    holder,       \* the team with the verified claim, open for receiving, all
                  \* the time since the email arrived
    hurt,         \* teams whose row was left without its attachment
    astray        \* a delivery was acknowledged whose SELECT of the team failed

inboundVars == <<facts, inboundPc, inboundTeam, bodiless, received, attached, deliveries,
                 acked, moves, holder, hurt, astray>>

InboundTyped ==
    /\ facts \in [Teams -> SUBSET DomainFacts]
    /\ inboundPc \in [Clients -> {"idle", "find", "insert", "attach"}]
    /\ inboundTeam \in [Clients -> Teams \cup {NoTeam}]
    /\ received \in [Teams -> 0 .. MaxDeliveries]
    /\ attached \in [Teams -> 0 .. MaxDeliveries]
    /\ deliveries \in 0 .. MaxDeliveries
    /\ acked \in BOOLEAN
    /\ moves \in 0 .. MaxMoves
    /\ holder \in Teams \cup {NoTeam}
    /\ hurt \subseteq Teams
    /\ astray \in BOOLEAN
    /\ bodiless \subseteq {c \in Clients : inboundPc[c] \in {"find", "insert"}}
    /\ \A c \in Clients : inboundPc[c] = "idle" <=> inboundTeam[c] = NoTeam

Receivers(f) == {t \in Teams : {"verified", "receiving"} \subseteq f[t]}

\* The team whose claim nobody may overrule, NoTeam when there is none.
HolderIn(f) ==
    IF Claimants(f) \cap Receivers(f) = {} THEN NoTeam
    ELSE CHOOSE t \in Claimants(f) \cap Receivers(f) : TRUE

\* The email arrives; the rows are as they may be by then.
InboundInit ==
    /\ facts \in [Teams -> SUBSET DomainFacts]
    /\ OneClaimant(facts)
    /\ inboundPc = [c \in Clients |-> "idle"]
    /\ inboundTeam = [c \in Clients |-> NoTeam]
    /\ bodiless = {}
    /\ received = [t \in Teams |-> 0]
    /\ attached = [t \in Teams |-> 0]
    /\ deliveries = 0
    /\ acked = FALSE
    /\ moves = 0
    /\ holder = HolderIn(facts)
    /\ hurt = {}
    /\ astray = FALSE

DomainMoves ==
    /\ moves < MaxMoves
    /\ moves' = moves + 1
    /\ NameNext
    /\ holder' = IF HolderIn(facts') = holder THEN holder ELSE NoTeam
    /\ UNCHANGED <<inboundPc, inboundTeam, bodiless, received, attached, deliveries, acked,
                   hurt, astray>>

Deliver(c, next, t) ==
    /\ inboundPc' = [inboundPc EXCEPT ![c] = next]
    /\ inboundTeam' = [inboundTeam EXCEPT ![c] = t]

Respond(c) == Deliver(c, "idle", NoTeam) /\ bodiless' = bodiless \ {c}

\* ORDER BY claimed_at NULLS LAST LIMIT 1: a claim comes first.
teamForRecipients ==
    IF Claimants(facts) \cap Receivers(facts) # {} THEN Claimants(facts) \cap Receivers(facts)
    ELSE Receivers(facts)

\* SNS posts the notification, also once more after its 2xx.  Mail that nobody
\* receives is acknowledged and dropped, and so is mail whose SELECT fails.
Drop(failed) ==
    /\ failed \/ teamForRecipients = {}
    /\ acked' = TRUE
    /\ astray' = (astray \/ failed)
    /\ UNCHANGED <<inboundPc, inboundTeam, bodiless>>

\* The email is fetched from S3; when that fails it is taken without its body.
HandleSESNNotification(c, fetched) ==
    /\ \E t \in teamForRecipients : Deliver(c, "find", t)
    /\ bodiless' = IF fetched THEN bodiless ELSE bodiless \cup {c}
    /\ UNCHANGED <<acked, astray>>

inboundSES(c) ==
    /\ inboundPc[c] = "idle"
    /\ deliveries < MaxDeliveries
    /\ deliveries' = deliveries + 1
    /\ \/ \E failed \in BOOLEAN : Drop(failed)
       \/ \E fetched \in BOOLEAN : HandleSESNNotification(c, fetched)
    /\ UNCHANGED <<facts, received, attached, moves, holder, hurt>>

\* SELECT id FROM received_emails: a row ends the delivery well, whether its
\* attachments are there or not.
FindReceived(c) ==
    /\ inboundPc[c] = "find"
    /\ IF received[inboundTeam[c]] > 0 THEN acked' = TRUE /\ Respond(c)
       ELSE Deliver(c, "insert", inboundTeam[c]) /\ UNCHANGED <<acked, bodiless>>
    /\ UNCHANGED <<facts, received, attached, deliveries, moves, holder, hurt, astray>>

\* The row is there; without the body there is no attachment to save.
AfterInsert(c) ==
    IF c \in bodiless
    THEN acked' = TRUE /\ Respond(c) /\ hurt' = hurt \cup {inboundTeam[c]}
    ELSE Deliver(c, "attach", inboundTeam[c]) /\ UNCHANGED <<acked, bodiless, hurt>>

\* Fault: no unique index, the SELECT is all there is.
InsertAlways(c) ==
    /\ inboundPc[c] = "insert"
    /\ received' = [received EXCEPT ![inboundTeam[c]] = @ + 1]
    /\ AfterInsert(c)
    /\ UNCHANGED <<facts, attached, deliveries, moves, holder, astray>>

\* received_emails_provider_msg_uidx: the second INSERT fails, and the delivery
\* with it, to be posted again.
InsertReceived(c) ==
    /\ inboundPc[c] = "insert"
    /\ IF received[inboundTeam[c]] > 0 THEN Respond(c) /\ UNCHANGED <<received, acked, hurt>>
       ELSE received' = [received EXCEPT ![inboundTeam[c]] = @ + 1] /\ AfterInsert(c)
    /\ UNCHANGED <<facts, attached, deliveries, moves, holder, astray>>

saveAttachment(c) ==
    /\ inboundPc[c] = "attach"
    /\ attached' = [attached EXCEPT ![inboundTeam[c]] = @ + 1]
    /\ acked' = TRUE
    /\ Respond(c)
    /\ UNCHANGED <<facts, received, deliveries, moves, holder, hurt, astray>>

\* A statement or the storage fails, or the process dies: SNS posts again.
DeliveryFails(c) ==
    /\ inboundPc[c] # "idle"
    /\ Respond(c)
    /\ hurt' = IF inboundPc[c] = "attach" THEN hurt \cup {inboundTeam[c]} ELSE hurt
    /\ UNCHANGED <<facts, received, attached, deliveries, acked, moves, holder, astray>>

InboundNext ==
    \/ DomainMoves
    \/ \E c \in Clients :
         \/ inboundSES(c)
         \/ FindReceived(c)
         \/ InsertReceived(c)
         \/ saveAttachment(c)
         \/ DeliveryFails(c)

InboundSpec == InboundInit /\ [][InboundNext]_inboundVars

-----------------------------------------------------------------------------
(* Mail for a name goes to the team whose claim held all the time since it
   arrived, and to no other, however often it is delivered and whatever rows
   other teams have for the name meanwhile (service.go:225-249); SNS is told
   that it arrived only when it did, or when a SELECT of the team failed.
   Deliveries that cross store the email once per team; and once no delivery
   is at work it has its attachment - unless one delivery did not get the body
   from S3, or failed between the row and the attachment, which no later one
   repairs: it finds the row and answers 2xx (service.go:50-69, :213-219).  *)
MailArrivesOnce ==
    /\ holder # NoTeam =>
        /\ \A t \in Teams \ {holder} : received[t] = 0
        /\ acked => received[holder] > 0 \/ astray
    /\ \A t \in Teams :
        /\ received[t] <= 1
        /\ t \notin hurt /\ (\A c \in Clients : inboundTeam[c] # t) =>
             attached[t] = received[t]
=============================================================================
