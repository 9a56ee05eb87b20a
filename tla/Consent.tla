------------------------------ MODULE Consent ------------------------------
(***************************************************************************)
(* Who may be sent to.  Two tables say no: suppressions, and the           *)
(* unsubscribed flag of contacts.  An unsubscribe link                     *)
(* (Handlers.handleUnsubscribe) and PATCH /contacts/{id}                   *)
(* (audience.Service.UpdateContact) write both, one statement after the    *)
(* other and without a transaction, and drop the errors; contacts are      *)
(* deleted and created again; SES events and the API write suppressions;   *)
(* and email.Service.Send reads one table after the other.                 *)
(*                                                                         *)
(* One action is one statement.  A contact's id is used once: UpdateContact *)
(* has the id, the link only the address.  Topics are left out: a topic    *)
(* subscription is one row, written by one upsert.                         *)
(*                                                                         *)
(* An operator whose comment starts with "Fault:" is no part of the        *)
(* specification.  It is the operator after it with a plausible bug, and   *)
(* shows that some property can fail.                                      *)
(***************************************************************************)
EXTENDS Naturals, Suppressions

CONSTANTS
    Addrs,        \* addresses
    NoAddr,       \* "no address"
    Calls,        \* concurrent requests
    MaxContacts,  \* bound: contacts created per address
    MaxFailures   \* bound: statements that fail

ASSUME ConsentAssumption ==
    /\ NoAddr \notin Addrs
    /\ MaxContacts \in Nat
    /\ MaxFailures \in Nat

VARIABLES
    \* Postgres
    contact,       \* the id of the address's contact, 0 when there is none
    created,       \* contacts created so far
    unsubscribed,  \* contacts.unsubscribed
    reason,        \* suppressions.reason
    \* the requests
    pc,            \* next statement, "idle" when there is none
    addr,          \* the address it is about
    id,            \* UpdateContact: the contact
    wish,          \* UpdateContact: the new value of unsubscribed
    clean,         \* no statement of the request failed so far
    failures,
    \* what happened, for the properties only
    out,           \* addresses whose owner wants no email
    unwilling      \* requests of Send whose recipient wanted none all the time

postgres == <<contact, created, unsubscribed, reason>>
request  == <<addr, id, wish, clean>>

vars == <<postgres, pc, request, failures, out, unwilling>>

\* handleUnsubscribe: mark, suppress.  UpdateContact: flag, find, then suppress
\* or unsuppress.  Send: lookup, contact, then accept.
Pcs == {"idle", "mark", "flag", "find", "suppress", "unsuppress",
        "lookup", "contact", "accept"}

TypeOK ==
    /\ contact      \in [Addrs -> 0 .. MaxContacts]
    /\ created      \in [Addrs -> 0 .. MaxContacts]
    /\ unsubscribed \in [Addrs -> BOOLEAN]
    /\ reason       \in [Addrs -> Reasons \cup {"none"}]
    /\ pc           \in [Calls -> Pcs]
    /\ addr         \in [Calls -> Addrs \cup {NoAddr}]
    /\ id           \in [Calls -> 0 .. MaxContacts]
    /\ wish         \in [Calls -> BOOLEAN]
    /\ clean        \in [Calls -> BOOLEAN]
    /\ failures     \in 0 .. MaxFailures
    /\ out          \subseteq Addrs
    /\ unwilling    \subseteq Calls
    /\ \A a \in Addrs : contact[a] = 0 => ~unsubscribed[a]

Init ==
    /\ contact      = [a \in Addrs |-> 0]
    /\ created      = [a \in Addrs |-> 0]
    /\ unsubscribed = [a \in Addrs |-> FALSE]
    /\ reason       = [a \in Addrs |-> "none"]
    /\ pc           = [c \in Calls |-> "idle"]
    /\ addr         = [c \in Calls |-> NoAddr]
    /\ id           = [c \in Calls |-> 0]
    /\ wish         = [c \in Calls |-> FALSE]
    /\ clean        = [c \in Calls |-> TRUE]
    /\ failures     = 0
    /\ out          = {}
    /\ unwilling    = {}

-----------------------------------------------------------------------------
(***************************************************************************)
(* What the owner of an address wants.                                     *)
(***************************************************************************)

\* An UpdateContact that has resubscribed the contact of the address, and is
\* about to do so in suppressions.
Resubscribing(a) ==
    \E c \in Calls : addr[c] = a /\ pc[c] \in {"find", "unsuppress"} /\ ~wish[c]

\* A request to unsubscribe has done all it had to do.  It counts unless it
\* crossed with a resubscription that came to the contact after it.
NowOut(a) ==
    out' = IF unsubscribed[a] \/ ~Resubscribing(a) THEN out \cup {a} ELSE out

\* Someone takes the wish back.
NowIn(a) ==
    /\ out' = out \ {a}
    /\ unwilling' = {c \in unwilling : addr[c] # a}

-----------------------------------------------------------------------------
(***************************************************************************)
(* Requests.                                                               *)
(***************************************************************************)

Begin(c, first, a, i, w) ==
    /\ pc[c] = "idle"
    /\ pc'    = [pc EXCEPT ![c] = first]
    /\ addr'  = [addr EXCEPT ![c] = a]
    /\ id'    = [id EXCEPT ![c] = i]
    /\ wish'  = [wish EXCEPT ![c] = w]
    /\ UNCHANGED <<postgres, clean, failures, out>>

Then(c, next) ==
    /\ pc' = [pc EXCEPT ![c] = next]
    /\ UNCHANGED request

Return(c) ==
    /\ pc'    = [pc EXCEPT ![c] = "idle"]
    /\ addr'  = [addr EXCEPT ![c] = NoAddr]
    /\ id'    = [id EXCEPT ![c] = 0]
    /\ wish'  = [wish EXCEPT ![c] = FALSE]
    /\ clean' = [clean EXCEPT ![c] = TRUE]

AfterError == [mark |-> "suppress", flag |-> "find",
               lookup |-> "contact", contact |-> "accept"]

\* A statement fails and its error is dropped: the request goes on, Send as if
\* the address was not on the list, or its contact not unsubscribed.  Any other
\* failure ends the request.
StatementFails(c) ==
    /\ pc[c] # "idle"
    /\ failures < MaxFailures
    /\ failures' = failures + 1
    /\ IF pc[c] \in DOMAIN AfterError
       THEN /\ pc' = [pc EXCEPT ![c] = AfterError[pc[c]]]
            /\ clean' = [clean EXCEPT ![c] = FALSE]
            /\ UNCHANGED <<addr, id, wish>>
            /\ IF pc[c] = "flag" /\ ~wish[c] THEN NowIn(addr[c])
               ELSE UNCHANGED <<out, unwilling>>
       ELSE /\ Return(c)
            /\ unwilling' = unwilling \ {c}
            /\ UNCHANGED out
    /\ UNCHANGED postgres

\* The process dies, or the client goes away and its context ends.
Abort(c) ==
    /\ pc[c] # "idle"
    /\ failures < MaxFailures
    /\ failures' = failures + 1
    /\ Return(c)
    /\ unwilling' = unwilling \ {c}
    /\ UNCHANGED <<postgres, out>>

-----------------------------------------------------------------------------
(***************************************************************************)
(* The unsubscribe link.                                                   *)
(***************************************************************************)

\* resolveUnsubTargets: the one recipient that was asked for or is alone.
Unsubscribe(c, a) == Begin(c, "mark", a, 0, TRUE) /\ UNCHANGED unwilling

\* UPDATE contacts: no row when there is no contact.
MarkContact(c) ==
    LET a == addr[c] IN
    /\ pc[c] = "mark"
    /\ unsubscribed' = [unsubscribed EXCEPT ![a] = contact[a] # 0]
    /\ Then(c, "suppress")
    /\ UNCHANGED <<contact, created, reason, failures, out, unwilling>>

\* INSERT INTO suppressions, the last statement of both handlers.
Suppress(c) ==
    LET a == addr[c] IN
    /\ pc[c] = "suppress"
    /\ reason' = [reason EXCEPT ![a] = mergedReason(@, "unsubscribe")]
    /\ IF clean[c] THEN NowOut(a) ELSE UNCHANGED out
    /\ Return(c)
    /\ UNCHANGED <<contact, created, unsubscribed, failures, unwilling>>

-----------------------------------------------------------------------------
(***************************************************************************)
(* Contacts.                                                               *)
(***************************************************************************)

Upsert(a, flag) ==
    /\ IF contact[a] = 0
       THEN /\ created[a] < MaxContacts
            /\ created' = [created EXCEPT ![a] = @ + 1]
            /\ contact' = [contact EXCEPT ![a] = created[a] + 1]
       ELSE UNCHANGED <<contact, created>>
    /\ unsubscribed' = [unsubscribed EXCEPT ![a] = flag]
    /\ UNCHANGED <<reason, pc, request, failures, out, unwilling>>

\* Fault: the upsert sets the column default for a contact that exists.
CreateFreshContact(a) == Upsert(a, FALSE)

\* ON CONFLICT DO UPDATE leaves the flag of a contact that exists alone.
CreateContact(a) == Upsert(a, unsubscribed[a])

\* The flag goes with the contact; suppressions stay.  Nothing is left of a wish
\* that only the flag held, or that a resubscription on its way will delete; and
\* a Send that found no suppression earlier finds no flag any more.
DeleteRow(a, flag) ==
    /\ contact[a] # 0
    /\ contact' = [contact EXCEPT ![a] = 0]
    /\ unsubscribed' = [unsubscribed EXCEPT ![a] = flag]
    /\ IF Resubscribing(a) \/ reason[a] = "none"
       THEN NowIn(a)
       ELSE /\ unwilling' = {c \in unwilling : addr[c] # a \/ pc[c] # "contact"}
            /\ UNCHANGED out
    /\ UNCHANGED <<created, reason, pc, request, failures>>

\* Fault: the flag outlives the contact.
DeleteContactOnly(a) == DeleteRow(a, unsubscribed[a])

DeleteContact(a) == DeleteRow(a, FALSE)

UpdateContact(c, a, w) ==
    /\ contact[a] # 0
    /\ Begin(c, "flag", a, contact[a], w)
    /\ UNCHANGED unwilling

\* UPDATE contacts ... WHERE id = $1
FlagContact(c) ==
    LET a == addr[c] IN
    /\ pc[c] = "flag"
    /\ IF contact[a] = id[c]
       THEN /\ unsubscribed' = [unsubscribed EXCEPT ![a] = wish[c]]
            /\ IF wish[c] THEN UNCHANGED <<out, unwilling>> ELSE NowIn(a)
       ELSE UNCHANGED <<unsubscribed, out, unwilling>>
    /\ Then(c, "find")
    /\ UNCHANGED <<contact, created, reason, failures>>

\* SELECT email: a contact that was deleted meanwhile ends the request.
FindAddress(c) ==
    /\ pc[c] = "find"
    /\ IF contact[addr[c]] = id[c]
       THEN Then(c, IF wish[c] THEN "suppress" ELSE "unsuppress")
       ELSE Return(c)
    /\ UNCHANGED <<postgres, failures, out, unwilling>>

UnsuppressFor(c, reasons) ==
    LET a == addr[c] IN
    /\ pc[c] = "unsuppress"
    /\ reason' = IF reason[a] \in reasons THEN [reason EXCEPT ![a] = "none"] ELSE reason
    /\ Return(c)
    /\ UNCHANGED <<contact, created, unsubscribed, failures, out, unwilling>>

\* Fault: whatever the reason is.
UnsuppressAny(c) == UnsuppressFor(c, Reasons)

\* DELETE FROM suppressions ... AND reason = 'unsubscribe'
Unsuppress(c) == UnsuppressFor(c, {"unsubscribe"})

-----------------------------------------------------------------------------
(***************************************************************************)
(* suppression.Service, called by the API and for SES events.              *)
(***************************************************************************)

Add(a, new) ==
    /\ reason' = [reason EXCEPT ![a] = mergedReason(@, new)]
    /\ UNCHANGED <<contact, created, unsubscribed, pc, request, failures, out, unwilling>>

Remove(a) ==
    /\ reason[a] # "none"
    /\ reason' = [reason EXCEPT ![a] = "none"]
    /\ NowIn(a)
    /\ UNCHANGED <<contact, created, unsubscribed, pc, request, failures>>

-----------------------------------------------------------------------------
(***************************************************************************)
(* email.Service.Send, for one recipient.                                  *)
(***************************************************************************)

SendTo(c, a) ==
    /\ Begin(c, "lookup", a, 0, FALSE)
    /\ unwilling' = IF a \in out THEN unwilling \cup {c} ELSE unwilling

\* SELECT ... FROM suppressions: a row refuses the email.
LookupSuppression(c) ==
    /\ pc[c] = "lookup"
    /\ IF reason[addr[c]] # "none"
       THEN Return(c) /\ unwilling' = unwilling \ {c}
       ELSE Then(c, "contact") /\ UNCHANGED unwilling
    /\ UNCHANGED <<postgres, failures, out>>

\* Fault: every address that wants no email is on the list.
LookupNoContact(c) ==
    /\ pc[c] = "contact"
    /\ Then(c, "accept")
    /\ UNCHANGED <<postgres, failures, out, unwilling>>

\* SELECT ... FROM contacts: the flag refuses the email.
LookupContact(c) ==
    /\ pc[c] = "contact"
    /\ IF unsubscribed[addr[c]]
       THEN Return(c) /\ unwilling' = unwilling \ {c}
       ELSE Then(c, "accept") /\ UNCHANGED unwilling
    /\ UNCHANGED <<postgres, failures, out>>

\* The rest of Send inserts and queues the email.
Accept(c) ==
    /\ pc[c] = "accept"
    /\ Return(c)
    /\ unwilling' = unwilling \ {c}
    /\ UNCHANGED <<postgres, failures, out>>

Next ==
    \/ \E a \in Addrs :
          \/ CreateContact(a)
          \/ DeleteContact(a)
          \/ Remove(a)
          \/ \E new \in Reasons : Add(a, new)
          \/ \E c \in Calls : \/ Unsubscribe(c, a)
                              \/ SendTo(c, a)
                              \/ \E w \in BOOLEAN : UpdateContact(c, a, w)
    \/ \E c \in Calls :
          \/ MarkContact(c)
          \/ Suppress(c)
          \/ FlagContact(c)
          \/ FindAddress(c)
          \/ Unsuppress(c)
          \/ LookupSuppression(c)
          \/ LookupContact(c)
          \/ Accept(c)
          \/ StatementFails(c)
          \/ Abort(c)

Spec == Init /\ [][Next]_vars

-----------------------------------------------------------------------------
(***************************************************************************)
(* Properties.                                                             *)
(***************************************************************************)

\* An address whose owner unsubscribed stays refused, by one table or the other,
\* until the wish is taken back: no crossing with a resubscription, and no
\* contact deleted or created again, lets the two tables forget it both.
UnsubscribeHolds == \A a \in out : reason[a] # "none" \/ unsubscribed[a]

\* Send does not accept an email for a recipient who wanted none all the time,
\* although it looks in one table after the other while both change - unless one
\* of the two SELECTs failed (then it accepts whatever the table says), or the
\* contact was deleted between them.
AcceptedMeansWilling ==
    [][\A c \in unwilling : clean[c] => ~Accept(c)]_vars

\* A bounce or complaint leaves the list through DELETE /suppressions only, not
\* by a resubscription nor by a softer reason that comes later.
HardReasonsStay ==
    [][\A a \in Addrs :
          reason[a] \in HardReasons /\ reason'[a] \notin HardReasons => Remove(a)]_vars

=============================================================================
