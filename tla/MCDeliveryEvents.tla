-------------------------- MODULE MCDeliveryEvents --------------------------
(***************************************************************************)
(* One message with a To and a Cc recipient, and the notifications that    *)
(* tell the cases of HandleSESJSON apart.                                  *)
(***************************************************************************)
EXTENDS DeliveryEvents, TLC

CONSTANTS e1, to1, cc1

MCTo == [e \in Emails |-> {to1}]
MCDestination == [e \in Emails |-> {to1, cc1}]

About(type, permanent, affected, known) ==
    [email |-> e1, type |-> type, permanent |-> permanent,
     affected |-> affected, known |-> known]

\* Bounces of nobody, of one and of everybody, one of them without the list of
\* destinations, a complaint, and a type that names no recipient.
MCPublished ==
    {About("delivered", FALSE, {}, TRUE),
     About("bounced", TRUE, {}, TRUE),
     About("bounced", TRUE, {to1}, TRUE),
     About("bounced", TRUE, {to1}, FALSE),
     About("bounced", FALSE, {to1, cc1}, TRUE),
     About("complained", FALSE, {to1, cc1}, TRUE)}

\* Nothing tells two consumers or two unpublished notifications apart.
Symmetry == Permutations(Notifications) \cup Permutations(Consumers)

=============================================================================
