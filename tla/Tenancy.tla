------------------------------ MODULE Tenancy ------------------------------
(***************************************************************************)
(* What the request handlers of the API share: the teams whose rows they   *)
(* read and write, and the requests that several API processes serve at    *)
(* the same time.                                                          *)
(***************************************************************************)
CONSTANTS
    Teams,     \* rows of teams
    NoTeam,    \* uuid.Nil
    Clients,   \* requests served at the same time
    NoClient   \* "no request"

ASSUME TenancyAssumption == NoTeam \notin Teams /\ NoClient \notin Clients
=============================================================================
