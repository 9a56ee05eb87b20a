----------------------------- MODULE Workspace -----------------------------
(***************************************************************************)
(* What a team manages between two emails.  The eight parts share no row   *)
(* and no message, and a state of one is reached whatever the others do;   *)
(* so a behaviour picks one part and runs that, and together the           *)
(* behaviours are those of the eight specifications.  Inbound relies on    *)
(* the rows of DomainClaims through the abstract ClaimedName, which        *)
(* DomainClaims is shown to implement.                                     *)
(***************************************************************************)
EXTENDS Consent, TeamMembers, DomainClaims, Inbound, Billing, Grants, Topics, EventStream

VARIABLE part   \* the part this behaviour is about

Parts == {"consent", "members", "domains", "inbound", "billing", "grants", "topics",
          "stream"}

workspaceVars == <<part, vars, teamVars, domainVars, inboundVars, billingVars, grantVars,
                   topicVars, streamVars>>

WorkspaceInit ==
    /\ part \in Parts
    /\ Init
    /\ MembersInit
    /\ DomainsInit
    /\ InboundInit
    /\ part # "inbound" => facts = [t \in Teams |-> {}]
    /\ BillingInit
    /\ GrantsInit
    /\ TopicsInit
    /\ StreamInit

Only(p) ==
    /\ part = p
    /\ UNCHANGED part
    /\ p # "consent" => UNCHANGED vars
    /\ p # "members" => UNCHANGED teamVars
    /\ p # "domains" => UNCHANGED domainVars
    /\ p # "inbound" => UNCHANGED inboundVars
    /\ p # "billing" => UNCHANGED billingVars
    /\ p # "grants" => UNCHANGED grantVars
    /\ p # "topics" => UNCHANGED topicVars
    /\ p # "stream" => UNCHANGED streamVars

WorkspaceNext ==
    \/ Only("consent") /\ Next
    \/ Only("members") /\ MembersNext
    \/ Only("domains") /\ DomainsNext
    \/ Only("inbound") /\ InboundNext
    \/ Only("billing") /\ BillingNext
    \/ Only("grants") /\ GrantsNext
    \/ Only("topics") /\ TopicsNext
    \/ Only("stream") /\ StreamNext

WorkspaceSpec == WorkspaceInit /\ [][WorkspaceNext]_workspaceVars

\* The state of the part has its type; that of the others is their first.
WorkspaceTyped ==
    CASE part = "consent" -> TypeOK
      [] part = "members" -> MembersTyped
      [] part = "domains" -> DomainsTyped
      [] part = "inbound" -> InboundTyped
      [] part = "billing" -> BillingTyped
      [] part = "grants"  -> GrantsTyped
      [] part = "topics"  -> TopicsTyped
      [] part = "stream"  -> StreamTyped

=============================================================================
