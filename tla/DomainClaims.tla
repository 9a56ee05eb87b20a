---------------------------- MODULE DomainClaims ----------------------------
(***************************************************************************)
(* One domain name and the rows several teams have for it                  *)
(* (internal/domain): created, verified against SES, claimed by a DNS      *)
(* challenge, opened for receiving, deleted.  The SES identity belongs to  *)
(* the name, not to a row.  A handler reads the row, asks SES or DNS, and  *)
(* updates the row by its id in a later statement.                         *)
(*                                                                         *)
(* The statements on domain_records follow the one on their domain and     *)
(* their errors are dropped; they are one step with it.  The tracking      *)
(* flags and BIMI fields are left out: nothing here reads them.            *)
(***************************************************************************)
EXTENDS Naturals, Tenancy

CONSTANTS MaxDomains   \* bound: rows ever inserted into domains

ASSUME DomainsAssumption == MaxDomains \in Nat

VARIABLES
    domain,       \* the row of a team: whether it has a challenge, and which of
                  \* status = verified, claimed_at and receiving_enabled are set
    domainRows,   \* rows inserted so far, the source of row ids
    identity,     \* the name has an identity at SES
    domainPc,     \* next statement of a request
    domainCall    \* what the request remembers

domainVars == <<domain, domainRows, identity, domainPc, domainCall>>

NoDomain == [id |-> 0, token |-> FALSE, facts |-> {}]
NoDomainCall == [team |-> NoTeam, id |-> 0, value |-> FALSE]

DomainsTyped ==
    /\ domain \in [Teams -> [id : 0 .. MaxDomains, token : BOOLEAN,
                             facts : SUBSET {"verified", "claimed", "receiving"}]]
    /\ domainRows \in 0 .. MaxDomains
    /\ identity \in BOOLEAN
    /\ domainPc \in [Clients -> {"idle", "insert", "status", "token", "claim",
                                 "receiving", "delete"}]
    /\ \A c \in Clients :
         /\ domainCall[c].team \in Teams \cup {NoTeam}
         /\ domainCall[c].team = NoTeam => domainPc[c] = "idle"
         /\ domainCall[c].id \in 0 .. domainRows

DomainsInit ==
    /\ domain = [t \in Teams |-> NoDomain]
    /\ domainRows = 0
    /\ identity = FALSE
    /\ domainPc = [c \in Clients |-> "idle"]
    /\ domainCall = [c \in Clients |-> NoDomainCall]

\* Service.Get, the first statement of every handler but the one that creates.
HasDomain(t) == domain[t].id # 0

AskDomain(c, first, t, value) ==
    /\ domainPc[c] = "idle"
    /\ domainPc' = [domainPc EXCEPT ![c] = first]
    /\ domainCall' = [domainCall EXCEPT ![c] = [team |-> t, id |-> domain[t].id,
                                                value |-> value]]

AnswerDomain(c) ==
    /\ domainPc' = [domainPc EXCEPT ![c] = "idle"]
    /\ domainCall' = [domainCall EXCEPT ![c] = NoDomainCall]

Claims(row) == {"verified", "claimed"} \subseteq row.facts

\* Fault: the index is not unique.
ClaimIsAnyones(t, row) == TRUE

\* domains_claimed_name_uidx.
ClaimIsFree(t, row) ==
    Claims(row) => \A u \in Teams \ {t} : ~Claims(domain[u])

\* UPDATE domains ... WHERE id = $1: no row when it is gone, an error that
\* changes nothing when the index refuses the new row.
UpdateRow(c, row) ==
    LET t == domainCall[c].team IN
    domain' = IF domain[t].id = domainCall[c].id /\ HasDomain(t) /\ ClaimIsFree(t, row)
              THEN [domain EXCEPT ![t] = row] ELSE domain

UpdateFact(c, fact, holds) ==
    UpdateRow(c, [domain[domainCall[c].team] EXCEPT
                    !.facts = IF holds THEN @ \cup {fact} ELSE @ \ {fact}])

-----------------------------------------------------------------------------
\* SESIdentity.CreateDomain: an identity that exists is fine.
createDomain(c, t) ==
    /\ AskDomain(c, "insert", t, FALSE)
    /\ identity' = TRUE
    /\ UNCHANGED <<domain, domainRows>>

\* UNIQUE (team_id, name) refuses a second row.
InsertDomain(c) ==
    LET t == domainCall[c].team IN
    /\ domainPc[c] = "insert"
    /\ IF HasDomain(t) THEN UNCHANGED <<domain, domainRows>>
       ELSE /\ domainRows < MaxDomains
            /\ domainRows' = domainRows + 1
            /\ domain' = [domain EXCEPT ![t] = [NoDomain EXCEPT !.id = domainRows + 1]]
    /\ AnswerDomain(c)
    /\ UNCHANGED identity

\* SESIdentity.VerifyDomain: an identity that was deleted is an error; whether
\* it is verified hangs on the customer's DNS, whose records come and go.  The
\* API and the domain:verify task that it enqueues both run this; a task may
\* come at any time after, and so may the next call: tasks are not counted.
verifyDomain(c, t, verified) ==
    /\ HasDomain(t)
    /\ identity
    /\ AskDomain(c, "status", t, verified)
    /\ UNCHANGED <<domain, domainRows, identity>>

\* The status as SES told it; an error of the UPDATE is dropped.
SetStatus(c) ==
    /\ domainPc[c] = "status"
    /\ UpdateFact(c, "verified", domainCall[c].value)
    /\ AnswerDomain(c)
    /\ UNCHANGED <<domainRows, identity>>

-----------------------------------------------------------------------------
\* The SELECT that asks for another team's claim sees verified rows only.
claimDomain(c, t) ==
    /\ HasDomain(t)
    /\ "verified" \in domain[t].facts
    /\ \A u \in Teams \ {t} : ~Claims(domain[u])
    /\ AskDomain(c, "token", t, FALSE)
    /\ UNCHANGED <<domain, domainRows, identity>>

SetToken(c) ==
    /\ domainPc[c] = "token"
    /\ UpdateRow(c, [domain[domainCall[c].team] EXCEPT !.token = TRUE])
    /\ AnswerDomain(c)
    /\ UNCHANGED <<domainRows, identity>>

\* The DNS lookup finds the token, or the request ends.  The SELECT that asks
\* for another claim ends it, too, but not when it fails: its error is dropped,
\* so the request may go on whoever has claimed the name.
confirmClaimDomain(c, t) ==
    /\ HasDomain(t)
    /\ domain[t].token
    /\ AskDomain(c, "claim", t, FALSE)
    /\ UNCHANGED <<domain, domainRows, identity>>

SetClaimed(c) ==
    /\ domainPc[c] = "claim"
    /\ UpdateFact(c, "claimed", TRUE)
    /\ AnswerDomain(c)
    /\ UNCHANGED <<domainRows, identity>>

releaseClaimDomain(t) ==
    /\ HasDomain(t)
    /\ domain' = [domain EXCEPT ![t].facts = @ \ {"claimed"}, ![t].token = FALSE]
    /\ UNCHANGED <<domainRows, identity, domainPc, domainCall>>

setDomainReceiving(c, t, enabled) ==
    /\ HasDomain(t)
    /\ enabled => "verified" \in domain[t].facts
    /\ AskDomain(c, "receiving", t, enabled)
    /\ UNCHANGED <<domain, domainRows, identity>>

SetReceiving(c) ==
    /\ domainPc[c] = "receiving"
    /\ UpdateFact(c, "receiving", domainCall[c].value)
    /\ AnswerDomain(c)
    /\ UNCHANGED <<domainRows, identity>>

\* The identity goes first, and with it that of every team with this name; SES
\* may refuse, the error is dropped.
deleteDomain(c, t) ==
    /\ HasDomain(t)
    /\ AskDomain(c, "delete", t, FALSE)
    /\ identity' \in {FALSE, identity}
    /\ UNCHANGED <<domain, domainRows>>

DeleteDomainRow(c) ==
    /\ domainPc[c] = "delete"
    /\ UpdateRow(c, NoDomain)
    /\ AnswerDomain(c)
    /\ UNCHANGED <<domainRows, identity>>

\* The process dies, or a statement fails and the request with it.
DomainCallDies(c) ==
    /\ domainPc[c] # "idle"
    /\ AnswerDomain(c)
    /\ UNCHANGED <<domain, domainRows, identity>>

DomainsNext ==
    \/ \E t \in Teams : releaseClaimDomain(t)
    \/ \E c \in Clients :
         \/ InsertDomain(c)
         \/ SetStatus(c)
         \/ SetToken(c)
         \/ SetClaimed(c)
         \/ SetReceiving(c)
         \/ DeleteDomainRow(c)
         \/ DomainCallDies(c)
         \/ \E t \in Teams :
              \/ createDomain(c, t)
              \/ claimDomain(c, t)
              \/ confirmClaimDomain(c, t)
              \/ deleteDomain(c, t)
              \/ \E verified \in BOOLEAN : verifyDomain(c, t, verified)
              \/ \E enabled \in BOOLEAN : setDomainReceiving(c, t, enabled)

DomainsSpec == DomainsInit /\ [][DomainsNext]_domainVars

-----------------------------------------------------------------------------
\* What other parts may rely on.
Facts == [t \in Teams |-> domain[t].facts]

Promise == INSTANCE ClaimedName WITH facts <- Facts

(* The rows keep what ClaimedName promises: the facts of one team change at a
   time, and a verified name is claimed by one team at most, whatever the order
   in which two teams verify, confirm, lose and regain their verification.  The
   two checks of Claim and ConfirmClaim look at different rows, each in a
   statement before the UPDATE it protects, and the second may fail unseen
   (extras.go:26-37, :68-76).                                               *)
ImplementsClaimedName == Promise!NameSpec
=============================================================================
