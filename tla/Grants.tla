------------------------------- MODULE Grants -------------------------------
(***************************************************************************)
(* OAuth apps, the codes with which a team grants them access, and the     *)
(* tokens that descend from a code by exchange and refresh                 *)
(* (internal/oauth).  An exchange reads app and code, spends the code, and *)
(* inserts two tokens, each in a statement of its own, while the app may   *)
(* be deleted.  Hashes stand for the secrets they are of, and redirect     *)
(* URIs are right.                                                         *)
(***************************************************************************)
EXTENDS Naturals, FiniteSets, Tenancy

CONSTANTS
    Apps,        \* apps that may be registered
    MaxGrants    \* bound: codes and tokens ever inserted

ASSUME GrantsAssumption == MaxGrants \in Nat

VARIABLES
    apps,       \* rows of oauth_apps
    given,      \* what was granted: the app and team of each code, for good
    rights,     \* rows of the code and token tables
    grants,     \* rows inserted so far, the source of their ids
    grantPc,    \* next statement of a request
    grantCall   \* the row it presented

grantVars == <<apps, given, rights, grants, grantPc, grantCall>>

\* A right that may be presented: the code of a grant, or a token of it.
RightRows == [id : 1 .. MaxGrants, kind : {"code", "access", "refresh"}, app : Apps,
              team : Teams, code : 1 .. MaxGrants, over : BOOLEAN]
NoRight == [id |-> 0]

GrantsTyped ==
    /\ apps \subseteq Apps
    /\ given \subseteq [code : 1 .. MaxGrants, app : Apps, team : Teams]
    /\ rights \subseteq RightRows
    /\ grants \in 0 .. MaxGrants
    /\ grantPc \in [Clients -> {"idle", "authorize", "spend", "access", "refresh"}]
    /\ \A c \in Clients : grantPc[c] = "idle" <=> grantCall[c] = NoRight
    /\ \A r, q \in rights : r.id = q.id => r = q

GrantsInit ==
    /\ apps = Apps
    /\ given = {}
    /\ rights = {}
    /\ grants = 0
    /\ grantPc = [c \in Clients |-> "idle"]
    /\ grantCall = [c \in Clients |-> NoRight]

GrantStep(c, next, right) ==
    /\ grantPc' = [grantPc EXCEPT ![c] = next]
    /\ grantCall' = [grantCall EXCEPT ![c] = right]

\* Fault: no foreign key.
InsertUnchecked(row) == rights' = rights \cup {row} /\ grants' = grants + 1

\* REFERENCES oauth_apps(id): no row for an app that is gone.
InsertRight(row) ==
    IF row.app \in apps THEN rights' = rights \cup {row} /\ grants' = grants + 1
    ELSE UNCHANGED <<rights, grants>>

\* ON DELETE CASCADE.
DeleteApp(app) ==
    /\ apps' = apps \ {app}
    /\ rights' = {r \in rights : r.app # app}

deleteOAuthApp(app) ==
    /\ app \in apps
    /\ DeleteApp(app)
    /\ UNCHANGED <<given, grants, grantPc, grantCall>>

\* CreateAuthorizationCode: the app is read, then the code inserted.
oauthAuthorize(c, app, t) ==
    /\ grantPc[c] = "idle"
    /\ app \in apps
    /\ GrantStep(c, "authorize", [id |-> 0, app |-> app, team |-> t])
    /\ UNCHANGED <<apps, given, rights, grants>>

InsertCode(c) ==
    LET id == grants + 1
        g  == grantCall[c] IN
    /\ grantPc[c] = "authorize"
    /\ grants < MaxGrants
    /\ InsertRight([id |-> id, kind |-> "code", app |-> g.app, team |-> g.team,
                    code |-> id, over |-> FALSE])
    /\ given' = IF g.app \in apps
                THEN given \cup {[code |-> id, app |-> g.app, team |-> g.team]} ELSE given
    /\ GrantStep(c, "idle", NoRight)
    /\ UNCHANGED apps

\* ExchangeCode and RefreshExchange: what is presented is neither used, revoked
\* nor expired when it is read.
oauthToken(c, right) ==
    /\ grantPc[c] = "idle"
    /\ right.kind \in {"code", "refresh"}
    /\ ~right.over
    /\ GrantStep(c, "spend", right)
    /\ UNCHANGED <<apps, given, rights, grants>>

\* SET used_at or revoked_at, its error dropped; the row may be gone or spent.
Spend(c) ==
    /\ grantPc[c] = "spend"
    /\ rights' = {IF r.id = grantCall[c].id THEN [r EXCEPT !.over = TRUE] ELSE r :
                    r \in rights}
    /\ GrantStep(c, "access", grantCall[c])
    /\ UNCHANGED <<apps, given, grants>>

\* issueTokens: two INSERTs with the app and team that were read.
IssueToken(c, kind, next, right) ==
    /\ grantPc[c] = kind
    /\ grants < MaxGrants
    /\ InsertRight([grantCall[c] EXCEPT !.id = grants + 1, !.kind = kind])
    /\ IF grantCall[c].app \in apps THEN GrantStep(c, next, right)
       ELSE GrantStep(c, "idle", NoRight)
    /\ UNCHANGED <<apps, given>>

issueTokens(c) ==
    \/ IssueToken(c, "access", "refresh", grantCall[c])
    \/ IssueToken(c, "refresh", "idle", NoRight)

\* Ten minutes, an hour or thirty days are over.
ExpireRight(right) ==
    /\ ~right.over
    /\ rights' = (rights \ {right}) \cup {[right EXCEPT !.over = TRUE]}
    /\ UNCHANGED <<apps, given, grants, grantPc, grantCall>>

\* The UPDATE of Spend fails and is ignored, or the request dies.
GrantStepFails(c) ==
    /\ grantPc[c] # "idle"
    /\ \/ grantPc[c] = "spend" /\ GrantStep(c, "access", grantCall[c])
       \/ GrantStep(c, "idle", NoRight)
    /\ UNCHANGED <<apps, given, rights, grants>>

GrantsNext ==
    \/ \E app \in Apps : deleteOAuthApp(app)
    \/ \E right \in rights : ExpireRight(right)
    \/ \E c \in Clients :
         \/ \E app \in Apps, t \in Teams : oauthAuthorize(c, app, t)
         \/ \E right \in rights : oauthToken(c, right)
         \/ InsertCode(c)
         \/ Spend(c)
         \/ issueTokens(c)
         \/ GrantStepFails(c)

GrantsSpec == GrantsInit /\ [][GrantsNext]_grantVars

-----------------------------------------------------------------------------
\* LookupAccessToken: the team a request acts for, {} when it is refused.
LookupAccessToken(id) ==
    {r.team : r \in {q \in rights : q.id = id /\ q.kind = "access" /\ ~q.over}}

(* A token acts for no team but the one that granted the code it descends from,
   through any number of refreshes and crossing exchanges, and for none once its
   app is deleted, also when the deletion comes between the two INSERTs of an
   exchange (service.go:180-313).                                           *)
TokensFollowGrants ==
    \A r \in rights :
        /\ r.app \in apps
        /\ [code |-> r.code, app |-> r.app, team |-> r.team] \in given
        /\ LookupAccessToken(r.id) \subseteq
             {g.team : g \in {h \in given : h.code = r.code}}
=============================================================================
