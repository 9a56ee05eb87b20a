---------------------------- MODULE TeamMembers ----------------------------
(***************************************************************************)
(* The members of a team and the invitations by which they join            *)
(* (internal/httpapi/team_invites.go, console.go).  Every SQL statement    *)
(* outside a transaction is a step of its own: several API processes serve *)
(* the Console at the same time and a role read by one statement may be    *)
(* stale when the next one runs.                                           *)
(***************************************************************************)
EXTENDS Naturals, Tenancy

CONSTANTS
    Users,     \* rows of users, named by their email
    NoUser,    \* uuid.Nil: the user of a token that names none
    TokenUsers, \* bound: the user ids consoleToken is asked for
    Invites,   \* invitations that may be created
    MaxMemberRows    \* bound: rows ever inserted into members

ASSUME TeamMembersAssumption ==
    /\ NoUser \notin Users
    /\ TokenUsers \subseteq Users \cup {NoUser}
    /\ MaxMemberRows \in Nat

VARIABLES
    member,      \* members: the row of a user in a team
    memberRows,  \* rows inserted so far, the source of row ids
    invite,      \* team_invites
    lockedBy,    \* the transaction that holds the invite's row lock
    sessions,    \* console JWTs issued; what they say is never re-read
    memberPc,    \* next statement of a request
    memberCall   \* what the request remembers

teamVars == <<member, memberRows, invite, lockedBy, sessions, memberPc, memberCall>>

TeamRoles  == {"owner", "admin", "member"}
NoMember   == [role |-> "none", id |-> 0]
MemberRows == [role : TeamRoles, id : 1 .. MaxMemberRows]
Sessions   == [team : Teams, user : Users \cup {NoUser}, role : TeamRoles]
NoInvite   == [status |-> "unused"]
InviteRows == [status : {"pending", "accepted", "revoked"}, team : Teams,
               user : Users, role : {"admin", "member"}, expired : BOOLEAN]
NoMemberCall == [op |-> "none"]

MembersTyped ==
    /\ member \in [Teams -> [Users -> MemberRows \cup {NoMember}]]
    /\ memberRows \in 0 .. MaxMemberRows
    /\ invite \in [Invites -> InviteRows \cup {NoInvite}]
    /\ lockedBy \in [Invites -> Clients \cup {NoClient}]
    /\ sessions \subseteq Sessions
    /\ memberPc \in [Clients -> {"idle", "findTeam", "createTeam", "own", "update",
                                 "delete", "insert", "admit"}]
    /\ \A c \in Clients : memberPc[c] = "idle" <=> memberCall[c] = NoMemberCall

MembersInit ==
    /\ member = [t \in Teams |-> [u \in Users |-> NoMember]]
    /\ memberRows = 0
    /\ invite = [i \in Invites |-> NoInvite]
    /\ lockedBy = [i \in Invites |-> NoClient]
    /\ sessions = {}
    /\ memberPc = [c \in Clients |-> "idle"]
    /\ memberCall = [c \in Clients |-> NoMemberCall]

IsTeamAdmin(role) == role \in {"owner", "admin"}

IsMember(t, u) == member[t][u] # NoMember

\* INSERT INTO members: a fresh row, refused by UNIQUE (team_id, user_id).
InsertMember(t, u, role) ==
    /\ memberRows < MaxMemberRows
    /\ memberRows' = memberRows + 1
    /\ member' = [member EXCEPT ![t][u] = [role |-> role, id |-> memberRows + 1]]

StartCall(c, first, args) ==
    /\ memberPc[c] = "idle"
    /\ memberPc' = [memberPc EXCEPT ![c] = first]
    /\ memberCall' = [memberCall EXCEPT ![c] = args]

EndCall(c) ==
    /\ memberPc' = [memberPc EXCEPT ![c] = "idle"]
    /\ memberCall' = [memberCall EXCEPT ![c] = NoMemberCall]

IssueConsoleJWT(t, u, role) ==
    sessions' = sessions \cup {[team |-> t, user |-> u, role |-> role]}

-----------------------------------------------------------------------------
\* Signing in: a user without a team gets one and owns it.

\* The user id of the request is taken as it is, a member or not.
consoleToken(t) ==
    /\ \E u \in Users : IsMember(t, u)
    /\ \E u \in TokenUsers : IssueConsoleJWT(t, u, "owner")
    /\ UNCHANGED <<member, memberRows, invite, lockedBy, memberPc, memberCall>>

consoleProvision(c, u) ==
    /\ StartCall(c, "findTeam", [op |-> "provision", user |-> u])
    /\ UNCHANGED <<member, memberRows, invite, lockedBy, sessions>>

\* The oldest membership is taken; no property tells memberships apart by age.
\* A SELECT that fails counts as no membership, and the user gets a further team.
FindTeam(c) ==
    /\ memberPc[c] = "findTeam"
    /\ LET u == memberCall[c].user IN
       \/ \E t \in Teams :
            /\ IsMember(t, u)
            /\ IssueConsoleJWT(t, u, member[t][u].role)
            /\ EndCall(c)
       \/ /\ memberPc' = [memberPc EXCEPT ![c] = "createTeam"]
          /\ UNCHANGED <<sessions, memberCall>>
    /\ UNCHANGED <<member, memberRows, invite, lockedBy>>

\* No request works on a team before its INSERT.
IsFreshTeam(t) ==
    /\ \A u \in Users : ~IsMember(t, u)
    /\ \A d \in Clients : memberPc[d] = "own" => memberCall[d].team # t
    /\ \A s \in sessions : s.team # t

CreateTeam(c) ==
    /\ memberPc[c] = "createTeam"
    /\ \E t \in Teams :
         /\ IsFreshTeam(t)
         /\ memberCall' = [memberCall EXCEPT
              ![c] = [op |-> "provision", user |-> memberCall[c].user, team |-> t]]
    /\ memberPc' = [memberPc EXCEPT ![c] = "own"]
    /\ UNCHANGED <<member, memberRows, invite, lockedBy, sessions>>

InsertOwner(c) ==
    /\ memberPc[c] = "own"
    /\ InsertMember(memberCall[c].team, memberCall[c].user, "owner")
    /\ IssueConsoleJWT(memberCall[c].team, memberCall[c].user, "owner")
    /\ EndCall(c)
    /\ UNCHANGED <<invite, lockedBy>>

-----------------------------------------------------------------------------
\* Changing and removing members.

updateTeamMember(c, s, u, role) ==
    /\ s.role = "owner"
    /\ IsMember(s.team, u)
    /\ member[s.team][u].role # "owner"
    /\ StartCall(c, "update", [op |-> "update", team |-> s.team, user |-> u,
                           id |-> member[s.team][u].id, role |-> role])
    /\ UNCHANGED <<member, memberRows, invite, lockedBy, sessions>>

\* WHERE id = $1 AND team_id = $2: the row that was read, if it still exists.
StillThatRow(c) ==
    /\ IsMember(memberCall[c].team, memberCall[c].user)
    /\ member[memberCall[c].team][memberCall[c].user].id = memberCall[c].id

UpdateRole(c) ==
    LET q == memberCall[c] IN
    /\ memberPc[c] = "update"
    /\ member' = IF StillThatRow(c) /\ member[q.team][q.user].role # "owner"
                 THEN [member EXCEPT ![q.team][q.user].role = q.role] ELSE member
    /\ EndCall(c)
    /\ UNCHANGED <<memberRows, invite, lockedBy, sessions>>

\* Leaving is allowed to everyone but the owner, removing others to admins.
MayRemove(s, u) ==
    /\ member[s.team][u].role # "owner"
    /\ s.user # u => /\ IsTeamAdmin(s.role)
                     /\ ~(s.role = "admin" /\ member[s.team][u].role = "admin")

removeTeamMember(c, s, u) ==
    /\ IsMember(s.team, u)
    /\ MayRemove(s, u)
    /\ StartCall(c, "delete", [op |-> "remove", team |-> s.team, user |-> u,
                           id |-> member[s.team][u].id])
    /\ UNCHANGED <<member, memberRows, invite, lockedBy, sessions>>

DeleteMember(c) ==
    LET q == memberCall[c] IN
    /\ memberPc[c] = "delete"
    /\ member' = IF StillThatRow(c) THEN [member EXCEPT ![q.team][q.user] = NoMember]
                 ELSE member
    /\ EndCall(c)
    /\ UNCHANGED <<memberRows, invite, lockedBy, sessions>>

-----------------------------------------------------------------------------
\* Invitations.

InvitePending(i) == invite[i].status = "pending"

createTeamInvite(c, s, u, role) ==
    /\ IsTeamAdmin(s.role)
    /\ ~(s.role = "admin" /\ role = "admin")
    /\ ~IsMember(s.team, u)
    /\ StartCall(c, "insert", [op |-> "invite", team |-> s.team, user |-> u,
                               role |-> role])
    /\ UNCHANGED <<member, memberRows, invite, lockedBy, sessions>>

\* One pending invite per team and email: the unique index refuses the second.
HasOpenInvite(t, u) ==
    \E i \in Invites : InvitePending(i) /\ invite[i].team = t /\ invite[i].user = u

InsertInvite(c) ==
    /\ memberPc[c] = "insert"
    /\ LET t == memberCall[c].team
           u == memberCall[c].user
       IN IF HasOpenInvite(t, u) THEN UNCHANGED invite
          ELSE \E i \in Invites :
                 /\ invite[i] = NoInvite
                 /\ invite' = [invite EXCEPT ![i] =
                      [status |-> "pending", team |-> t, user |-> u,
                       role |-> memberCall[c].role, expired |-> FALSE]]
    /\ EndCall(c)
    /\ UNCHANGED <<member, memberRows, lockedBy, sessions>>

\* The UPDATE waits for the row lock of a transaction that accepts the invite.
revokeTeamInvite(s, i) ==
    /\ IsTeamAdmin(s.role)
    /\ InvitePending(i)
    /\ invite[i].team = s.team
    /\ lockedBy[i] = NoClient
    /\ invite' = [invite EXCEPT ![i].status = "revoked"]
    /\ UNCHANGED <<member, memberRows, lockedBy, sessions, memberPc, memberCall>>

\* Seven days pass.
ExpireInvite(i) ==
    /\ InvitePending(i)
    /\ ~invite[i].expired
    /\ invite' = [invite EXCEPT ![i].expired = TRUE]
    /\ UNCHANGED <<member, memberRows, lockedBy, sessions, memberPc, memberCall>>

\* Fault: the SELECT takes no row lock.
acceptUnlocked(c, s, i) ==
    /\ s.user # NoUser
    /\ InvitePending(i)
    /\ ~invite[i].expired
    /\ invite[i].user = s.user
    /\ StartCall(c, "admit", [op |-> "accept", invite |-> i])
    /\ UNCHANGED <<member, memberRows, invite, lockedBy, sessions>>

\* SELECT ... FOR UPDATE and the checks that follow it.
acceptTeamInvite(c, s, i) ==
    /\ s.user # NoUser
    /\ InvitePending(i)
    /\ ~invite[i].expired
    /\ invite[i].user = s.user
    /\ lockedBy[i] = NoClient
    /\ lockedBy' = [lockedBy EXCEPT ![i] = c]
    /\ StartCall(c, "admit", [op |-> "accept", invite |-> i])
    /\ UNCHANGED <<member, memberRows, invite, sessions>>

\* The rest of the transaction and its commit.  The token carries the role of
\* the invite, also when the user was a member already.
Admit(c) ==
    /\ memberPc[c] = "admit"
    /\ LET i == memberCall[c].invite
           row == invite[i]
       IN /\ IF IsMember(row.team, row.user) THEN UNCHANGED <<member, memberRows>>
             ELSE InsertMember(row.team, row.user, row.role)
          /\ invite' = [invite EXCEPT ![i].status = "accepted"]
          /\ lockedBy' = [lockedBy EXCEPT ![i] = NoClient]
          /\ IssueConsoleJWT(row.team, row.user, row.role)
    /\ EndCall(c)

\* A failed statement or a process that dies: locks go with the transaction.
MemberCallDies(c) ==
    /\ memberPc[c] # "idle"
    /\ EndCall(c)
    /\ lockedBy' = [i \in Invites |-> IF lockedBy[i] = c THEN NoClient ELSE lockedBy[i]]
    /\ UNCHANGED <<member, memberRows, invite, sessions>>

-----------------------------------------------------------------------------
MembersNext ==
    \/ \E t \in Teams : consoleToken(t)
    \/ \E i \in Invites : ExpireInvite(i)
    \/ \E s \in sessions, i \in Invites : revokeTeamInvite(s, i)
    \/ \E c \in Clients :
         \/ \E u \in Users : consoleProvision(c, u)
         \/ FindTeam(c)
         \/ CreateTeam(c)
         \/ InsertOwner(c)
         \/ UpdateRole(c)
         \/ DeleteMember(c)
         \/ InsertInvite(c)
         \/ Admit(c)
         \/ MemberCallDies(c)
         \/ \E s \in sessions :
              \/ \E u \in Users : removeTeamMember(c, s, u)
              \/ \E u \in Users, role \in {"admin", "member"} :
                   \/ updateTeamMember(c, s, u, role)
                   \/ createTeamInvite(c, s, u, role)
              \/ \E i \in Invites : acceptTeamInvite(c, s, i)

MembersSpec == MembersInit /\ [][MembersNext]_teamVars

-----------------------------------------------------------------------------
(* A team never loses its owner: neither a role change nor a removal, decided
   on a row that was read before, ends the ownership (the checks at
   team_invites.go:153 and :199).  And whoever joins a team other than by
   founding it uses up an invitation to them that nobody revoked, in the same
   step, and joins with its role: two requests never use one invitation, and a
   revocation is never overtaken by an acceptance that read the invite before
   it (FOR UPDATE, team_invites.go:442-446).                                *)
MembershipIsGranted ==
    [][\A t \in Teams, u \in Users :
         LET old == member[t][u].role
             new == member'[t][u].role
         IN  old # new =>
               /\ old # "owner"
               /\ old = "none" /\ new # "owner" =>
                    \E i \in Invites :
                      /\ invite[i].status = "pending"
                      /\ invite'[i] = [invite[i] EXCEPT !.status = "accepted"]
                      /\ invite[i].team = t /\ invite[i].user = u
                      /\ invite[i].role = new]_<<member, invite>>
=============================================================================
