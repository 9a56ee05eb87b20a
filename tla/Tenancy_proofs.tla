-------------------------- MODULE Tenancy_proofs --------------------------
(***************************************************************************)
(* Theorems about the parts of a workspace whose rows belong to a team,    *)
(* for every set of teams and of requests and every value of the bounds:   *)
(* TeamMembers, DomainClaims, Grants, Inbound, Topics.                     *)
(***************************************************************************)
EXTENDS TeamMembers, DomainClaims, Grants, Inbound, Topics, TLAPS

USE TenancyAssumption, TeamMembersAssumption, DomainsAssumption, GrantsAssumption,
    InboundAssumption, TopicsAssumption
    DEF TenancyAssumption, TeamMembersAssumption, DomainsAssumption, GrantsAssumption,
        InboundAssumption, TopicsAssumption

-----------------------------------------------------------------------------
(***************************************************************************)
(* TEAM MEMBERS AND INVITES.                                               *)
(***************************************************************************)

-----------------------------------------------------------------------------
(***************************************************************************)
(* The inductive invariant.                                                *)
(***************************************************************************)

MemberPcs == {"idle", "findTeam", "createTeam", "own", "update", "delete", "insert",
              "admit"}

\* The rows have their types, and ids are given in order.
MemberRowsInv ==
    /\ member \in [Teams -> [Users -> MemberRows \cup {NoMember}]]
    /\ memberRows \in 0 .. MaxMemberRows
    /\ invite \in [Invites -> InviteRows \cup {NoInvite}]
    /\ lockedBy \in [Invites -> Clients \cup {NoClient}]
    /\ sessions \subseteq Sessions
    /\ \A t \in Teams, u \in Users : member[t][u].id <= memberRows

\* A request that changes or removes a member has read a row that was not the
\* owner's, and the row that has this id now is not either.
HoldsRow(c) ==
    /\ memberCall[c].team \in Teams
    /\ memberCall[c].user \in Users
    /\ memberCall[c].id \in 0 .. memberRows
    /\ StillThatRow(c) => member[memberCall[c].team][memberCall[c].user].role # "owner"

\* A request that admits a user holds the lock of an invite that is still
\* pending.
HoldsInvite(c) ==
    /\ memberCall[c].invite \in Invites
    /\ InvitePending(memberCall[c].invite)
    /\ lockedBy[memberCall[c].invite] = c

MemberRemembers(c) ==
    /\ memberPc[c] \in {"findTeam", "createTeam"} => memberCall[c].user \in Users
    /\ memberPc[c] \in {"own", "insert"} =>
         memberCall[c].team \in Teams /\ memberCall[c].user \in Users
    /\ memberPc[c] \in {"insert", "update"} => memberCall[c].role \in {"admin", "member"}
    /\ memberPc[c] \in {"update", "delete"} => HoldsRow(c)
    /\ memberPc[c] = "admit" => HoldsInvite(c)

MemberCallsInv ==
    /\ memberPc \in [Clients -> MemberPcs]
    /\ memberCall = [c \in Clients |-> memberCall[c]]
    /\ \A c \in Clients : memberPc[c] = "idle" <=> memberCall[c] = NoMemberCall
    /\ \A c \in Clients : MemberRemembers(c)

MembersInv == MemberRowsInv /\ MemberCallsInv

LEMMA MembersInitInv == MembersInit => MembersInv
<1> SUFFICES ASSUME MembersInit
             PROVE  MemberRowsInv /\ MemberCallsInv
  BY DEF MembersInv
<1> USE DEF MembersInit
<1>1. MemberRowsInv
  BY DEF MemberRowsInv, NoMember
<1>2. MemberCallsInv
  BY DEF MemberCallsInv, MemberPcs, MemberRemembers
<1> QED
  BY <1>1, <1>2

-----------------------------------------------------------------------------
(***************************************************************************)
(* What a step leaves to the requests that do not take it.                 *)
(***************************************************************************)

\* A row that was there and still is has not become the owner's.
NoneRises ==
    /\ memberRows' >= memberRows
    /\ \A t \in Teams, u \in Users :
         member'[t][u] # NoMember /\ member'[t][u].id <= memberRows =>
           /\ member[t][u] # NoMember
           /\ member'[t][u].id = member[t][u].id
           /\ member[t][u].role # "owner" => member'[t][u].role # "owner"

\* The invites a request holds are left alone.
LeftTo(d) ==
    \A i \in Invites : lockedBy[i] = d /\ InvitePending(i) =>
      InvitePending(i)' /\ lockedBy'[i] = d

LEMMA MemberBystander ==
  ASSUME MembersInv, MemberRowsInv', NEW d \in Clients, NoneRises, LeftTo(d),
         memberPc'[d] = memberPc[d], memberCall'[d] = memberCall[d]
  PROVE  MemberRemembers(d)'
<1>1. MemberRemembers(d)
  BY DEF MembersInv, MemberCallsInv
<1>2. HoldsInvite(d) => HoldsInvite(d)'
  BY DEF HoldsInvite, LeftTo
<1>3. HoldsRow(d) => HoldsRow(d)'
  <2> SUFFICES ASSUME HoldsRow(d)
               PROVE  HoldsRow(d)'
    OBVIOUS
  <2> DEFINE t == memberCall[d].team
             u == memberCall[d].user
  <2>1. t \in Teams /\ u \in Users /\ memberCall[d].id \in 0 .. memberRows
    BY DEF HoldsRow
  <2>2. memberCall[d].id \in 0 .. memberRows'
    BY <2>1 DEF NoneRises, MembersInv, MemberRowsInv
  <2>3. ASSUME StillThatRow(d)'
        PROVE  member'[t][u].role # "owner"
    <3>1. member'[t][u] # NoMember /\ member'[t][u].id = memberCall[d].id
      BY <2>3 DEF StillThatRow, IsMember
    <3>2. /\ member[t][u] # NoMember /\ member[t][u].id = memberCall[d].id
          /\ member[t][u].role # "owner" => member'[t][u].role # "owner"
      BY <3>1, <2>1 DEF NoneRises
    <3> QED
      BY <3>2 DEF HoldsRow, StillThatRow, IsMember
  <2> QED
    BY <2>1, <2>2, <2>3 DEF HoldsRow
<1> QED
  BY <1>1, <1>2, <1>3 DEF MemberRemembers

LEMMA MemberUnchanging ==
  ASSUME MembersInv, UNCHANGED <<member, memberRows>>
  PROVE  NoneRises
BY DEF MembersInv, MemberRowsInv, NoneRises

LEMMA MemberMoving ==
  ASSUME MembersInv, MemberRowsInv', NEW c \in Clients,
         NEW first \in MemberPcs \ {"idle"}, NEW args,
         memberPc' = [memberPc EXCEPT ![c] = first],
         memberCall' = [memberCall EXCEPT ![c] = args], args # NoMemberCall,
         NoneRises, \A d \in Clients \ {c} : LeftTo(d), MemberRemembers(c)'
  PROVE  MembersInv'
<1> USE DEF MembersInv, MemberCallsInv
<1>1. memberPc' \in [Clients -> MemberPcs]
  OBVIOUS
<1>2. memberCall' = [d \in Clients |-> memberCall'[d]]
  OBVIOUS
<1>3. ASSUME NEW d \in Clients
      PROVE  MemberRemembers(d)' /\ (memberPc'[d] = "idle" <=> memberCall'[d] = NoMemberCall)
  <2>1. CASE d # c
    <3>1. memberPc'[d] = memberPc[d] /\ memberCall'[d] = memberCall[d]
      BY <2>1
    <3> QED
      BY <2>1, <3>1, MemberBystander
  <2>2. CASE d = c
    <3>1. memberPc'[d] = first /\ memberCall'[d] = args
      BY <2>2
    <3> QED
      BY <2>2, <3>1
  <2> QED
    BY <2>1, <2>2
<1> QED
  BY <1>1, <1>2, <1>3

LEMMA MemberStarting ==
  ASSUME MembersInv, MemberRowsInv', NEW c \in Clients,
         NEW first \in MemberPcs \ {"idle"}, NEW args,
         StartCall(c, first, args), args # NoMemberCall,
         NoneRises, \A d \in Clients \ {c} : LeftTo(d), MemberRemembers(c)'
  PROVE  MembersInv'
BY MemberMoving DEF StartCall

LEMMA MemberEnding ==
  ASSUME MembersInv, MemberRowsInv', NEW c \in Clients, EndCall(c),
         NoneRises, \A d \in Clients \ {c} : LeftTo(d)
  PROVE  MembersInv'
<1> USE DEF MembersInv, MemberCallsInv, EndCall
<1>1. memberPc' \in [Clients -> MemberPcs]
  BY DEF MemberPcs
<1>2. memberCall' = [d \in Clients |-> memberCall'[d]]
  OBVIOUS
<1>3. ASSUME NEW d \in Clients
      PROVE  MemberRemembers(d)' /\ (memberPc'[d] = "idle" <=> memberCall'[d] = NoMemberCall)
  <2>1. CASE d # c
    <3>1. memberPc'[d] = memberPc[d] /\ memberCall'[d] = memberCall[d]
      BY <2>1
    <3> HIDE DEF EndCall
    <3> QED
      BY <2>1, <3>1, MemberBystander
  <2>2. CASE d = c
    <3>1. memberPc'[d] = "idle" /\ memberCall'[d] = NoMemberCall
      BY <2>2
    <3> QED
      BY <2>2, <3>1 DEF MemberRemembers
  <2> QED
    BY <2>1, <2>2
<1> QED
  BY <1>1, <1>2, <1>3

-----------------------------------------------------------------------------
(***************************************************************************)
(* What a step does to the rows.                                           *)
(***************************************************************************)

LEMMA MemberInserting ==
  ASSUME MemberRowsInv, NEW t \in Teams, NEW u \in Users, NEW role \in TeamRoles,
         InsertMember(t, u, role)
  PROVE  /\ member' \in [Teams -> [Users -> MemberRows \cup {NoMember}]]
         /\ memberRows' \in 0 .. MaxMemberRows
         /\ \A v \in Teams, w \in Users : member'[v][w].id <= memberRows'
         /\ NoneRises
<1> DEFINE row == [role |-> role, id |-> memberRows + 1]
<1>1. memberRows' = memberRows + 1 /\ memberRows' \in 1 .. MaxMemberRows
  BY DEF InsertMember, MemberRowsInv
<1>2. row \in MemberRows /\ row.id = memberRows + 1
  BY <1>1 DEF MemberRows
<1>3. member' = [member EXCEPT ![t][u] = row]
  BY DEF InsertMember
<1> HIDE DEF row
<1>4. member' \in [Teams -> [Users -> MemberRows \cup {NoMember}]]
  BY <1>2, <1>3 DEF MemberRowsInv
<1>5. \A v \in Teams, w \in Users :
        member'[v][w] = IF v = t /\ w = u THEN row ELSE member[v][w]
  BY <1>3 DEF MemberRowsInv
<1>6. \A v \in Teams, w \in Users : member'[v][w].id <= memberRows'
  BY <1>1, <1>2, <1>5 DEF MemberRowsInv, MemberRows, NoMember
<1>7. NoneRises
  BY <1>1, <1>2, <1>5 DEF NoneRises, MemberRowsInv
<1> QED
  BY <1>1, <1>4, <1>6, <1>7

\* A role below the owner's, for a row that is not the owner's.
LEMMA Demoting ==
  ASSUME MemberRowsInv, NEW t \in Teams, NEW u \in Users, NEW role \in {"admin", "member"},
         IsMember(t, u), member' = [member EXCEPT ![t][u].role = role],
         memberRows' = memberRows
  PROVE  /\ member' \in [Teams -> [Users -> MemberRows \cup {NoMember}]]
         /\ \A v \in Teams, w \in Users : member'[v][w].id <= memberRows'
         /\ NoneRises
<1> DEFINE row == [member[t][u] EXCEPT !.role = role]
<1>1. member[t][u] \in MemberRows
  BY DEF MemberRowsInv, IsMember
<1>2. row \in MemberRows /\ row.id = member[t][u].id /\ row.role = role
  BY <1>1 DEF MemberRows, TeamRoles
<1>3. member' = [member EXCEPT ![t][u] = row]
  BY DEF MemberRowsInv
<1> HIDE DEF row
<1>4. member' \in [Teams -> [Users -> MemberRows \cup {NoMember}]]
  <2>1. [member[t] EXCEPT ![u] = row] \in [Users -> MemberRows \cup {NoMember}]
    BY <1>2 DEF MemberRowsInv
  <2>2. member' = [member EXCEPT ![t] = [member[t] EXCEPT ![u] = row]]
    BY <1>3 DEF MemberRowsInv
  <2> QED
    BY <2>1, <2>2 DEF MemberRowsInv
<1>5. \A v \in Teams, w \in Users :
        member'[v][w] = IF v = t /\ w = u THEN row ELSE member[v][w]
  BY <1>3 DEF MemberRowsInv
<1>6. \A v \in Teams, w \in Users : member'[v][w].id <= memberRows'
  BY <1>2, <1>5 DEF MemberRowsInv
<1>7. NoneRises
  BY <1>2, <1>5 DEF NoneRises, MemberRowsInv, IsMember
<1> QED
  BY <1>4, <1>6, <1>7

LEMMA Removing ==
  ASSUME MemberRowsInv, NEW t \in Teams, NEW u \in Users,
         member' = [member EXCEPT ![t][u] = NoMember], memberRows' = memberRows
  PROVE  /\ member' \in [Teams -> [Users -> MemberRows \cup {NoMember}]]
         /\ \A v \in Teams, w \in Users : member'[v][w].id <= memberRows'
         /\ NoneRises
<1>1. member' \in [Teams -> [Users -> MemberRows \cup {NoMember}]]
  BY DEF MemberRowsInv
<1>2. \A v \in Teams, w \in Users :
        member'[v][w] = IF v = t /\ w = u THEN NoMember ELSE member[v][w]
  BY DEF MemberRowsInv
<1>3. NoMember.id = 0
  BY DEF NoMember
<1>4. \A v \in Teams, w \in Users : member'[v][w].id <= memberRows'
  BY <1>2, <1>3 DEF MemberRowsInv
<1>5. NoneRises
  BY <1>2 DEF NoneRises, MemberRowsInv
<1> QED
  BY <1>1, <1>4, <1>5

LEMMA Issuing ==
  ASSUME MemberRowsInv, NEW t \in Teams, NEW u \in Users \cup {NoUser}, NEW role \in TeamRoles,
         IssueConsoleJWT(t, u, role)
  PROVE  sessions' \subseteq Sessions
BY DEF IssueConsoleJWT, MemberRowsInv, Sessions

LEMMA MemberRowsWait ==
  ASSUME MemberRowsInv, UNCHANGED <<member, memberRows, invite, lockedBy>>,
         sessions' \subseteq Sessions
  PROVE  MemberRowsInv'
BY DEF MemberRowsInv

\* The row UpdateRole and DeleteMember find is not the owner's.
LEMMA FoundRow ==
  ASSUME MembersInv, NEW c \in Clients, memberPc[c] \in {"update", "delete"}
  PROVE  /\ memberCall[c].team \in Teams /\ memberCall[c].user \in Users
         /\ StillThatRow(c) =>
              /\ IsMember(memberCall[c].team, memberCall[c].user)
              /\ member[memberCall[c].team][memberCall[c].user].role # "owner"
BY DEF MembersInv, MemberCallsInv, MemberRemembers, HoldsRow, StillThatRow

\* The invite Admit accepts.
LEMMA HeldInvite ==
  ASSUME MembersInv, NEW c \in Clients, memberPc[c] = "admit"
  PROVE  LET i == memberCall[c].invite IN
         /\ i \in Invites /\ lockedBy[i] = c
         /\ invite[i] \in InviteRows /\ invite[i].status = "pending"
<1> DEFINE i == memberCall[c].invite
<1>1. i \in Invites /\ invite[i].status = "pending" /\ lockedBy[i] = c
  BY DEF MembersInv, MemberCallsInv, MemberRemembers, HoldsInvite, InvitePending
<1>2. invite[i] \in InviteRows
  BY <1>1 DEF MembersInv, MemberRowsInv, NoInvite
<1> QED
  BY <1>1, <1>2

-----------------------------------------------------------------------------
(***************************************************************************)
(* Every step keeps the invariant.                                         *)
(***************************************************************************)

\* Requests that begin.
LEMMA MemberBeginning ==
  ASSUME MembersInv, NEW c \in Clients,
         UNCHANGED <<member, memberRows, invite, sessions>>,
         \/ \E u \in Users : consoleProvision(c, u)
         \/ \E s \in sessions :
              \/ \E u \in Users : removeTeamMember(c, s, u)
              \/ \E u \in Users, role \in {"admin", "member"} :
                   \/ updateTeamMember(c, s, u, role)
                   \/ createTeamInvite(c, s, u, role)
              \/ \E i \in Invites : acceptTeamInvite(c, s, i)
  PROVE  MembersInv'
<1>1. NoneRises
  BY MemberUnchanging
<1>2. ASSUME lockedBy' = lockedBy
      PROVE  MemberRowsInv' /\ \A d \in Clients : LeftTo(d)
  BY <1>2, MemberRowsWait DEF MembersInv, MemberRowsInv, LeftTo, InvitePending
<1>3. memberPc \in [Clients -> MemberPcs] /\ DOMAIN memberCall = Clients
  BY DEF MembersInv, MemberCallsInv
<1>4. ASSUME NEW u \in Users, consoleProvision(c, u)
      PROVE  MembersInv'
  <2> DEFINE args == [op |-> "provision", user |-> u]
  <2>1. StartCall(c, "findTeam", args) /\ lockedBy' = lockedBy
    BY <1>4 DEF consoleProvision
  <2>2. memberPc'[c] = "findTeam" /\ memberCall'[c] = args
    BY <2>1, <1>3 DEF StartCall
  <2>3. MemberRemembers(c)'
    BY <2>2 DEF MemberRemembers
  <2>4. args # NoMemberCall /\ "findTeam" \in MemberPcs \ {"idle"}
    BY DEF NoMemberCall, MemberPcs
  <2> HIDE DEF args
  <2> QED
    BY <2>1, <2>3, <2>4, <1>1, <1>2, MemberStarting
<1>5. ASSUME NEW s \in sessions, NEW u \in Users, NEW role \in {"admin", "member"},
             updateTeamMember(c, s, u, role)
      PROVE  MembersInv'
  <2> DEFINE args == [op |-> "update", team |-> s.team, user |-> u,
                      id |-> member[s.team][u].id, role |-> role]
  <2>1. StartCall(c, "update", args) /\ lockedBy' = lockedBy
    BY <1>5 DEF updateTeamMember
  <2>2. memberPc'[c] = "update" /\ memberCall'[c] = args
    BY <2>1, <1>3 DEF StartCall
  <2>3. s.team \in Teams
    BY DEF MembersInv, MemberRowsInv, Sessions
  <2>4. member[s.team][u].id \in 0 .. memberRows
    BY <2>3 DEF MembersInv, MemberRowsInv, MemberRows, NoMember
  <2>5. HoldsRow(c)'
    BY <2>2, <2>3, <2>4, <1>5 DEF HoldsRow, updateTeamMember
  <2>6. MemberRemembers(c)'
    BY <2>2, <2>5 DEF MemberRemembers
  <2>7. args # NoMemberCall /\ "update" \in MemberPcs \ {"idle"}
    BY DEF NoMemberCall, MemberPcs
  <2> HIDE DEF args
  <2> QED
    BY <2>1, <2>6, <2>7, <1>1, <1>2, MemberStarting
<1>6. ASSUME NEW s \in sessions, NEW u \in Users, removeTeamMember(c, s, u)
      PROVE  MembersInv'
  <2> DEFINE args == [op |-> "remove", team |-> s.team, user |-> u,
                      id |-> member[s.team][u].id]
  <2>1. StartCall(c, "delete", args) /\ lockedBy' = lockedBy
    BY <1>6 DEF removeTeamMember
  <2>2. memberPc'[c] = "delete" /\ memberCall'[c] = args
    BY <2>1, <1>3 DEF StartCall
  <2>3. s.team \in Teams
    BY DEF MembersInv, MemberRowsInv, Sessions
  <2>4. member[s.team][u].id \in 0 .. memberRows
    BY <2>3 DEF MembersInv, MemberRowsInv, MemberRows, NoMember
  <2>5. HoldsRow(c)'
    BY <2>2, <2>3, <2>4, <1>6 DEF HoldsRow, removeTeamMember, MayRemove
  <2>6. MemberRemembers(c)'
    BY <2>2, <2>5 DEF MemberRemembers
  <2>7. args # NoMemberCall /\ "delete" \in MemberPcs \ {"idle"}
    BY DEF NoMemberCall, MemberPcs
  <2> HIDE DEF args
  <2> QED
    BY <2>1, <2>6, <2>7, <1>1, <1>2, MemberStarting
<1>7. ASSUME NEW s \in sessions, NEW u \in Users, NEW role \in {"admin", "member"},
             createTeamInvite(c, s, u, role)
      PROVE  MembersInv'
  <2> DEFINE args == [op |-> "invite", team |-> s.team, user |-> u, role |-> role]
  <2>1. StartCall(c, "insert", args) /\ lockedBy' = lockedBy
    BY <1>7 DEF createTeamInvite
  <2>2. memberPc'[c] = "insert" /\ memberCall'[c] = args
    BY <2>1, <1>3 DEF StartCall
  <2>3. s.team \in Teams
    BY DEF MembersInv, MemberRowsInv, Sessions
  <2>4. MemberRemembers(c)'
    BY <2>2, <2>3 DEF MemberRemembers
  <2>5. args # NoMemberCall /\ "insert" \in MemberPcs \ {"idle"}
    BY DEF NoMemberCall, MemberPcs
  <2> HIDE DEF args
  <2> QED
    BY <2>1, <2>4, <2>5, <1>1, <1>2, MemberStarting
<1>8. ASSUME NEW s \in sessions, NEW i \in Invites, acceptTeamInvite(c, s, i)
      PROVE  MembersInv'
  <2> DEFINE args == [op |-> "accept", invite |-> i]
  <2>1. /\ StartCall(c, "admit", args) /\ InvitePending(i)
        /\ lockedBy[i] = NoClient /\ lockedBy' = [lockedBy EXCEPT ![i] = c]
    BY <1>8 DEF acceptTeamInvite
  <2>2. memberPc'[c] = "admit" /\ memberCall'[c] = args
    BY <2>1, <1>3 DEF StartCall
  <2>3. lockedBy \in [Invites -> Clients \cup {NoClient}] /\ MemberRowsInv
    BY DEF MembersInv, MemberRowsInv
  <2>4. HoldsInvite(c)'
    BY <2>1, <2>2, <2>3 DEF HoldsInvite, InvitePending
  <2>5. MemberRemembers(c)'
    BY <2>2, <2>4 DEF MemberRemembers
  <2>6. MemberRowsInv'
    BY <2>1, <2>3 DEF MemberRowsInv
  <2>7. \A d \in Clients \ {c} : LeftTo(d)
    BY <2>1, <2>3 DEF LeftTo, InvitePending
  <2>8. args # NoMemberCall /\ "admit" \in MemberPcs \ {"idle"}
    BY DEF NoMemberCall, MemberPcs
  <2> HIDE DEF args
  <2> QED
    BY <2>1, <2>5, <2>6, <2>7, <2>8, <1>1, MemberStarting
<1> QED
  BY <1>4, <1>5, <1>6, <1>7, <1>8

\* Requests that end without a step of their own.
LEMMA MemberDying ==
  ASSUME MembersInv, NEW c \in Clients, MemberCallDies(c)
  PROVE  MembersInv'
<1>1. NoneRises
  BY MemberUnchanging DEF MemberCallDies
<1>2. MemberRowsInv'
  BY DEF MembersInv, MemberRowsInv, MemberCallDies
<1>3. \A d \in Clients \ {c} : LeftTo(d)
  BY DEF MemberCallDies, LeftTo, InvitePending
<1> QED
  BY <1>1, <1>2, <1>3, MemberEnding DEF MemberCallDies

\* Steps that start or end no request.
LEMMA Standing ==
  ASSUME MembersInv, MemberRowsInv', UNCHANGED <<memberPc, memberCall>>, NoneRises,
         \A d \in Clients : LeftTo(d)
  PROVE  MembersInv'
<1>1. \A d \in Clients : MemberRemembers(d)'
  BY MemberBystander
<1> QED
  BY <1>1 DEF MembersInv, MemberCallsInv

LEMMA MembersStepInv == MembersInv /\ [MembersNext]_teamVars => MembersInv'
<1> SUFFICES ASSUME MembersInv, [MembersNext]_teamVars
             PROVE  MembersInv'
  OBVIOUS
<1>1. MemberRowsInv /\ memberPc \in [Clients -> MemberPcs] /\ DOMAIN memberCall = Clients
  BY DEF MembersInv, MemberCallsInv
<1>2. ASSUME UNCHANGED <<invite, lockedBy>>
      PROVE  \A d \in Clients : LeftTo(d)
  BY <1>2 DEF LeftTo, InvitePending
<1>3. CASE UNCHANGED teamVars
  <2>1. MemberRowsInv'
    BY <1>1, <1>3, MemberRowsWait DEF MemberRowsInv, teamVars
  <2> QED
    BY <2>1, <1>2, <1>3, MemberUnchanging, Standing DEF teamVars
<1>4. ASSUME NEW t \in Teams, consoleToken(t)
      PROVE  MembersInv'
  <2>1. sessions' \subseteq Sessions
    BY <1>1, <1>4, Issuing DEF consoleToken, TeamRoles
  <2>2. MemberRowsInv'
    BY <2>1, <1>1, <1>4, MemberRowsWait DEF consoleToken
  <2> QED
    BY <2>2, <1>2, <1>4, MemberUnchanging, Standing DEF consoleToken
<1>5. ASSUME NEW i \in Invites, ExpireInvite(i)
      PROVE  MembersInv'
  <2> DEFINE row == [invite[i] EXCEPT !.expired = TRUE]
  <2>1. invite[i] \in InviteRows /\ invite[i].status = "pending"
    BY <1>1, <1>5 DEF ExpireInvite, InvitePending, MemberRowsInv, NoInvite
  <2>2. row \in InviteRows /\ row.status = "pending"
    BY <2>1 DEF InviteRows
  <2>3. invite' = [invite EXCEPT ![i] = row]
    BY <1>1, <1>5 DEF ExpireInvite, MemberRowsInv
  <2> HIDE DEF row
  <2>4. MemberRowsInv'
    BY <2>2, <2>3, <1>1, <1>5 DEF MemberRowsInv, ExpireInvite
  <2>5. \A d \in Clients : LeftTo(d)
    BY <2>2, <2>3, <1>1, <1>5 DEF LeftTo, InvitePending, ExpireInvite, MemberRowsInv
  <2> QED
    BY <2>4, <2>5, <1>5, MemberUnchanging, Standing DEF ExpireInvite
<1>6. ASSUME NEW s \in sessions, NEW i \in Invites, revokeTeamInvite(s, i)
      PROVE  MembersInv'
  <2> DEFINE row == [invite[i] EXCEPT !.status = "revoked"]
  <2>1. invite[i] \in InviteRows /\ lockedBy[i] = NoClient
    BY <1>1, <1>6 DEF revokeTeamInvite, InvitePending, MemberRowsInv, NoInvite
  <2>2. row \in InviteRows
    BY <2>1 DEF InviteRows
  <2>3. invite' = [invite EXCEPT ![i] = row]
    BY <1>1, <1>6 DEF revokeTeamInvite, MemberRowsInv
  <2> HIDE DEF row
  <2>4. MemberRowsInv'
    BY <2>2, <2>3, <1>1, <1>6 DEF MemberRowsInv, revokeTeamInvite
  <2>5. \A d \in Clients : LeftTo(d)
    BY <2>1, <2>3, <1>1, <1>6 DEF LeftTo, InvitePending, revokeTeamInvite, MemberRowsInv
  <2> QED
    BY <2>4, <2>5, <1>6, MemberUnchanging, Standing DEF revokeTeamInvite
<1>7. ASSUME NEW c \in Clients, FindTeam(c)
      PROVE  MembersInv'
  <2>1. memberCall[c].user \in Users /\ MemberRemembers(c)
    BY <1>7 DEF MembersInv, MemberCallsInv, MemberRemembers, FindTeam
  <2>2. NoneRises /\ \A d \in Clients : LeftTo(d)
    BY <1>2, <1>7, MemberUnchanging DEF FindTeam
  <2>3. ASSUME NEW t \in Teams, IsMember(t, memberCall[c].user), EndCall(c),
               IssueConsoleJWT(t, memberCall[c].user, member[t][memberCall[c].user].role)
        PROVE  MembersInv'
    <3>1. member[t][memberCall[c].user].role \in TeamRoles
      BY <2>1, <2>3, <1>1 DEF MemberRowsInv, IsMember, MemberRows
    <3>2. sessions' \subseteq Sessions
      BY <2>1, <2>3, <3>1, <1>1, Issuing
    <3>3. MemberRowsInv'
      BY <3>2, <1>1, <1>7, MemberRowsWait DEF FindTeam
    <3> QED
      BY <2>2, <2>3, <3>3, MemberEnding
  <2>4. CASE /\ memberPc' = [memberPc EXCEPT ![c] = "createTeam"]
             /\ UNCHANGED <<sessions, memberCall>>
    <3>1. MemberRowsInv'
      BY <2>4, <1>1, <1>7, MemberRowsWait DEF FindTeam, MemberRowsInv
    <3>2. memberCall' = [memberCall EXCEPT ![c] = memberCall[c]]
      BY <2>4 DEF MembersInv, MemberCallsInv
    <3>3. MemberRemembers(c)'
      BY <2>1, <2>4, <1>1 DEF MemberRemembers
    <3>4. memberCall[c] # NoMemberCall /\ "createTeam" \in MemberPcs \ {"idle"}
      BY <1>7 DEF FindTeam, MembersInv, MemberCallsInv, MemberPcs
    <3> QED
      BY <2>2, <2>4, <3>1, <3>2, <3>3, <3>4, MemberMoving
  <2> QED
    BY <2>3, <2>4, <1>7 DEF FindTeam
<1>8. ASSUME NEW c \in Clients, CreateTeam(c)
      PROVE  MembersInv'
  <2>1. PICK t \in Teams :
          memberCall' = [memberCall EXCEPT
            ![c] = [op |-> "provision", user |-> memberCall[c].user, team |-> t]]
    BY <1>8 DEF CreateTeam
  <2> DEFINE args == [op |-> "provision", user |-> memberCall[c].user, team |-> t]
  <2>2. memberCall[c].user \in Users
    BY <1>8 DEF MembersInv, MemberCallsInv, MemberRemembers, CreateTeam
  <2>3. NoneRises /\ MemberRowsInv' /\ \A d \in Clients : LeftTo(d)
    BY <1>1, <1>2, <1>8, MemberUnchanging, MemberRowsWait DEF CreateTeam, MemberRowsInv
  <2>4. memberPc' = [memberPc EXCEPT ![c] = "own"]
    BY <1>8 DEF CreateTeam
  <2>5. memberPc'[c] = "own" /\ memberCall'[c] = args
    BY <2>1, <2>4, <1>1
  <2>6. MemberRemembers(c)'
    BY <2>2, <2>5 DEF MemberRemembers
  <2>7. args # NoMemberCall /\ "own" \in MemberPcs \ {"idle"}
    BY DEF NoMemberCall, MemberPcs
  <2> HIDE DEF args
  <2> QED
    BY <2>1, <2>3, <2>4, <2>6, <2>7, MemberMoving DEF args
<1>9. ASSUME NEW c \in Clients, InsertOwner(c)
      PROVE  MembersInv'
  <2>1. memberCall[c].team \in Teams /\ memberCall[c].user \in Users
    BY <1>9 DEF MembersInv, MemberCallsInv, MemberRemembers, InsertOwner
  <2>2. sessions' \subseteq Sessions
    BY <2>1, <1>1, <1>9, Issuing DEF InsertOwner, TeamRoles
  <2>3. MemberRowsInv' /\ NoneRises
    BY <2>1, <2>2, <1>1, <1>9, MemberInserting DEF InsertOwner, MemberRowsInv, TeamRoles
  <2> QED
    BY <2>3, <1>2, <1>9, MemberEnding DEF InsertOwner
<1>10. ASSUME NEW c \in Clients, UpdateRole(c)
       PROVE  MembersInv'
  <2> DEFINE t == memberCall[c].team
             u == memberCall[c].user
  <2>1. t \in Teams /\ u \in Users /\ (StillThatRow(c) => IsMember(t, u))
    BY <1>10, FoundRow DEF UpdateRole
  <2>2. memberCall[c].role \in {"admin", "member"}
    BY <1>10 DEF MembersInv, MemberCallsInv, MemberRemembers, UpdateRole
  <2>3. CASE member' = member
    <3>1. MemberRowsInv'
      BY <2>3, <1>1, <1>10, MemberRowsWait DEF UpdateRole, MemberRowsInv
    <3> QED
      BY <2>3, <3>1, <1>2, <1>10, MemberUnchanging, MemberEnding DEF UpdateRole
  <2>4. CASE IsMember(t, u) /\ member' = [member EXCEPT ![t][u].role = memberCall[c].role]
    <3>1. MemberRowsInv' /\ NoneRises
      BY <2>1, <2>2, <2>4, <1>1, <1>10, Demoting DEF UpdateRole, MemberRowsInv
    <3> QED
      BY <3>1, <1>2, <1>10, MemberEnding DEF UpdateRole
  <2> QED
    BY <2>1, <2>3, <2>4, <1>10 DEF UpdateRole
<1>11. ASSUME NEW c \in Clients, DeleteMember(c)
       PROVE  MembersInv'
  <2> DEFINE t == memberCall[c].team
             u == memberCall[c].user
  <2>1. t \in Teams /\ u \in Users
    BY <1>11, FoundRow DEF DeleteMember
  <2>2. CASE member' = member
    <3>1. MemberRowsInv'
      BY <2>2, <1>1, <1>11, MemberRowsWait DEF DeleteMember, MemberRowsInv
    <3> QED
      BY <2>2, <3>1, <1>2, <1>11, MemberUnchanging, MemberEnding DEF DeleteMember
  <2>3. CASE member' = [member EXCEPT ![t][u] = NoMember]
    <3>1. MemberRowsInv' /\ NoneRises
      BY <2>1, <2>3, <1>1, <1>11, Removing DEF DeleteMember, MemberRowsInv
    <3> QED
      BY <3>1, <1>2, <1>11, MemberEnding DEF DeleteMember
  <2> QED
    BY <2>2, <2>3, <1>11 DEF DeleteMember
<1>12. ASSUME NEW c \in Clients, InsertInvite(c)
       PROVE  MembersInv'
  <2> DEFINE row == [status |-> "pending", team |-> memberCall[c].team,
                     user |-> memberCall[c].user, role |-> memberCall[c].role,
                     expired |-> FALSE]
  <2>1. row \in InviteRows
    BY <1>12 DEF MembersInv, MemberCallsInv, MemberRemembers, InsertInvite, InviteRows
  <2>2. \/ invite' = invite
        \/ \E i \in Invites : invite[i] = NoInvite /\ invite' = [invite EXCEPT ![i] = row]
    BY <1>12 DEF InsertInvite
  <2> HIDE DEF row
  <2>3. MemberRowsInv'
    BY <2>1, <2>2, <1>1, <1>12 DEF MemberRowsInv, InsertInvite
  <2>4. \A d \in Clients : LeftTo(d)
    BY <2>2, <1>1, <1>12 DEF LeftTo, InvitePending, MemberRowsInv, NoInvite, InsertInvite
  <2> QED
    BY <2>3, <2>4, <1>12, MemberUnchanging, MemberEnding DEF InsertInvite
<1>13. ASSUME NEW c \in Clients, Admit(c)
       PROVE  MembersInv'
  <2> DEFINE i == memberCall[c].invite
             row == invite[i]
             used == [row EXCEPT !.status = "accepted"]
  <2>1. /\ i \in Invites /\ lockedBy[i] = c
        /\ row \in InviteRows /\ row.status = "pending"
    BY <1>13, HeldInvite DEF Admit
  <2>2. row.team \in Teams /\ row.user \in Users /\ row.role \in TeamRoles
    BY <2>1 DEF InviteRows, TeamRoles
  <2>3. used \in InviteRows
    BY <2>1 DEF InviteRows
  <2>4. /\ \/ UNCHANGED <<member, memberRows>>
           \/ InsertMember(row.team, row.user, row.role)
        /\ lockedBy' = [lockedBy EXCEPT ![i] = NoClient]
        /\ IssueConsoleJWT(row.team, row.user, row.role)
        /\ EndCall(c)
    BY <1>13 DEF Admit
  <2>5. invite' = [invite EXCEPT ![i] = used]
    BY <2>1, <1>1, <1>13 DEF Admit, MemberRowsInv
  <2> HIDE DEF used
  <2>6. sessions' \subseteq Sessions
    BY <2>2, <2>4, <1>1, Issuing
  <2>7. /\ member' \in [Teams -> [Users -> MemberRows \cup {NoMember}]]
        /\ memberRows' \in 0 .. MaxMemberRows
        /\ \A v \in Teams, w \in Users : member'[v][w].id <= memberRows'
        /\ NoneRises
    <3>1. CASE UNCHANGED <<member, memberRows>>
      BY <3>1, <1>1, MemberUnchanging DEF MemberRowsInv
    <3>2. CASE InsertMember(row.team, row.user, row.role)
      BY <3>2, <2>2, <1>1, MemberInserting
    <3> QED
      BY <3>1, <3>2, <2>4
  <2>8. /\ invite' \in [Invites -> InviteRows \cup {NoInvite}]
        /\ lockedBy' \in [Invites -> Clients \cup {NoClient}]
    BY <2>1, <2>3, <2>4, <2>5, <1>1 DEF MemberRowsInv
  <2>9. MemberRowsInv'
    BY <2>6, <2>7, <2>8 DEF MemberRowsInv
  <2>10. \A d \in Clients \ {c} : LeftTo(d)
    BY <2>1, <2>4, <2>5, <1>1 DEF LeftTo, InvitePending, MemberRowsInv
  <2> QED
    BY <2>4, <2>7, <2>9, <2>10, MemberEnding
<1>14. ASSUME NEW c \in Clients, MemberCallDies(c)
       PROVE  MembersInv'
  BY <1>14, MemberDying
<1>15. ASSUME NEW c \in Clients, NEW u \in Users, consoleProvision(c, u)
       PROVE  MembersInv'
  BY <1>15, MemberBeginning DEF consoleProvision
<1>16. ASSUME NEW c \in Clients, NEW s \in sessions, NEW u \in Users,
              removeTeamMember(c, s, u)
       PROVE  MembersInv'
  BY <1>16, MemberBeginning DEF removeTeamMember
<1>17. ASSUME NEW c \in Clients, NEW s \in sessions, NEW u \in Users,
              NEW role \in {"admin", "member"},
              updateTeamMember(c, s, u, role) \/ createTeamInvite(c, s, u, role)
       PROVE  MembersInv'
  BY <1>17, MemberBeginning DEF updateTeamMember, createTeamInvite
<1>18. ASSUME NEW c \in Clients, NEW s \in sessions, NEW i \in Invites,
              acceptTeamInvite(c, s, i)
       PROVE  MembersInv'
  BY <1>18, MemberBeginning DEF acceptTeamInvite
<1> QED
  BY <1>3, <1>4, <1>5, <1>6, <1>7, <1>8, <1>9, <1>10, <1>11, <1>12, <1>13, <1>14, <1>15,
     <1>16, <1>17, <1>18 DEF MembersNext

-----------------------------------------------------------------------------
(***************************************************************************)
(* The theorems.                                                           *)
(***************************************************************************)

\* The rows and the requests have their types.
THEOREM MembersTypeCorrect == MembersSpec => []MembersTyped
<1>1. MembersInv => MembersTyped
  BY DEF MembersInv, MemberRowsInv, MemberCallsInv, MembersTyped, MemberPcs
<1> QED
  BY MembersInitInv, MembersStepInv, <1>1, PTL DEF MembersSpec

\* What MembershipIsGranted says of one member and one step.
Granted(t, u) ==
    LET old == member[t][u].role
        new == member'[t][u].role
    IN  old # new =>
          /\ old # "owner"
          /\ old = "none" /\ new # "owner" =>
               \E i \in Invites :
                 /\ invite[i].status = "pending"
                 /\ invite'[i] = [invite[i] EXCEPT !.status = "accepted"]
                 /\ invite[i].team = t /\ invite[i].user = u
                 /\ invite[i].role = new

LEMMA StepGrants ==
  ASSUME MembersInv, [MembersNext]_teamVars, NEW t \in Teams, NEW u \in Users
  PROVE  Granted(t, u)
<1>1. MemberRowsInv
  BY DEF MembersInv
<1>2. CASE UNCHANGED member
  BY <1>2 DEF Granted
<1>3. ASSUME NEW c \in Clients, InsertOwner(c)
      PROVE  Granted(t, u)
  <2> DEFINE v == memberCall[c].team
             w == memberCall[c].user
  <2>1. v \in Teams /\ w \in Users /\ MemberRemembers(c)
    BY <1>3 DEF MembersInv, MemberCallsInv, MemberRemembers, InsertOwner
  <2>2. member' = [member EXCEPT ![v][w] = [role |-> "owner", id |-> memberRows + 1]]
    BY <1>3 DEF InsertOwner, InsertMember
  <2>3. CASE t = v /\ u = w
    <3>1. member'[t][u].role = "owner"
      BY <2>1, <2>2, <2>3, <1>1 DEF MemberRowsInv
    <3> QED
      BY <3>1 DEF Granted
  <2>4. CASE ~(t = v /\ u = w)
    <3>1. member'[t][u] = member[t][u]
      BY <2>1, <2>2, <2>4, <1>1 DEF MemberRowsInv
    <3> QED
      BY <3>1 DEF Granted
  <2> QED
    BY <2>3, <2>4
<1>4. ASSUME NEW c \in Clients, UpdateRole(c)
      PROVE  Granted(t, u)
  <2> DEFINE v == memberCall[c].team
             w == memberCall[c].user
             new == memberCall[c].role
  <2>1. CASE /\ IsMember(v, w) /\ v \in Teams /\ w \in Users
             /\ member[v][w].role # "owner"
             /\ member' = [member EXCEPT ![v][w].role = new]
    <3>1. member[v][w] \in MemberRows
      BY <2>1, <1>1 DEF MemberRowsInv, IsMember
    <3>2. CASE t = v /\ u = w
      BY <2>1, <3>1, <3>2 DEF Granted, MemberRows, TeamRoles
    <3>3. CASE ~(t = v /\ u = w)
      <4>1. member'[t][u] = member[t][u]
        BY <2>1, <3>3, <1>1 DEF MemberRowsInv
      <4> QED
        BY <4>1 DEF Granted
    <3> QED
      BY <3>2, <3>3
  <2>2. member' = member \/ (StillThatRow(c) /\ member[v][w].role # "owner"
                             /\ member' = [member EXCEPT ![v][w].role = new])
    BY <1>4 DEF UpdateRole
  <2>3. memberPc[c] = "update"
    BY <1>4 DEF UpdateRole
  <2> QED
    BY <2>1, <2>2, <2>3, <1>2, FoundRow
<1>5. ASSUME NEW c \in Clients, DeleteMember(c)
      PROVE  Granted(t, u)
  <2> DEFINE v == memberCall[c].team
             w == memberCall[c].user
  <2>1. /\ v \in Teams /\ w \in Users
        /\ StillThatRow(c) => IsMember(v, w) /\ member[v][w].role # "owner"
    BY <1>5, FoundRow DEF DeleteMember
  <2>2. CASE StillThatRow(c) /\ member' = [member EXCEPT ![v][w] = NoMember]
    <3>1. member[v][w].role \in {"admin", "member"} /\ NoMember.role = "none"
      <4>1. member[v][w] \in MemberRows
        BY <2>1, <2>2, <1>1 DEF MemberRowsInv, IsMember
      <4> QED
        BY <4>1, <2>1, <2>2 DEF MemberRows, TeamRoles, NoMember
    <3>2. member'[t][u] = IF t = v /\ u = w THEN NoMember ELSE member[t][u]
      BY <2>1, <2>2, <1>1 DEF MemberRowsInv
    <3> QED
      BY <3>1, <3>2 DEF Granted
  <2> QED
    BY <2>2, <1>2, <1>5 DEF DeleteMember
<1>6. ASSUME NEW c \in Clients, Admit(c)
      PROVE  Granted(t, u)
  <2> DEFINE i == memberCall[c].invite
             row == invite[i]
  <2>1. i \in Invites /\ row \in InviteRows /\ row.status = "pending"
    BY <1>6, HeldInvite DEF Admit
  <2>2. row.team \in Teams /\ row.user \in Users
    BY <2>1 DEF InviteRows
  <2>3. invite'[i] = [invite[i] EXCEPT !.status = "accepted"]
    BY <2>1, <1>1, <1>6 DEF Admit, MemberRowsInv
  <2>4. CASE InsertMember(row.team, row.user, row.role)
    <3>1. member'[t][u] = IF t = row.team /\ u = row.user
                          THEN [role |-> row.role, id |-> memberRows + 1]
                          ELSE member[t][u]
      BY <2>2, <2>4, <1>1 DEF InsertMember, MemberRowsInv
    <3>2. CASE t = row.team /\ u = row.user
      <4>1. ~IsMember(t, u) \/ member' = member
        BY <3>2, <1>6 DEF Admit
      <4>2. CASE ~IsMember(t, u)
        <5>1. member[t][u].role = "none" /\ member'[t][u].role = row.role
          BY <3>1, <3>2, <4>2 DEF IsMember, NoMember
        <5> QED
          BY <5>1, <2>1, <2>3, <3>2 DEF Granted
      <4> QED
        BY <4>1, <4>2, <1>2
    <3>3. CASE ~(t = row.team /\ u = row.user)
      BY <3>1, <3>3 DEF Granted
    <3> QED
      BY <3>2, <3>3
  <2> QED
    BY <2>4, <1>2, <1>6 DEF Admit
<1>7. ASSUME \/ UNCHANGED teamVars
             \/ \E v \in Teams : consoleToken(v)
             \/ \E i \in Invites : ExpireInvite(i)
             \/ \E s \in sessions, i \in Invites : revokeTeamInvite(s, i)
             \/ \E c \in Clients : FindTeam(c) \/ CreateTeam(c) \/ InsertInvite(c)
                                   \/ MemberCallDies(c)
      PROVE  UNCHANGED member
  BY <1>7 DEF teamVars, consoleToken, ExpireInvite, revokeTeamInvite, FindTeam,
              CreateTeam, InsertInvite, MemberCallDies
<1>8. ASSUME NEW c \in Clients,
             \/ \E w \in Users : consoleProvision(c, w)
             \/ \E s \in sessions :
                  \/ \E w \in Users : removeTeamMember(c, s, w)
                  \/ \E w \in Users, role \in {"admin", "member"} :
                       \/ updateTeamMember(c, s, w, role)
                       \/ createTeamInvite(c, s, w, role)
                  \/ \E i \in Invites : acceptTeamInvite(c, s, i)
      PROVE  UNCHANGED member
  BY <1>8 DEF consoleProvision, removeTeamMember, updateTeamMember, createTeamInvite,
              acceptTeamInvite
<1>9. CASE UNCHANGED teamVars
  BY <1>2, <1>7, <1>9
<1>10. CASE MembersNext
  BY <1>2, <1>3, <1>4, <1>5, <1>6, <1>7, <1>8, <1>10 DEF MembersNext
<1> QED
  BY <1>9, <1>10

\* No request takes the ownership from an owner, and nobody joins a team but
\* with an invitation to them that was pending until that step, or as its
\* founder, whatever requests, expiries and revocations cross.
THEOREM MembersAreGranted == MembersSpec => MembershipIsGranted
<1>1. MembersInv /\ [MembersNext]_teamVars =>
        [\A t \in Teams, u \in Users :
           LET old == member[t][u].role
               new == member'[t][u].role
           IN  old # new =>
                 /\ old # "owner"
                 /\ old = "none" /\ new # "owner" =>
                      \E i \in Invites :
                        /\ invite[i].status = "pending"
                        /\ invite'[i] = [invite[i] EXCEPT !.status = "accepted"]
                        /\ invite[i].team = t /\ invite[i].user = u
                        /\ invite[i].role = new]_<<member, invite>>
  BY StepGrants DEF Granted
<1> QED
  BY MembersInitInv, MembersStepInv, <1>1, PTL DEF MembersSpec, MembershipIsGranted

-----------------------------------------------------------------------------
(***************************************************************************)
(* DOMAINS: DomainClaims implements ClaimedName.                           *)
(***************************************************************************)

-----------------------------------------------------------------------------
(***************************************************************************)
(* The inductive invariant.                                                *)
(***************************************************************************)

DomainRowSet == [id : 0 .. MaxDomains, token : BOOLEAN,
         facts : SUBSET {"verified", "claimed", "receiving"}]

DomainRequests == [team : Teams \cup {NoTeam}, id : 0 .. MaxDomains, value : BOOLEAN]

\* Ids are given in order.
Numbered == \A t \in Teams : domain[t].id <= domainRows

\* What the unique index keeps.
Exclusive == \A t, u \in Teams : Claims(domain[t]) /\ Claims(domain[u]) => t = u

DomainsInv ==
    /\ DomainsTyped
    /\ domainCall \in [Clients -> DomainRequests]
    /\ Numbered
    /\ Exclusive

LEMMA DomainsInitInv == DomainsInit => DomainsInv
<1> SUFFICES ASSUME DomainsInit
             PROVE  DomainsInv
  OBVIOUS
<1> USE DEF DomainsInit
<1>1. NoDomain \in DomainRowSet /\ NoDomain.id = 0 /\ ~Claims(NoDomain)
  BY DEF NoDomain, DomainRowSet, Claims
<1>2. NoDomainCall \in DomainRequests /\ NoDomainCall.team = NoTeam /\ NoDomainCall.id = 0
  BY DEF NoDomainCall, DomainRequests
<1>3. domain \in [Teams -> DomainRowSet]
  BY <1>1
<1>4. DomainsTyped
  <2>1. domainRows \in 0 .. MaxDomains
    OBVIOUS
  <2>2. identity \in BOOLEAN
    OBVIOUS
  <2>3. \A c \in Clients :
          /\ domainCall[c].team \in Teams \cup {NoTeam}
          /\ domainCall[c].team = NoTeam => domainPc[c] = "idle"
          /\ domainCall[c].id \in 0 .. domainRows
    BY <1>2 DEF DomainRequests
  <2> QED
    BY <1>3, <2>1, <2>2, <2>3 DEF DomainsTyped, DomainRowSet
<1>5. domainCall \in [Clients -> DomainRequests]
  BY <1>2
<1> QED
  BY <1>1, <1>4, <1>5 DEF DomainsInv, Numbered, Exclusive

-----------------------------------------------------------------------------
(***************************************************************************)
(* The steps by which requests begin and end.                              *)
(***************************************************************************)

\* The rows are as they should be.
DomainRowsInv ==
    /\ domain \in [Teams -> DomainRowSet]
    /\ domainRows \in 0 .. MaxDomains
    /\ identity \in BOOLEAN
    /\ Numbered
    /\ Exclusive

\* A request remembers a row that was there.
LEMMA Asking ==
  ASSUME DomainsInv, DomainRowsInv',
         NEW c \in Clients, NEW t \in Teams, NEW value \in BOOLEAN,
         NEW first \in {"insert", "status", "token", "claim", "receiving", "delete"},
         AskDomain(c, first, t, value), domainRows' = domainRows
  PROVE  DomainsInv'
<1> USE DEF DomainsInv, DomainRowsInv, AskDomain
<1>1. domain[t] \in DomainRowSet /\ domain[t].id <= domainRows
  BY DEF DomainsTyped, Numbered, DomainRowSet
<1>2. [team |-> t, id |-> domain[t].id, value |-> value] \in DomainRequests
  BY <1>1 DEF DomainRequests, DomainRowSet
<1>3. domainCall' \in [Clients -> DomainRequests]
  BY <1>2
<1>4. domainPc' \in [Clients -> {"idle", "insert", "status", "token", "claim",
                                 "receiving", "delete"}]
  BY DEF DomainsTyped
<1>5. ASSUME NEW d \in Clients
      PROVE  /\ domainCall'[d].team \in Teams \cup {NoTeam}
             /\ domainCall'[d].team = NoTeam => domainPc'[d] = "idle"
             /\ domainCall'[d].id \in 0 .. domainRows'
  <2>1. CASE d = c
    BY <2>1, <1>1 DEF DomainsTyped, DomainRowSet
  <2>2. CASE d # c
    BY <2>2 DEF DomainsTyped
  <2> QED
    BY <2>1, <2>2
<1> QED
  BY <1>3, <1>4, <1>5 DEF DomainsTyped, DomainRowSet

LEMMA Answering ==
  ASSUME DomainsInv, DomainRowsInv', NEW c \in Clients, AnswerDomain(c), domainRows' >= domainRows
  PROVE  DomainsInv'
<1> USE DEF DomainsInv, DomainRowsInv, AnswerDomain
<1>1. domainCall' \in [Clients -> DomainRequests]
  BY DEF DomainRequests, NoDomainCall
<1>2. domainPc' \in [Clients -> {"idle", "insert", "status", "token", "claim",
                                 "receiving", "delete"}]
  BY DEF DomainsTyped
<1>3. ASSUME NEW d \in Clients
      PROVE  /\ domainCall'[d].team \in Teams \cup {NoTeam}
             /\ domainCall'[d].team = NoTeam => domainPc'[d] = "idle"
             /\ domainCall'[d].id \in 0 .. domainRows'
  <2>1. CASE d = c
    BY <2>1 DEF DomainsTyped, NoDomainCall
  <2>2. CASE d # c
    BY <2>2 DEF DomainsTyped
  <2> QED
    BY <2>1, <2>2
<1> QED
  BY <1>1, <1>2, <1>3 DEF DomainsTyped, DomainRowSet

LEMMA DomainRowsHold == DomainsInv => DomainRowsInv
  BY DEF DomainsInv, DomainRowsInv, DomainsTyped, DomainRowSet

\* The team of a request under way.
LEMMA CalledTeam ==
  ASSUME DomainsInv, NEW c \in Clients, domainPc[c] # "idle"
  PROVE  domainCall[c].team \in Teams
  BY DEF DomainsInv, DomainsTyped

-----------------------------------------------------------------------------
(***************************************************************************)
(* The UPDATEs of a row.                                                   *)
(***************************************************************************)

\* One team's row changes, and the index allows it.
LEMMA Replacing ==
  ASSUME DomainRowsInv, NEW t \in Teams, NEW row \in DomainRowSet, row.id <= domainRows,
         ClaimIsFree(t, row), domain' = [domain EXCEPT ![t] = row],
         domainRows' = domainRows
  PROVE  /\ domain' \in [Teams -> DomainRowSet]
         /\ Numbered'
         /\ Exclusive'
<1> USE DEF DomainRowsInv
<1>1. domain' \in [Teams -> DomainRowSet]
  OBVIOUS
<1>2. Numbered'
  BY DEF Numbered
<1>3. ASSUME NEW u \in Teams, NEW v \in Teams, Claims(domain'[u]), Claims(domain'[v])
      PROVE  u = v
  <2>1. CASE u # t /\ v # t
    BY <2>1, <1>3 DEF Exclusive
  <2>2. CASE u = t /\ v # t
    BY <2>2, <1>3 DEF ClaimIsFree
  <2>3. CASE u # t /\ v = t
    BY <2>3, <1>3 DEF ClaimIsFree
  <2> QED
    BY <2>1, <2>2, <2>3
<1> QED
  BY <1>1, <1>2, <1>3 DEF Exclusive, Claims

LEMMA Updating ==
  ASSUME DomainsInv, NEW c \in Clients, domainPc[c] # "idle",
         NEW row \in DomainRowSet, row.id <= domainRows, UpdateRow(c, row),
         AnswerDomain(c), UNCHANGED <<domainRows, identity>>
  PROVE  DomainsInv'
<1>1. domainCall[c].team \in Teams
  BY CalledTeam
<1>2. DomainRowsInv
  BY DomainRowsHold
<1>3. CASE domain' = domain
  <2>1. DomainRowsInv'
    BY <1>2, <1>3 DEF DomainRowsInv, Numbered, Exclusive
  <2> QED
    BY <2>1, <1>2, Answering DEF DomainRowsInv
<1>4. CASE /\ ClaimIsFree(domainCall[c].team, row)
           /\ domain' = [domain EXCEPT ![domainCall[c].team] = row]
  <2>1. DomainRowsInv'
    BY <1>1, <1>2, <1>4, Replacing DEF DomainRowsInv
  <2> QED
    BY <2>1, <1>2, Answering DEF DomainRowsInv
<1> QED
  BY <1>3, <1>4 DEF UpdateRow

LEMMA UpdatingFact ==
  ASSUME DomainsInv, NEW c \in Clients, domainPc[c] # "idle",
         NEW fact \in {"verified", "claimed", "receiving"}, NEW holds \in BOOLEAN,
         UpdateFact(c, fact, holds), AnswerDomain(c), UNCHANGED <<domainRows, identity>>
  PROVE  DomainsInv'
<1> DEFINE t == domainCall[c].team
           row == [domain[t] EXCEPT !.facts = IF holds THEN @ \cup {fact} ELSE @ \ {fact}]
<1>1. t \in Teams
  BY CalledTeam
<1>2. row \in DomainRowSet /\ row.id <= domainRows
  BY <1>1 DEF DomainsInv, DomainsTyped, DomainRowSet, Numbered
<1>3. UpdateRow(c, row)
  BY DEF UpdateFact
<1> HIDE DEF row
<1> QED
  BY <1>2, <1>3, Updating

-----------------------------------------------------------------------------
(***************************************************************************)
(* Every step keeps the invariant.                                         *)
(***************************************************************************)

\* The row that is inserted.
LEMMA FreshRow ==
  ASSUME NEW id \in 0 .. MaxDomains
  PROVE  /\ [NoDomain EXCEPT !.id = id] \in DomainRowSet
         /\ [NoDomain EXCEPT !.id = id].id = id
         /\ [NoDomain EXCEPT !.id = id].facts = {}
<1>1. NoDomain \in DomainRowSet /\ NoDomain.facts = {}
  BY DEF NoDomain, DomainRowSet
<1> QED
  BY <1>1 DEF DomainRowSet

LEMMA Creating ==
  ASSUME DomainsInv, NEW c \in Clients, InsertDomain(c)
  PROVE  DomainsInv'
<1> DEFINE t == domainCall[c].team
           row == [NoDomain EXCEPT !.id = domainRows + 1]
<1>1. t \in Teams /\ DomainRowsInv
  BY CalledTeam, DomainRowsHold DEF InsertDomain
<1>2. CASE UNCHANGED <<domain, domainRows>>
  <2>1. DomainRowsInv'
    BY <1>1, <1>2 DEF InsertDomain, DomainRowsInv, Numbered, Exclusive
  <2> QED
    BY <2>1, <1>1, <1>2, Answering DEF InsertDomain, DomainRowsInv
<1>3. CASE /\ domainRows < MaxDomains
           /\ domainRows' = domainRows + 1
           /\ domain' = [domain EXCEPT ![t] = row]
  <2>1. row \in DomainRowSet /\ row.id = domainRows' /\ ~Claims(row)
    <3>1. domainRows + 1 \in 0 .. MaxDomains
      BY <1>1, <1>3 DEF DomainRowsInv
    <3> QED
      BY <3>1, <1>3, FreshRow DEF Claims
  <2> HIDE DEF row
  <2>2. domain' \in [Teams -> DomainRowSet]
    BY <2>1, <1>1, <1>3 DEF DomainRowsInv
  <2>3. \A u \in Teams : domain'[u] = IF u = t THEN row ELSE domain[u]
    BY <1>1, <1>3 DEF DomainRowsInv
  <2>4. Numbered'
    BY <2>1, <2>3, <1>1, <1>3 DEF DomainRowsInv, Numbered, DomainRowSet
  <2>5. Exclusive'
    BY <2>1, <2>3, <1>1 DEF DomainRowsInv, Exclusive, Claims
  <2>6. DomainRowsInv'
    BY <2>2, <2>4, <2>5, <1>1, <1>3 DEF DomainRowsInv, InsertDomain
  <2> QED
    BY <2>6, <1>1, <1>3, Answering DEF InsertDomain, DomainRowsInv
<1> QED
  BY <1>2, <1>3 DEF InsertDomain

LEMMA Releasing ==
  ASSUME DomainsInv, NEW t \in Teams, releaseClaimDomain(t)
  PROVE  DomainsInv'
<1> DEFINE row == [domain[t] EXCEPT !.facts = @ \ {"claimed"}, !.token = FALSE]
<1>1. DomainRowsInv
  BY DomainRowsHold
<1>2. row \in DomainRowSet /\ row.id <= domainRows /\ ~Claims(row)
  BY <1>1 DEF DomainRowsInv, DomainRowSet, Numbered, Claims
<1>3. domain' = [domain EXCEPT ![t] = row]
  BY <1>1 DEF releaseClaimDomain, DomainRowsInv, DomainRowSet
<1> HIDE DEF row
<1>4. Numbered' /\ Exclusive' /\ domain' \in [Teams -> DomainRowSet]
  BY <1>1, <1>2, <1>3, Replacing DEF releaseClaimDomain, ClaimIsFree
<1> QED
  BY <1>4 DEF DomainsInv, releaseClaimDomain, DomainsTyped, DomainRowSet

LEMMA DomainsStepInv == DomainsInv /\ [DomainsNext]_domainVars => DomainsInv'
<1> SUFFICES ASSUME DomainsInv, [DomainsNext]_domainVars
             PROVE  DomainsInv'
  OBVIOUS
<1>1. DomainRowsInv
  BY DomainRowsHold
<1>2. ASSUME UNCHANGED <<domain, domainRows>>, identity' \in BOOLEAN
      PROVE  DomainRowsInv'
  BY <1>1, <1>2 DEF DomainRowsInv, Numbered, Exclusive
<1>3. CASE UNCHANGED domainVars
  BY <1>3 DEF domainVars, DomainsInv, DomainsTyped, Numbered, Exclusive
<1>4. ASSUME NEW t \in Teams, releaseClaimDomain(t)
      PROVE  DomainsInv'
  BY <1>4, Releasing
<1>5. ASSUME NEW c \in Clients, InsertDomain(c)
      PROVE  DomainsInv'
  BY <1>5, Creating
<1>6. ASSUME NEW c \in Clients, SetStatus(c)
      PROVE  DomainsInv'
  <2>1. domainCall[c].value \in BOOLEAN
    BY DEF DomainsInv, DomainRequests
  <2> QED
    BY <2>1, <1>6, UpdatingFact DEF SetStatus
<1>7. ASSUME NEW c \in Clients, SetToken(c)
      PROVE  DomainsInv'
  <2> DEFINE t == domainCall[c].team
             row == [domain[t] EXCEPT !.token = TRUE]
  <2>1. t \in Teams
    BY <1>7, CalledTeam DEF SetToken
  <2>2. row \in DomainRowSet /\ row.id <= domainRows
    BY <2>1, <1>1 DEF DomainRowsInv, DomainRowSet, Numbered
  <2>3. UpdateRow(c, row)
    BY <1>7 DEF SetToken
  <2> HIDE DEF row
  <2> QED
    BY <2>2, <2>3, <1>7, Updating DEF SetToken
<1>8. ASSUME NEW c \in Clients, SetClaimed(c)
      PROVE  DomainsInv'
  BY <1>8, UpdatingFact DEF SetClaimed
<1>9. ASSUME NEW c \in Clients, SetReceiving(c)
      PROVE  DomainsInv'
  <2>1. domainCall[c].value \in BOOLEAN
    BY DEF DomainsInv, DomainRequests
  <2> QED
    BY <2>1, <1>9, UpdatingFact DEF SetReceiving
<1>10. ASSUME NEW c \in Clients, DeleteDomainRow(c)
       PROVE  DomainsInv'
  <2>1. NoDomain \in DomainRowSet /\ NoDomain.id <= domainRows
    BY <1>1 DEF NoDomain, DomainRowSet, DomainRowsInv
  <2> QED
    BY <2>1, <1>10, Updating DEF DeleteDomainRow
<1>11. ASSUME NEW c \in Clients, DomainCallDies(c)
       PROVE  DomainsInv'
  <2>1. DomainRowsInv'
    BY <1>1, <1>2, <1>11 DEF DomainCallDies, DomainRowsInv
  <2> QED
    BY <2>1, <1>1, <1>11, Answering DEF DomainCallDies, DomainRowsInv
<1>12. ASSUME NEW c \in Clients, NEW t \in Teams,
              \/ createDomain(c, t)
              \/ claimDomain(c, t)
              \/ confirmClaimDomain(c, t)
              \/ deleteDomain(c, t)
              \/ \E verified \in BOOLEAN : verifyDomain(c, t, verified)
              \/ \E enabled \in BOOLEAN : setDomainReceiving(c, t, enabled)
       PROVE  DomainsInv'
  <2>1. UNCHANGED <<domain, domainRows>> /\ identity' \in BOOLEAN
    BY <1>1, <1>12 DEF createDomain, claimDomain, confirmClaimDomain, deleteDomain,
                       verifyDomain, setDomainReceiving, DomainRowsInv
  <2>2. PICK first \in {"insert", "status", "token", "claim", "receiving", "delete"},
             value \in BOOLEAN : AskDomain(c, first, t, value)
    BY <1>12 DEF createDomain, claimDomain, confirmClaimDomain, deleteDomain,
                 verifyDomain, setDomainReceiving
  <2> QED
    BY <2>1, <2>2, <1>2, Asking
<1> QED
  BY <1>3, <1>4, <1>5, <1>6, <1>7, <1>8, <1>9, <1>10, <1>11, <1>12 DEF DomainsNext

\* The rows and the requests have their types.
THEOREM DomainsTypeCorrect == DomainsSpec => []DomainsTyped
<1>1. DomainsInv => DomainsTyped
  BY DEF DomainsInv
<1> QED
  BY DomainsInitInv, DomainsStepInv, <1>1, PTL DEF DomainsSpec

-----------------------------------------------------------------------------
(***************************************************************************)
(* The refinement.                                                         *)
(***************************************************************************)

\* What a step may do to the rows.
LEMMA OneRow ==
  ASSUME DomainsInv, [DomainsNext]_domainVars
  PROVE  \/ Facts' = Facts
         \/ \E t \in Teams :
              \/ Facts' = [Facts EXCEPT ![t] = {}]
              \/ \E f \in {"verified", "claimed", "receiving"} :
                   \/ Facts' = [Facts EXCEPT ![t] = @ \cup {f}]
                   \/ Facts' = [Facts EXCEPT ![t] = @ \ {f}]
<1> DEFINE Goal ==
      \/ Facts' = Facts
      \/ \E t \in Teams :
           \/ Facts' = [Facts EXCEPT ![t] = {}]
           \/ \E f \in {"verified", "claimed", "receiving"} :
                \/ Facts' = [Facts EXCEPT ![t] = @ \cup {f}]
                \/ Facts' = [Facts EXCEPT ![t] = @ \ {f}]
<1>1. domain \in [Teams -> DomainRowSet]
  BY DomainRowsHold DEF DomainRowsInv
<1>2. CASE UNCHANGED domain
  BY <1>2 DEF Facts
<1>3. ASSUME NEW t \in Teams, NEW row \in DomainRowSet, domain' = [domain EXCEPT ![t] = row]
      PROVE  Facts' = [Facts EXCEPT ![t] = row.facts]
  BY <1>1, <1>3 DEF Facts
<1>4. ASSUME NEW c \in Clients, domainPc[c] # "idle",
             NEW fact \in {"verified", "claimed", "receiving"}, NEW holds \in BOOLEAN,
             UpdateFact(c, fact, holds)
      PROVE  Goal
  <2> DEFINE t == domainCall[c].team
             row == [domain[t] EXCEPT !.facts = IF holds THEN @ \cup {fact} ELSE @ \ {fact}]
  <2>1. t \in Teams
    BY <1>4, CalledTeam
  <2>2. row \in DomainRowSet /\ row.facts \in {Facts[t] \cup {fact}, Facts[t] \ {fact}}
    BY <2>1, <1>1 DEF DomainRowSet, Facts
  <2>3. domain' = domain \/ domain' = [domain EXCEPT ![t] = row]
    BY <1>4 DEF UpdateFact, UpdateRow
  <2> HIDE DEF row
  <2>4. CASE domain' = [domain EXCEPT ![t] = row]
    <3>1. Facts' = [Facts EXCEPT ![t] = row.facts]
      BY <2>1, <2>2, <2>4, <1>3
    <3> HIDE DEF t
    <3>2. \/ Facts' = [Facts EXCEPT ![t] = @ \cup {fact}]
          \/ Facts' = [Facts EXCEPT ![t] = @ \ {fact}]
      BY <3>1, <2>2
    <3> QED
      BY <3>2, <2>1
  <2> QED
    BY <2>3, <2>4, <1>2
<1>5. ASSUME NEW t \in Teams, releaseClaimDomain(t)
      PROVE  Goal
  <2> DEFINE row == [domain[t] EXCEPT !.facts = @ \ {"claimed"}, !.token = FALSE]
  <2>1. row \in DomainRowSet /\ row.facts = Facts[t] \ {"claimed"}
    BY <1>1 DEF DomainRowSet, Facts
  <2>2. domain' = [domain EXCEPT ![t] = row]
    BY <1>1, <1>5 DEF releaseClaimDomain, DomainRowSet
  <2> HIDE DEF row
  <2> QED
    BY <2>1, <2>2, <1>3
<1>6. ASSUME NEW c \in Clients, InsertDomain(c)
      PROVE  Goal
  <2> DEFINE t == domainCall[c].team
             row == [NoDomain EXCEPT !.id = domainRows + 1]
  <2>1. t \in Teams
    BY <1>6, CalledTeam DEF InsertDomain
  <2>2. CASE domain' = [domain EXCEPT ![t] = row] /\ domainRows < MaxDomains
    <3>1. domainRows + 1 \in 0 .. MaxDomains
      BY <2>2, DomainRowsHold DEF DomainRowsInv
    <3>2. row \in DomainRowSet /\ row.facts = {}
      BY <3>1, FreshRow
    <3> HIDE DEF row
    <3> QED
      BY <3>2, <2>1, <2>2, <1>3
  <2> QED
    BY <2>2, <1>2, <1>6 DEF InsertDomain
<1>7. ASSUME NEW c \in Clients, SetToken(c)
      PROVE  Goal
  <2> DEFINE t == domainCall[c].team
             row == [domain[t] EXCEPT !.token = TRUE]
  <2>1. t \in Teams
    BY <1>7, CalledTeam DEF SetToken
  <2>2. row \in DomainRowSet /\ row.facts = Facts[t]
    BY <2>1, <1>1 DEF DomainRowSet, Facts
  <2>3. domain' = domain \/ domain' = [domain EXCEPT ![t] = row]
    BY <1>7 DEF SetToken, UpdateRow
  <2> HIDE DEF row
  <2>4. CASE domain' = [domain EXCEPT ![t] = row]
    <3>1. Facts' = [Facts EXCEPT ![t] = row.facts]
      BY <2>1, <2>2, <2>4, <1>3
    <3> HIDE DEF t
    <3> QED
      BY <3>1, <2>1, <2>2 DEF Facts
  <2> QED
    BY <2>3, <2>4, <1>2
<1>8. ASSUME NEW c \in Clients, DeleteDomainRow(c)
      PROVE  Goal
  <2>1. domainCall[c].team \in Teams
    BY <1>8, CalledTeam DEF DeleteDomainRow
  <2>2. NoDomain \in DomainRowSet /\ NoDomain.facts = {}
    BY DEF NoDomain, DomainRowSet
  <2>3. \/ domain' = domain
        \/ domain' = [domain EXCEPT ![domainCall[c].team] = NoDomain]
    BY <1>8 DEF DeleteDomainRow, UpdateRow
  <2> QED
    BY <2>1, <2>2, <2>3, <1>2, <1>3
<1>9. ASSUME NEW c \in Clients, SetStatus(c) \/ SetClaimed(c) \/ SetReceiving(c)
      PROVE  Goal
  <2>1. domainCall[c].value \in BOOLEAN
    BY DEF DomainsInv, DomainRequests
  <2> QED
    BY <2>1, <1>4, <1>9 DEF SetStatus, SetClaimed, SetReceiving
<1> QED
  BY <1>2, <1>5, <1>6, <1>7, <1>8, <1>9
     DEF DomainsNext, domainVars, DomainCallDies, createDomain, claimDomain,
         confirmClaimDomain, deleteDomain, verifyDomain, setDomainReceiving

LEMMA DomainsStepMaps ==
  ASSUME DomainsInv, DomainsInv', [DomainsNext]_domainVars
  PROVE  [Promise!NameNext]_Facts
<1>1. Promise!OneClaimant(Facts')
  BY DEF DomainsInv, Exclusive, Promise!OneClaimant, Promise!Claimants, Facts, Claims
<1>2. CASE Facts' = Facts
  BY <1>2
<1>3. ASSUME NEW t \in Teams, Facts' = [Facts EXCEPT ![t] = {}]
      PROVE  Promise!NameNext
  BY <1>1, <1>3 DEF Promise!NameNext, Promise!DeleteName
<1>4. ASSUME NEW t \in Teams, NEW f \in {"verified", "claimed", "receiving"},
             \/ Facts' = [Facts EXCEPT ![t] = @ \cup {f}]
             \/ Facts' = [Facts EXCEPT ![t] = @ \ {f}]
      PROVE  Promise!NameNext
  <2>1. f \in Promise!DomainFacts
    BY DEF Promise!DomainFacts
  <2>2. Promise!Learn(t, f) \/ Promise!Forget(t, f)
    BY <1>4 DEF Promise!Learn, Promise!Forget
  <2> QED
    BY <2>1, <2>2, <1>1 DEF Promise!NameNext
<1> QED
  BY <1>2, <1>3, <1>4, OneRow

LEMMA DomainsInitMaps == DomainsInit => Promise!NameInit
  BY DEF DomainsInit, Promise!NameInit, Facts, NoDomain

\* The rows of a name keep what ClaimedName promises, for any number of teams
\* that verify, claim, confirm, release and delete it at the same time: the
\* unique index is enough, whatever the checks before the UPDATEs saw.
THEOREM RowsKeepPromise == DomainsSpec => ImplementsClaimedName
<1>1. DomainsInv /\ DomainsInv' /\ [DomainsNext]_domainVars => [Promise!NameNext]_Facts
  BY DomainsStepMaps
<1> QED
  BY DomainsInitInv, DomainsStepInv, DomainsInitMaps, <1>1, PTL
     DEF DomainsSpec, ImplementsClaimedName, Promise!NameSpec

-----------------------------------------------------------------------------
(***************************************************************************)
(* GRANTS OF OAUTH APPS.                                                   *)
(***************************************************************************)

-----------------------------------------------------------------------------
(***************************************************************************)
(* The inductive invariant.                                                *)
(***************************************************************************)

\* The grant a right descends from.
GrantOf(r) == [code |-> r.code, app |-> r.app, team |-> r.team]

Asked == [id : {0}, app : Apps, team : Teams]

\* A request remembers an app and a team to insert a code for, or a right of a
\* grant that was given.
GrantRemembers(c) ==
    /\ grantPc[c] = "authorize" => grantCall[c] \in Asked
    /\ grantPc[c] \in {"spend", "access", "refresh"} =>
         grantCall[c] \in RightRows /\ GrantOf(grantCall[c]) \in given

\* Ids are given in order, and a right descends from a grant to an app that is
\* there.
Descends(r) ==
    /\ r.id <= grants
    /\ r.app \in apps
    /\ GrantOf(r) \in given

GrantsInv ==
    /\ GrantsTyped
    /\ grantCall \in [Clients -> RightRows \cup Asked \cup {NoRight}]
    /\ \A c \in Clients : GrantRemembers(c)
    /\ \A r \in rights : Descends(r)

-----------------------------------------------------------------------------
(***************************************************************************)
(* The rows.                                                               *)
(***************************************************************************)

GrantsGiven == [code : 1 .. MaxGrants, app : Apps, team : Teams]

GrantRowsInv ==
    /\ apps \subseteq Apps
    /\ given \subseteq GrantsGiven
    /\ rights \subseteq RightRows
    /\ grants \in 0 .. MaxGrants
    /\ \A r, q \in rights : r.id = q.id => r = q
    /\ \A r \in rights : Descends(r)

LEMMA GrantInserting ==
  ASSUME GrantRowsInv, NEW row \in RightRows, grants < MaxGrants, row.id = grants + 1,
         InsertRight(row), apps' = apps, given \subseteq given', given' \subseteq GrantsGiven,
         row.app \in apps => GrantOf(row) \in given'
  PROVE  GrantRowsInv'
<1> USE DEF GrantRowsInv
<1>1. CASE row.app \notin apps
  <2>1. rights' = rights /\ grants' = grants
    BY <1>1 DEF InsertRight
  <2> QED
    BY <2>1 DEF Descends, GrantOf
<1>2. CASE row.app \in apps
  <2>1. rights' = rights \cup {row} /\ grants' = grants + 1
    BY <1>2 DEF InsertRight
  <2>2. \A r \in rights : r.id <= grants
    BY DEF Descends
  <2>3. rights' \subseteq RightRows /\ grants' \in 0 .. MaxGrants
    BY <2>1
  <2>4. ASSUME NEW r \in rights', NEW q \in rights', r.id = q.id
        PROVE  r = q
    <3>1. CASE r \in rights /\ q \in rights
      BY <3>1, <2>4
    <3>2. CASE r = row /\ q # row
      BY <3>2, <2>1, <2>2, <2>4 DEF RightRows
    <3>3. CASE q = row /\ r # row
      BY <3>3, <2>1, <2>2, <2>4 DEF RightRows
    <3> QED
      BY <3>1, <3>2, <3>3, <2>1
  <2>5. ASSUME NEW r \in rights'
        PROVE  Descends(r)'
    <3>1. CASE r \in rights
      BY <3>1, <2>1 DEF Descends, GrantOf, RightRows
    <3>2. CASE r = row
      BY <3>2, <2>1, <1>2 DEF Descends, GrantOf
    <3> QED
      BY <3>1, <3>2, <2>1
  <2> QED
    BY <2>3, <2>4, <2>5
<1> QED
  BY <1>1, <1>2

\* SET used_at, revoked_at, or the time: a right is over.
LEMMA GrantEnding ==
  ASSUME GrantRowsInv, NEW i,
         rights' = {IF r.id = i THEN [r EXCEPT !.over = TRUE] ELSE r : r \in rights},
         UNCHANGED <<apps, given, grants>>
  PROVE  GrantRowsInv'
<1> USE DEF GrantRowsInv
<1> DEFINE Over(r) == IF r.id = i THEN [r EXCEPT !.over = TRUE] ELSE r
<1>1. ASSUME NEW r \in rights
      PROVE  /\ Over(r) \in RightRows /\ Over(r).id = r.id
             /\ Descends(Over(r))'
  BY DEF RightRows, Descends, GrantOf
<1>2. rights' = {Over(r) : r \in rights}
  OBVIOUS
<1> HIDE DEF Over
<1>3. rights' \subseteq RightRows /\ \A r \in rights' : Descends(r)'
  BY <1>1, <1>2
<1>4. \A r, q \in rights' : r.id = q.id => r = q
  BY <1>1, <1>2
<1> QED
  BY <1>3, <1>4

-----------------------------------------------------------------------------
(***************************************************************************)
(* The requests.                                                           *)
(***************************************************************************)

GrantPcs == {"idle", "authorize", "spend", "access", "refresh"}

GrantCallsInv ==
    /\ grantPc \in [Clients -> GrantPcs]
    /\ grantCall \in [Clients -> RightRows \cup Asked \cup {NoRight}]
    /\ \A c \in Clients : grantPc[c] = "idle" <=> grantCall[c] = NoRight
    /\ \A c \in Clients : GrantRemembers(c)

LEMMA GrantParts == GrantsInv <=> GrantRowsInv /\ GrantCallsInv
  BY DEF GrantsInv, GrantRowsInv, GrantCallsInv, GrantsTyped, GrantsGiven, GrantPcs

LEMMA AskedIsSomething ==
  /\ \A q \in Asked : q # NoRight
  /\ \A q \in RightRows : q # NoRight
<1>1. ASSUME NEW q \in Asked
      PROVE  q # NoRight
  <2>1. DOMAIN q = {"id", "app", "team"}
    BY DEF Asked
  <2>2. DOMAIN NoRight = {"id"}
    BY DEF NoRight
  <2> QED
    BY <2>1, <2>2
<1>2. ASSUME NEW q \in RightRows
      PROVE  q # NoRight
  BY DEF RightRows, NoRight
<1> QED
  BY <1>1, <1>2

\* No grant is taken back.
LEMMA GrantStepping ==
  ASSUME GrantCallsInv, NEW c \in Clients, NEW next, NEW right, GrantStep(c, next, right),
         given \subseteq given',
         \/ next = "idle" /\ right = NoRight
         \/ next = "authorize" /\ right \in Asked
         \/ /\ next \in {"spend", "access", "refresh"}
            /\ right \in RightRows /\ GrantOf(right) \in given
  PROVE  GrantCallsInv'
<1> USE DEF GrantCallsInv, GrantPcs
<1>1. right \in RightRows \cup Asked \cup {NoRight} /\ next \in GrantPcs
  OBVIOUS
<1>2. grantPc' \in [Clients -> GrantPcs]
  BY <1>1 DEF GrantStep
<1>3. grantCall' \in [Clients -> RightRows \cup Asked \cup {NoRight}]
  BY <1>1 DEF GrantStep
<1>4. ASSUME NEW d \in Clients
      PROVE  GrantRemembers(d)' /\ (grantPc'[d] = "idle" <=> grantCall'[d] = NoRight)
  <2>1. CASE d # c
    <3>1. grantPc'[d] = grantPc[d] /\ grantCall'[d] = grantCall[d]
      BY <2>1 DEF GrantStep
    <3> QED
      BY <3>1 DEF GrantRemembers, GrantOf
  <2>2. CASE d = c
    <3>1. grantPc'[c] = next /\ grantCall'[c] = right
      BY DEF GrantStep
    <3> QED
      BY <3>1, <2>2, AskedIsSomething DEF GrantRemembers, GrantOf
  <2> QED
    BY <2>1, <2>2
<1> QED
  BY <1>2, <1>3, <1>4

LEMMA GrantWaiting ==
  ASSUME GrantCallsInv, UNCHANGED <<grantPc, grantCall, given>>
  PROVE  GrantCallsInv'
BY DEF GrantCallsInv, GrantRemembers, GrantOf

-----------------------------------------------------------------------------
(***************************************************************************)
(* Every step keeps the invariant.                                         *)
(***************************************************************************)

LEMMA GrantsInitInv == GrantsInit => GrantsInv
<1> SUFFICES ASSUME GrantsInit
             PROVE  GrantRowsInv /\ GrantCallsInv
  BY GrantParts
<1>1. GrantRowsInv
  BY DEF GrantsInit, GrantRowsInv
<1>2. GrantCallsInv
  BY DEF GrantsInit, GrantCallsInv, GrantPcs, GrantRemembers
<1> QED
  BY <1>1, <1>2

LEMMA GrantsStepInv == GrantsInv /\ [GrantsNext]_grantVars => GrantsInv'
<1> SUFFICES ASSUME GrantRowsInv, GrantCallsInv, [GrantsNext]_grantVars
             PROVE  GrantRowsInv' /\ GrantCallsInv'
  <2>1. (GrantRowsInv /\ GrantCallsInv => GrantsInv)'
    BY GrantParts, PTL
  <2> QED
    BY GrantParts, <2>1
<1>1. ASSUME UNCHANGED <<apps, given, rights, grants>>
      PROVE  GrantRowsInv'
  BY <1>1 DEF GrantRowsInv, Descends, GrantOf
<1>2. CASE UNCHANGED grantVars
  BY <1>1, <1>2, GrantWaiting DEF grantVars
<1>3. ASSUME NEW app \in Apps, deleteOAuthApp(app)
      PROVE  GrantRowsInv' /\ GrantCallsInv'
  <2>1. GrantRowsInv'
    BY <1>3 DEF deleteOAuthApp, DeleteApp, GrantRowsInv, Descends, GrantOf
  <2> QED
    BY <2>1, <1>3, GrantWaiting DEF deleteOAuthApp
<1>4. ASSUME NEW right \in rights, ExpireRight(right)
      PROVE  GrantRowsInv' /\ GrantCallsInv'
  <2>1. rights' = {IF r.id = right.id THEN [r EXCEPT !.over = TRUE] ELSE r : r \in rights}
    BY <1>4 DEF ExpireRight, GrantRowsInv
  <2>2. GrantRowsInv'
    BY <2>1, <1>4, GrantEnding DEF ExpireRight
  <2> QED
    BY <2>2, <1>4, GrantWaiting DEF ExpireRight
<1>5. ASSUME NEW c \in Clients, NEW app \in Apps, NEW t \in Teams,
             oauthAuthorize(c, app, t)
      PROVE  GrantRowsInv' /\ GrantCallsInv'
  <2>1. [id |-> 0, app |-> app, team |-> t] \in Asked
    BY DEF Asked
  <2> QED
    BY <2>1, <1>1, <1>5, GrantStepping DEF oauthAuthorize
<1>6. ASSUME NEW c \in Clients, NEW right \in rights, oauthToken(c, right)
      PROVE  GrantRowsInv' /\ GrantCallsInv'
  <2>1. right \in RightRows /\ GrantOf(right) \in given
    BY DEF GrantRowsInv, Descends
  <2> QED
    BY <2>1, <1>1, <1>6, GrantStepping DEF oauthToken
<1>7. ASSUME NEW c \in Clients, InsertCode(c)
      PROVE  GrantRowsInv' /\ GrantCallsInv'
  <2> DEFINE g == grantCall[c]
             row == [id |-> grants + 1, kind |-> "code", app |-> g.app, team |-> g.team,
                     code |-> grants + 1, over |-> FALSE]
             new == [code |-> grants + 1, app |-> g.app, team |-> g.team]
  <2>1. g \in Asked /\ grants + 1 \in 1 .. MaxGrants
    BY <1>7 DEF InsertCode, GrantCallsInv, GrantRemembers, GrantRowsInv
  <2>2. row \in RightRows /\ row.id = grants + 1 /\ row.app = g.app /\ GrantOf(row) = new
    BY <2>1 DEF RightRows, Asked, GrantOf
  <2>3. new \in GrantsGiven
    BY <2>1 DEF Asked, GrantsGiven
  <2>4. InsertRight(row)
    BY <1>7 DEF InsertCode
  <2>5. given' = IF g.app \in apps THEN given \cup {new} ELSE given
    BY <1>7 DEF InsertCode
  <2> HIDE DEF row, new
  <2>6. /\ given \subseteq given' /\ given' \subseteq GrantsGiven
        /\ row.app \in apps => new \in given'
    BY <2>2, <2>3, <2>5 DEF GrantRowsInv
  <2>7. GrantRowsInv'
    BY <2>2, <2>4, <2>6, <1>7, GrantInserting DEF InsertCode
  <2>8. GrantCallsInv'
    BY <2>6, <1>7, GrantStepping DEF InsertCode
  <2> QED
    BY <2>7, <2>8
<1>8. ASSUME NEW c \in Clients, grantPc[c] \in {"spend", "access", "refresh"}
      PROVE  grantCall[c] \in RightRows /\ GrantOf(grantCall[c]) \in given
  BY <1>8 DEF GrantCallsInv, GrantRemembers
<1>9. ASSUME NEW c \in Clients, Spend(c)
      PROVE  GrantRowsInv' /\ GrantCallsInv'
  <2>1. GrantRowsInv'
    BY <1>9, GrantEnding DEF Spend
  <2>2. GrantCallsInv'
    BY <1>8, <1>9, GrantStepping DEF Spend
  <2> QED
    BY <2>1, <2>2
<1>10. ASSUME NEW c \in Clients, NEW kind \in {"access", "refresh"}, NEW next, NEW right,
              IssueToken(c, kind, next, right),
              \/ next = "refresh" /\ right = grantCall[c]
              \/ next = "idle" /\ right = NoRight
       PROVE  GrantRowsInv' /\ GrantCallsInv'
  <2> DEFINE row == [grantCall[c] EXCEPT !.id = grants + 1, !.kind = kind]
  <2>1. grantCall[c] \in RightRows /\ GrantOf(grantCall[c]) \in given
    BY <1>8, <1>10 DEF IssueToken
  <2>2. grants < MaxGrants /\ grants + 1 \in 1 .. MaxGrants
    BY <1>10 DEF IssueToken, GrantRowsInv
  <2>3. row \in RightRows /\ row.id = grants + 1 /\ GrantOf(row) = GrantOf(grantCall[c])
    BY <2>1, <2>2 DEF RightRows, GrantOf
  <2>4. InsertRight(row) /\ UNCHANGED <<apps, given>>
    BY <1>10 DEF IssueToken
  <2> HIDE DEF row
  <2>5. GrantRowsInv'
    BY <2>1, <2>2, <2>3, <2>4, GrantInserting DEF GrantRowsInv
  <2>6. GrantStep(c, next, right) \/ GrantStep(c, "idle", NoRight)
    BY <1>10 DEF IssueToken
  <2>7. GrantCallsInv'
    BY <2>1, <2>4, <2>6, <1>10, GrantStepping
  <2> QED
    BY <2>5, <2>7
<1>11. ASSUME NEW c \in Clients, GrantStepFails(c)
       PROVE  GrantRowsInv' /\ GrantCallsInv'
  <2>1. \/ grantPc[c] = "spend" /\ GrantStep(c, "access", grantCall[c])
        \/ GrantStep(c, "idle", NoRight)
    BY <1>11 DEF GrantStepFails
  <2>2. GrantCallsInv'
    BY <2>1, <1>8, <1>11, GrantStepping DEF GrantStepFails
  <2> QED
    BY <2>2, <1>1, <1>11 DEF GrantStepFails
<1> QED
  BY <1>2, <1>3, <1>4, <1>5, <1>6, <1>7, <1>9, <1>10, <1>11 DEF GrantsNext, issueTokens

-----------------------------------------------------------------------------
(***************************************************************************)
(* The theorems.                                                           *)
(***************************************************************************)

\* The rows and the requests have their types.
THEOREM GrantsTypeCorrect == GrantsSpec => []GrantsTyped
<1>1. GrantsInv => GrantsTyped
  BY DEF GrantsInv
<1> QED
  BY GrantsInitInv, GrantsStepInv, <1>1, PTL DEF GrantsSpec

\* However exchanges, refreshes and the deletion of apps cross, a token acts for
\* the team that granted it and only while its app is there.
THEOREM TokensStayWithGrants == GrantsSpec => []TokensFollowGrants
<1>1. GrantsInv => TokensFollowGrants
  <2> SUFFICES ASSUME GrantsInv, NEW r \in rights
               PROVE  /\ r.app \in apps
                      /\ [code |-> r.code, app |-> r.app, team |-> r.team] \in given
                      /\ LookupAccessToken(r.id) \subseteq
                           {g.team : g \in {h \in given : h.code = r.code}}
    BY DEF TokensFollowGrants
  <2>1. r.app \in apps /\ GrantOf(r) \in given
    BY DEF GrantsInv, Descends
  <2>2. LookupAccessToken(r.id) \subseteq {r.team}
    BY DEF GrantsInv, GrantsTyped, LookupAccessToken
  <2>3. GrantOf(r).code = r.code /\ GrantOf(r).team = r.team
    BY DEF GrantOf
  <2>4. r.team \in {g.team : g \in {h \in given : h.code = r.code}}
    BY <2>1, <2>3
  <2> QED
    BY <2>1, <2>2, <2>4 DEF GrantOf
<1> QED
  BY GrantsInitInv, GrantsStepInv, <1>1, PTL DEF GrantsSpec


-----------------------------------------------------------------------------
(***************************************************************************)
(* INBOUND MAIL: the inductive invariant.                                  *)
(***************************************************************************)

\* Of a team's row for the email and its attachment: one delivery at most is
\* between the two, and without it the attachment is there, unless hurt.
Settled(t) ==
    /\ received[t] <= 1
    /\ attached[t] <= received[t]
    /\ \A c \in Clients :
          inboundPc[c] = "attach" /\ inboundTeam[c] = t => received[t] = 1 /\ attached[t] = 0
    /\ \A c, d \in Clients :
          /\ inboundPc[c] = "attach" /\ inboundTeam[c] = t
          /\ inboundPc[d] = "attach" /\ inboundTeam[d] = t
          => c = d
    /\ t \notin hurt /\ received[t] = 1 /\ attached[t] = 0 =>
          \E c \in Clients : inboundPc[c] = "attach" /\ inboundTeam[c] = t

\* While one team has held the name all along, every delivery is for that team.
Led ==
    holder # NoTeam =>
        /\ holder \in Claimants(facts) \cap Receivers(facts)
        /\ \A c \in Clients : inboundTeam[c] \in {holder, NoTeam}
        /\ \A t \in Teams \ {holder} : received[t] = 0
        /\ acked => received[holder] > 0 \/ astray

InboundInv ==
    /\ InboundTyped
    /\ OneClaimant(facts)
    /\ \A c \in Clients : inboundPc[c] # "idle" => deliveries > 0
    /\ \A t \in Teams : Settled(t)
    /\ Led

-----------------------------------------------------------------------------

LEMMA InboundInitInv == InboundInit => InboundInv
<1> SUFFICES ASSUME InboundInit
             PROVE  InboundInv
  OBVIOUS
<1>1. holder \in (Claimants(facts) \cap Receivers(facts)) \cup {NoTeam}
  BY DEF InboundInit, HolderIn
<1>2. InboundTyped
  <2>1. holder \in Teams \cup {NoTeam}
    BY <1>1 DEF Claimants
  <2>2. 0 \in 0 .. MaxDeliveries /\ 0 \in 0 .. MaxMoves
    OBVIOUS
  <2>3. received \in [Teams -> 0 .. MaxDeliveries] /\ attached \in [Teams -> 0 .. MaxDeliveries]
    BY <2>2 DEF InboundInit
  <2> QED
    BY <2>1, <2>2, <2>3 DEF InboundInit, InboundTyped
<1>3. ASSUME NEW t \in Teams
      PROVE  Settled(t)
  <2>1. received[t] = 0 /\ attached[t] = 0
    BY DEF InboundInit
  <2>2. \A c \in Clients : inboundPc[c] = "idle"
    BY DEF InboundInit
  <2> QED
    BY <2>1, <2>2 DEF Settled
<1>4. Led
  BY <1>1 DEF InboundInit, Led
<1> QED
  BY <1>2, <1>3, <1>4 DEF InboundInv, InboundInit

\* The statement of a delivery moves this delivery only.
LEMMA Delivering ==
  ASSUME InboundTyped, NEW c \in Clients, NEW t \in Teams \cup {NoTeam},
         NEW next \in {"idle", "find", "insert", "attach"}, Deliver(c, next, t),
         next = "idle" <=> t = NoTeam
  PROVE  /\ inboundPc' \in [Clients -> {"idle", "find", "insert", "attach"}]
         /\ inboundTeam' \in [Clients -> Teams \cup {NoTeam}]
         /\ inboundPc'[c] = next /\ inboundTeam'[c] = t
         /\ \A d \in Clients \ {c} :
               inboundPc'[d] = inboundPc[d] /\ inboundTeam'[d] = inboundTeam[d]
         /\ \A d \in Clients : inboundPc'[d] = "idle" <=> inboundTeam'[d] = NoTeam
BY DEF InboundTyped, Deliver

LEMMA SettledStays ==
  ASSUME NEW t \in Teams, Settled(t),
         received'[t] = received[t], attached'[t] = attached[t], hurt \subseteq hurt',
         \A c \in Clients : inboundPc'[c] = "attach" /\ inboundTeam'[c] = t
                              <=> inboundPc[c] = "attach" /\ inboundTeam[c] = t
  PROVE  Settled(t)'
BY DEF Settled

\* The team of the email is looked for: the holder's claim comes first.
LEMMA HolderIsFound ==
  ASSUME InboundInv, holder # NoTeam
  PROVE  teamForRecipients = {holder}
BY DEF InboundInv, Led, OneClaimant, teamForRecipients

LEMMA MovesStep ==
  ASSUME InboundInv, DomainMoves
  PROVE  InboundInv'
<1>1. facts' \in [Teams -> SUBSET DomainFacts]
  <2>1. ASSUME NEW t \in Teams, NEW f \in DomainFacts,
               DeleteName(t) \/ Learn(t, f) \/ Forget(t, f)
        PROVE  facts' \in [Teams -> SUBSET DomainFacts]
    BY <2>1 DEF InboundInv, InboundTyped, DeleteName, Learn, Forget
  <2>2. DomainFacts # {}
    BY DEF DomainFacts
  <2> QED
    BY <2>1, <2>2 DEF DomainMoves, NameNext
<1>2. OneClaimant(facts')
  BY DEF DomainMoves, NameNext
<1>3. holder' = holder \/ holder' = NoTeam
  BY DEF DomainMoves
<1>4. holder' # NoTeam => holder' = holder /\ holder' \in Claimants(facts') \cap Receivers(facts')
  <2>1. HolderIn(facts') \in (Claimants(facts') \cap Receivers(facts')) \cup {NoTeam}
    BY DEF HolderIn
  <2> QED
    BY <2>1 DEF DomainMoves
<1>5. moves' \in 0 .. MaxMoves
  BY DEF DomainMoves, InboundInv, InboundTyped
<1>6. InboundTyped'
  BY <1>1, <1>3, <1>5 DEF DomainMoves, InboundInv, InboundTyped
<1>7. ASSUME NEW t \in Teams
      PROVE  Settled(t)'
  BY SettledStays DEF DomainMoves, InboundInv
<1>8. Led'
  BY <1>4 DEF Led, DomainMoves, InboundInv, Claimants, Receivers
<1> QED
  BY <1>2, <1>6, <1>7, <1>8 DEF InboundInv, DomainMoves, OneClaimant, Claimants

\* What the statements of a delivery leave to be shown: the rows, and who leads.
LEMMA DeliveryKeeps ==
  ASSUME InboundInv, NEW c \in Clients, NEW t \in Teams \cup {NoTeam},
         NEW next \in {"idle", "find", "insert", "attach"}, Deliver(c, next, t),
         next = "idle" <=> t = NoTeam,
         next # "idle" => deliveries' > 0, deliveries' \in deliveries .. MaxDeliveries,
         UNCHANGED <<facts, moves, holder>>,
         received' \in [Teams -> 0 .. MaxDeliveries],
         attached' \in [Teams -> 0 .. MaxDeliveries],
         acked' \in BOOLEAN, astray' \in BOOLEAN, hurt' \subseteq Teams,
         bodiless' \subseteq bodiless \cup {c},
         c \in bodiless' => next \in {"find", "insert"}
  PROVE  /\ InboundTyped'
         /\ OneClaimant(facts)'
         /\ \A d \in Clients : inboundPc'[d] # "idle" => deliveries' > 0
<1>1. InboundTyped
  BY DEF InboundInv
<1>2. /\ inboundPc' \in [Clients -> {"idle", "find", "insert", "attach"}]
      /\ inboundTeam' \in [Clients -> Teams \cup {NoTeam}]
      /\ inboundPc'[c] = next /\ inboundTeam'[c] = t
      /\ \A d \in Clients \ {c} :
            inboundPc'[d] = inboundPc[d] /\ inboundTeam'[d] = inboundTeam[d]
      /\ \A d \in Clients : inboundPc'[d] = "idle" <=> inboundTeam'[d] = NoTeam
  BY <1>1, Delivering
<1>3. deliveries \in Nat /\ deliveries' \in 0 .. MaxDeliveries
  BY <1>1 DEF InboundTyped
<1>4. bodiless' \subseteq {d \in Clients : inboundPc'[d] \in {"find", "insert"}}
  BY <1>1, <1>2 DEF InboundTyped
<1>5. InboundTyped'
  BY <1>1, <1>2, <1>3, <1>4 DEF InboundTyped
<1>6. \A d \in Clients : inboundPc'[d] # "idle" => deliveries' > 0
  BY <1>2, <1>3 DEF InboundInv
<1> QED
  BY <1>5, <1>6 DEF InboundInv, OneClaimant, Claimants

LEMMA PostedStep ==
  ASSUME InboundInv, NEW c \in Clients, inboundSES(c)
  PROVE  InboundInv'
<1> USE DEF InboundInv
<1>1. /\ inboundPc[c] = "idle" /\ deliveries' \in 1 .. MaxDeliveries
      /\ deliveries' \in deliveries .. MaxDeliveries
      /\ UNCHANGED <<facts, received, attached, moves, holder, hurt>>
  BY DEF inboundSES, InboundTyped
<1>2. CASE \E failed \in BOOLEAN : Drop(failed)
  <2>1. /\ UNCHANGED <<inboundPc, inboundTeam, bodiless>> /\ acked' = TRUE
        /\ astray' \in BOOLEAN /\ (astray => astray')
        /\ astray' \/ teamForRecipients = {}
    BY <1>2 DEF Drop, InboundTyped
  <2>2. InboundTyped'
    BY <1>1, <2>1 DEF InboundTyped
  <2>3. \A t \in Teams : Settled(t)'
    BY <1>1, <2>1, SettledStays
  <2>4. Led'
    BY <1>1, <2>1, HolderIsFound DEF Led, Claimants, Receivers
  <2> QED
    BY <1>1, <2>1, <2>2, <2>3, <2>4 DEF OneClaimant, Claimants
<1>3. ASSUME NEW fetched \in BOOLEAN, HandleSESNNotification(c, fetched)
      PROVE  InboundInv'
  <2>1. PICK t \in teamForRecipients : Deliver(c, "find", t)
    BY <1>3 DEF HandleSESNNotification
  <2>2. t \in Teams /\ t # NoTeam
    BY <2>1 DEF teamForRecipients, Claimants, Receivers
  <2>3. /\ bodiless' \subseteq bodiless \cup {c} /\ UNCHANGED <<acked, astray>>
    BY <1>3 DEF HandleSESNNotification
  <2>4. /\ InboundTyped' /\ OneClaimant(facts)'
        /\ \A d \in Clients : inboundPc'[d] # "idle" => deliveries' > 0
    <3>1. received' \in [Teams -> 0 .. MaxDeliveries] /\ attached' \in [Teams -> 0 .. MaxDeliveries]
          /\ acked' \in BOOLEAN /\ astray' \in BOOLEAN /\ hurt' \subseteq Teams
      BY <1>1, <2>3 DEF InboundTyped
    <3>2. deliveries' > 0
      BY <1>1
    <3> QED
      BY <1>1, <2>1, <2>2, <2>3, <3>1, <3>2, DeliveryKeeps
  <2>5. /\ inboundPc'[c] = "find" /\ inboundTeam'[c] = t
        /\ \A d \in Clients \ {c} :
              inboundPc'[d] = inboundPc[d] /\ inboundTeam'[d] = inboundTeam[d]
    BY <2>1, <2>2, Delivering
  <2>6. ASSUME NEW u \in Teams
        PROVE  Settled(u)'
    BY <1>1, <2>5, SettledStays
  <2>7. Led'
    BY <1>1, <2>1, <2>3, <2>5, HolderIsFound DEF Led, Claimants, Receivers
  <2> QED
    BY <2>4, <2>6, <2>7
<1> QED
  BY <1>2, <1>3 DEF inboundSES

\* What a delivery under way knows.
LEMMA UnderWay ==
  ASSUME InboundInv, NEW c \in Clients, inboundPc[c] # "idle"
  PROVE  /\ inboundTeam[c] \in Teams /\ inboundTeam[c] # NoTeam
         /\ deliveries > 0 /\ deliveries \in 1 .. MaxDeliveries
         /\ holder # NoTeam => inboundTeam[c] = holder
BY DEF InboundInv, InboundTyped, Led

LEMMA FindStep ==
  ASSUME InboundInv, NEW c \in Clients, FindReceived(c)
  PROVE  InboundInv'
<1> USE DEF InboundInv
<1>1. /\ inboundPc[c] = "find"
      /\ UNCHANGED <<facts, received, attached, deliveries, moves, holder, hurt, astray>>
  BY DEF FindReceived
<1>2. /\ inboundTeam[c] \in Teams /\ inboundTeam[c] # NoTeam /\ deliveries > 0
      /\ deliveries \in deliveries .. MaxDeliveries
      /\ holder # NoTeam => inboundTeam[c] = holder
  BY <1>1, UnderWay DEF InboundTyped
<1>3. PICK next \in {"idle", "insert"}, t \in {NoTeam, inboundTeam[c]} :
        /\ Deliver(c, next, t)
        /\ next = "idle" <=> t = NoTeam
        /\ bodiless' \subseteq bodiless
        /\ next = "idle" => c \notin bodiless'
        /\ acked' = acked \/ (acked' = TRUE /\ received[inboundTeam[c]] > 0)
  BY <1>2 DEF FindReceived, Respond
<1>4. /\ InboundTyped' /\ OneClaimant(facts)'
      /\ \A d \in Clients : inboundPc'[d] # "idle" => deliveries' > 0
  <2>1. received' \in [Teams -> 0 .. MaxDeliveries] /\ attached' \in [Teams -> 0 .. MaxDeliveries]
        /\ acked' \in BOOLEAN /\ astray' \in BOOLEAN /\ hurt' \subseteq Teams
    BY <1>1, <1>3 DEF InboundTyped
  <2> QED
    BY <1>1, <1>2, <1>3, <2>1, DeliveryKeeps
<1>5. /\ inboundPc'[c] = next /\ inboundTeam'[c] = t
      /\ \A d \in Clients \ {c} :
            inboundPc'[d] = inboundPc[d] /\ inboundTeam'[d] = inboundTeam[d]
  BY <1>2, <1>3, Delivering
<1>6. ASSUME NEW u \in Teams
      PROVE  Settled(u)'
  BY <1>1, <1>5, SettledStays
<1>7. Led'
  BY <1>1, <1>2, <1>3, <1>5 DEF Led, Claimants, Receivers
<1> QED
  BY <1>4, <1>6, <1>7

LEMMA InsertStep ==
  ASSUME InboundInv, NEW c \in Clients, InsertReceived(c)
  PROVE  InboundInv'
<1> USE DEF InboundInv
<1> DEFINE t == inboundTeam[c]
<1>1. /\ inboundPc[c] = "insert"
      /\ UNCHANGED <<facts, attached, deliveries, moves, holder, astray>>
  BY DEF InsertReceived
<1>2. /\ t \in Teams /\ t # NoTeam /\ deliveries > 0
      /\ deliveries \in deliveries .. MaxDeliveries /\ 1 \in 0 .. MaxDeliveries
      /\ holder # NoTeam => t = holder
  BY <1>1, UnderWay DEF InboundTyped
<1>3. received \in [Teams -> 0 .. MaxDeliveries] /\ attached \in [Teams -> 0 .. MaxDeliveries]
  BY DEF InboundTyped
<1>4. PICK next \in {"idle", "attach"}, u \in {NoTeam, t} :
        /\ Deliver(c, next, u)
        /\ next = "idle" <=> u = NoTeam
        /\ bodiless' \subseteq bodiless /\ c \notin bodiless'
        /\ acked' = acked \/ (acked' = TRUE /\ received'[t] > 0)
        /\ \/ next = "idle" /\ received[t] > 0 /\ UNCHANGED <<received, hurt>>
           \/ /\ received[t] = 0 /\ received' = [received EXCEPT ![t] = 1]
              /\ \/ next = "attach" /\ UNCHANGED hurt
                 \/ next = "idle" /\ hurt' = hurt \cup {t}
  <2>1. CASE received[t] > 0
    BY <1>2, <2>1 DEF InsertReceived, Respond
  <2>2. CASE received[t] = 0
    <3>1. received' = [received EXCEPT ![t] = 1] /\ received'[t] > 0
      BY <1>2, <1>3, <2>2 DEF InsertReceived
    <3> QED
      BY <1>2, <2>2, <3>1 DEF InsertReceived, AfterInsert, Respond
  <2>3. received[t] = 0 \/ received[t] > 0
    BY <1>2, <1>3
  <2> QED
    BY <2>1, <2>2, <2>3
<1>5. /\ received' \in [Teams -> 0 .. MaxDeliveries]
      /\ \A v \in Teams \ {t} : received'[v] = received[v]
  BY <1>2, <1>3, <1>4
<1>6. /\ InboundTyped' /\ OneClaimant(facts)'
      /\ \A d \in Clients : inboundPc'[d] # "idle" => deliveries' > 0
  <2>1. attached' \in [Teams -> 0 .. MaxDeliveries]
        /\ acked' \in BOOLEAN /\ astray' \in BOOLEAN /\ hurt' \subseteq Teams
    BY <1>1, <1>2, <1>4 DEF InboundTyped
  <2> QED
    BY <1>1, <1>2, <1>4, <1>5, <2>1, DeliveryKeeps
<1>7. /\ inboundPc'[c] = next /\ inboundTeam'[c] = u
      /\ \A d \in Clients \ {c} :
            inboundPc'[d] = inboundPc[d] /\ inboundTeam'[d] = inboundTeam[d]
  BY <1>2, <1>4, Delivering
<1>8. ASSUME NEW v \in Teams
      PROVE  Settled(v)'
  <2>1. CASE v # t \/ UNCHANGED received
    <3>1. received'[v] = received[v] /\ attached'[v] = attached[v] /\ hurt \subseteq hurt'
      BY <1>1, <1>4, <1>5, <2>1
    <3>2. inboundPc'[c] = "attach" /\ inboundTeam'[c] = v => FALSE
      BY <1>2, <1>3, <1>4, <1>7, <2>1
    <3> QED
      BY <3>1, <3>2, <1>1, <1>7, SettledStays
  <2>2. CASE v = t /\ received[t] = 0 /\ received' = [received EXCEPT ![t] = 1]
    <3>1. received'[v] = 1 /\ attached'[v] = 0
      BY <2>2, <1>1, <1>2, <1>3 DEF Settled
    <3>2. \A d \in Clients \ {c} : ~(inboundPc'[d] = "attach" /\ inboundTeam'[d] = v)
      BY <2>2, <1>2, <1>7 DEF Settled
    <3>3. v \notin hurt' => inboundPc'[c] = "attach" /\ inboundTeam'[c] = v
      BY <2>2, <1>4, <1>7
    <3> QED
      BY <3>1, <3>2, <3>3 DEF Settled
  <2> QED
    BY <2>1, <2>2, <1>4
<1>9. Led'
  BY <1>1, <1>2, <1>3, <1>4, <1>5, <1>7 DEF Led, Claimants, Receivers
<1> QED
  BY <1>6, <1>8, <1>9

LEMMA AttachStep ==
  ASSUME InboundInv, NEW c \in Clients, saveAttachment(c)
  PROVE  InboundInv'
<1> USE DEF InboundInv
<1> DEFINE t == inboundTeam[c]
<1>1. /\ inboundPc[c] = "attach" /\ acked' = TRUE /\ Deliver(c, "idle", NoTeam)
      /\ bodiless' = bodiless \ {c}
      /\ UNCHANGED <<facts, received, deliveries, moves, holder, hurt, astray>>
  BY DEF saveAttachment, Respond
<1>2. /\ t \in Teams /\ t # NoTeam /\ deliveries > 0
      /\ deliveries \in deliveries .. MaxDeliveries /\ 1 \in 0 .. MaxDeliveries
      /\ holder # NoTeam => t = holder
  BY <1>1, UnderWay DEF InboundTyped
<1>3. received[t] = 1 /\ attached[t] = 0
  BY <1>1, <1>2 DEF Settled
<1>4. /\ attached' \in [Teams -> 0 .. MaxDeliveries] /\ attached'[t] = 1
      /\ \A v \in Teams \ {t} : attached'[v] = attached[v]
  <2>1. attached' = [attached EXCEPT ![t] = 1]
    BY <1>3 DEF saveAttachment
  <2> QED
    BY <2>1, <1>2 DEF InboundTyped
<1>5. /\ InboundTyped' /\ OneClaimant(facts)'
      /\ \A d \in Clients : inboundPc'[d] # "idle" => deliveries' > 0
  <2>1. received' \in [Teams -> 0 .. MaxDeliveries]
        /\ acked' \in BOOLEAN /\ astray' \in BOOLEAN /\ hurt' \subseteq Teams
    BY <1>1 DEF InboundTyped
  <2> QED
    BY <1>1, <1>2, <1>4, <2>1, DeliveryKeeps
<1>6. /\ inboundPc'[c] = "idle" /\ inboundTeam'[c] = NoTeam
      /\ \A d \in Clients \ {c} :
            inboundPc'[d] = inboundPc[d] /\ inboundTeam'[d] = inboundTeam[d]
  BY <1>1, Delivering
<1>7. ASSUME NEW v \in Teams
      PROVE  Settled(v)'
  <2>1. CASE v # t
    BY <2>1, <1>1, <1>4, <1>6, SettledStays
  <2>2. CASE v = t
    <3>1. \A d \in Clients : ~(inboundPc'[d] = "attach" /\ inboundTeam'[d] = v)
      BY <2>2, <1>1, <1>2, <1>6 DEF Settled
    <3>2. received'[v] = 1 /\ attached'[v] = 1
      BY <2>2, <1>1, <1>3, <1>4
    <3> QED
      BY <3>1, <3>2 DEF Settled
  <2> QED
    BY <2>1, <2>2
<1>8. Led'
  BY <1>1, <1>2, <1>3, <1>6 DEF Led, Claimants, Receivers
<1> QED
  BY <1>5, <1>7, <1>8

LEMMA FailStep ==
  ASSUME InboundInv, NEW c \in Clients, DeliveryFails(c)
  PROVE  InboundInv'
<1> USE DEF InboundInv
<1> DEFINE t == inboundTeam[c]
<1>1. /\ inboundPc[c] # "idle" /\ Deliver(c, "idle", NoTeam) /\ bodiless' = bodiless \ {c}
      /\ UNCHANGED <<facts, received, attached, deliveries, acked, moves, holder, astray>>
      /\ hurt' = IF inboundPc[c] = "attach" THEN hurt \cup {t} ELSE hurt
  BY DEF DeliveryFails, Respond
<1>2. t \in Teams /\ deliveries \in deliveries .. MaxDeliveries
  BY <1>1, UnderWay DEF InboundTyped
<1>3. /\ InboundTyped' /\ OneClaimant(facts)'
      /\ \A d \in Clients : inboundPc'[d] # "idle" => deliveries' > 0
  <2>1. received' \in [Teams -> 0 .. MaxDeliveries] /\ attached' \in [Teams -> 0 .. MaxDeliveries]
        /\ acked' \in BOOLEAN /\ astray' \in BOOLEAN /\ hurt' \subseteq Teams
    BY <1>1, <1>2 DEF InboundTyped
  <2> QED
    BY <1>1, <1>2, <2>1, DeliveryKeeps
<1>4. /\ inboundPc'[c] = "idle" /\ inboundTeam'[c] = NoTeam
      /\ \A d \in Clients \ {c} :
            inboundPc'[d] = inboundPc[d] /\ inboundTeam'[d] = inboundTeam[d]
  BY <1>1, Delivering
<1>5. ASSUME NEW v \in Teams
      PROVE  Settled(v)'
  <2>1. CASE v # t \/ inboundPc[c] # "attach"
    BY <2>1, <1>1, <1>4, SettledStays
  <2>2. CASE v = t /\ inboundPc[c] = "attach"
    <3>1. \A d \in Clients : ~(inboundPc'[d] = "attach" /\ inboundTeam'[d] = v)
      BY <2>2, <1>2, <1>4 DEF Settled
    <3>2. v \in hurt'
      BY <2>2, <1>1
    <3> QED
      BY <3>1, <3>2, <1>1 DEF Settled
  <2> QED
    BY <2>1, <2>2
<1>6. Led'
  BY <1>1, <1>4 DEF Led, Claimants, Receivers
<1> QED
  BY <1>3, <1>5, <1>6

LEMMA InboundStepInv == InboundInv /\ [InboundNext]_inboundVars => InboundInv'
<1> SUFFICES ASSUME InboundInv, [InboundNext]_inboundVars
             PROVE  InboundInv'
  OBVIOUS
<1>1. CASE UNCHANGED inboundVars
  <2>1. \A t \in Teams : Settled(t)'
    BY <1>1, SettledStays DEF inboundVars, InboundInv
  <2> QED
    BY <1>1, <2>1 DEF inboundVars, InboundInv, InboundTyped, OneClaimant, Led,
                      Claimants, Receivers
<1> QED
  BY <1>1, MovesStep, PostedStep, FindStep, InsertStep, AttachStep, FailStep DEF InboundNext

\* The rows, the deliveries and the history have their types.
THEOREM InboundTypeCorrect == InboundSpec => []InboundTyped
<1>1. InboundInv => InboundTyped
  BY DEF InboundInv
<1> QED
  BY InboundInitInv, InboundStepInv, <1>1, PTL DEF InboundSpec

\* However SNS repeats and crosses the notifications of an email and whatever
\* other teams do with the domain's rows meanwhile, the mail is stored once,
\* for the team that held the name, with its attachment unless a delivery was
\* hurt between the two.
THEOREM MailIsStoredOnce == InboundSpec => []MailArrivesOnce
<1>1. InboundInv => MailArrivesOnce
  <2> SUFFICES ASSUME InboundInv
               PROVE  MailArrivesOnce
    OBVIOUS
  <2>1. ASSUME NEW t \in Teams
        PROVE  /\ received[t] <= 1
               /\ t \notin hurt /\ (\A c \in Clients : inboundTeam[c] # t) =>
                    attached[t] = received[t]
    <3>1. Settled(t) /\ received[t] \in Nat /\ attached[t] \in Nat
      BY DEF InboundInv, InboundTyped
    <3>2. received[t] = 0 => attached[t] = 0
      BY <3>1 DEF Settled
    <3>3. received[t] = 0 \/ received[t] = 1
      BY <3>1 DEF Settled
    <3>4. received[t] = 1 => attached[t] \in {0, 1}
      BY <3>1 DEF Settled
    <3> QED
      BY <3>1, <3>2, <3>3, <3>4 DEF Settled
  <2> QED
    BY <2>1 DEF MailArrivesOnce, InboundInv, Led
<1> QED
  BY InboundInitInv, InboundStepInv, <1>1, PTL DEF InboundSpec

-----------------------------------------------------------------------------
(***************************************************************************)
(* TOPICS: the inductive invariant.                                        *)
(***************************************************************************)

JoinCalls == [id : 1 .. MaxPeople, address : People, about : Segments]

SubscribeCalls == [id : 1 .. MaxPeople, address : People, about : Topics, yes : BOOLEAN]

\* The request remembers a contact that was there, and what it is about.
TopicRemembers(c) ==
    /\ topicPc[c] = "idle" => topicCall[c] = NoTopicCall
    /\ topicPc[c] = "join" => topicCall[c] \in JoinCalls
    /\ topicPc[c] = "subscribe" => topicCall[c] \in SubscribeCalls

TopicCallsInv ==
    /\ topicPc \in [Clients -> {"idle", "subscribe", "join"}]
    /\ DOMAIN topicCall = Clients /\ topicCall = [c \in Clients |-> topicCall[c]]
    /\ \A c \in Clients : TopicRemembers(c)

PeopleInv ==
    /\ person \in [People -> 0 .. MaxPeople]
    /\ persons \in [People -> 0 .. MaxPeople]
    /\ reachable \in [People -> BOOLEAN]

SegmentsInv ==
    /\ segments \subseteq Segments \ dropped
    /\ dropped \subseteq Segments
    /\ members \subseteq segments \X People

\* A choice refers to a topic and a contact that are there, and an address
\* declined a topic only if its choice says so.
ChoiceInv ==
    /\ topic \in [Topics -> Defaults \cup {"unused", "deleted"}]
    /\ choice \in [Topics -> [People -> {"none", "yes", "no"}]]
    /\ declined \subseteq Topics \X People
    /\ \A p \in Topics, a \in People :
         /\ choice[p][a] # "none" => topic[p] \in Defaults /\ person[a] # 0
         /\ <<p, a>> \in declined => choice[p][a] = "no"

TopicsInv == TopicCallsInv /\ PeopleInv /\ SegmentsInv /\ ChoiceInv

LEMMA TopicsInitInv == TopicsInit => TopicsInv
<1> SUFFICES ASSUME TopicsInit
             PROVE  TopicsInv
  OBVIOUS
<1>1. TopicCallsInv
  BY DEF TopicsInit, TopicCallsInv, TopicRemembers
<1>2. PeopleInv /\ SegmentsInv
  BY DEF TopicsInit, PeopleInv, SegmentsInv
<1>3. ChoiceInv
  BY DEF TopicsInit, ChoiceInv
<1> QED
  BY <1>1, <1>2, <1>3 DEF TopicsInv

LEMMA TopicStepping ==
  ASSUME TopicCallsInv, NEW c \in Clients, NEW next, NEW args, TopicStep(c, next, args),
         \/ next = "idle" /\ args = NoTopicCall
         \/ next = "join" /\ args \in JoinCalls
         \/ next = "subscribe" /\ args \in SubscribeCalls
  PROVE  TopicCallsInv'
<1>1. topicPc' \in [Clients -> {"idle", "subscribe", "join"}]
  BY DEF TopicCallsInv, TopicStep
<1>2. DOMAIN topicCall' = Clients /\ topicCall' = [d \in Clients |-> topicCall'[d]]
  BY DEF TopicCallsInv, TopicStep
<1>3. ASSUME NEW d \in Clients
      PROVE  TopicRemembers(d)'
  <2>1. CASE d = c
    <3>1. topicPc'[d] = next /\ topicCall'[d] = args
      BY <2>1 DEF TopicCallsInv, TopicStep
    <3> QED
      BY <3>1 DEF TopicRemembers
  <2>2. CASE d # c
    <3>1. topicPc'[d] = topicPc[d] /\ topicCall'[d] = topicCall[d]
      BY <2>2 DEF TopicCallsInv, TopicStep
    <3> QED
      BY <3>1 DEF TopicCallsInv, TopicRemembers
  <2> QED
    BY <2>1, <2>2
<1> QED
  BY <1>1, <1>2, <1>3 DEF TopicCallsInv

LEMMA TopicWaiting ==
  ASSUME TopicCallsInv, UNCHANGED <<topicPc, topicCall>>
  PROVE  TopicCallsInv'
BY DEF TopicCallsInv, TopicRemembers

LEMMA Choosing ==
  ASSUME ChoiceInv, NEW p \in Topics, NEW a \in People, NEW yes \in BOOLEAN,
         topic[p] \in Defaults, person[a] # 0,
         UpsertChoice(p, a, yes), Declare(p, a, yes), UNCHANGED <<topic, person>>
  PROVE  ChoiceInv'
<1> DEFINE word == IF yes THEN "yes" ELSE "no"
<1>1. choice' = [choice EXCEPT ![p] = [choice[p] EXCEPT ![a] = word]]
  BY DEF UpsertChoice, ChoiceInv
<1>2. /\ choice' \in [Topics -> [People -> {"none", "yes", "no"}]]
      /\ choice'[p][a] = word
      /\ \A q \in Topics, b \in People : <<q, b>> # <<p, a>> => choice'[q][b] = choice[q][b]
  BY <1>1 DEF ChoiceInv
<1>3. /\ declined' \subseteq Topics \X People
      /\ <<p, a>> \in declined' => ~yes
      /\ \A q \in Topics, b \in People :
            <<q, b>> # <<p, a>> => (<<q, b>> \in declined' => <<q, b>> \in declined)
  BY DEF ChoiceInv, Declare
<1>4. ASSUME NEW q \in Topics, NEW b \in People
      PROVE  /\ choice'[q][b] # "none" => topic[q] \in Defaults /\ person[b] # 0
             /\ <<q, b>> \in declined' => choice'[q][b] = "no"
  <2>1. CASE <<q, b>> = <<p, a>>
    BY <2>1, <1>2, <1>3
  <2>2. CASE <<q, b>> # <<p, a>>
    BY <2>2, <1>2, <1>3 DEF ChoiceInv
  <2> QED
    BY <2>1, <2>2
<1> QED
  BY <1>2, <1>3, <1>4 DEF ChoiceInv

LEMMA ContactStep ==
  ASSUME TopicsInv, NEW a \in People,
         createContact(a) \/ deleteContact(a) \/ ReachabilityChanges(a)
  PROVE  TopicsInv'
<1> USE DEF TopicsInv
<1>1. CASE createContact(a)
  <2>1. /\ UNCHANGED <<reachable, topic, choice, segments, dropped, members, topicPc,
                       topicCall, declined>>
        /\ persons[a] + 1 \in 1 .. MaxPeople
        /\ persons' = [persons EXCEPT ![a] = persons[a] + 1]
        /\ person' = [person EXCEPT ![a] = persons[a] + 1]
    BY <1>1 DEF createContact, PeopleInv
  <2>2. PeopleInv'
    BY <2>1 DEF PeopleInv
  <2>3. \A b \in People : person[b] # 0 => person'[b] # 0
    BY <2>1 DEF PeopleInv
  <2> QED
    BY <2>1, <2>2, <2>3, TopicWaiting DEF SegmentsInv, ChoiceInv
<1>2. CASE deleteContact(a)
  <2>1. /\ UNCHANGED <<persons, reachable, topic, segments, dropped, topicPc, topicCall>>
        /\ person' = [person EXCEPT ![a] = 0]
        /\ choice' = [p \in Topics |-> [choice[p] EXCEPT ![a] = "none"]]
        /\ members' \subseteq members /\ declined' = {d \in declined : d[2] # a}
    BY <1>2 DEF deleteContact
  <2>2. PeopleInv' /\ SegmentsInv'
    BY <2>1 DEF PeopleInv, SegmentsInv
  <2>3. /\ choice' \in [Topics -> [People -> {"none", "yes", "no"}]]
        /\ \A p \in Topics, b \in People :
              choice'[p][b] = IF b = a THEN "none" ELSE choice[p][b]
    BY <2>1 DEF ChoiceInv
  <2>4. \A p \in Topics, b \in People : <<p, b>> \in declined' => b # a /\ <<p, b>> \in declined
    BY <2>1
  <2>5. \A b \in People : b # a => person'[b] = person[b]
    BY <2>1 DEF PeopleInv
  <2>6. ChoiceInv'
    BY <2>1, <2>3, <2>4, <2>5 DEF ChoiceInv
  <2> QED
    BY <2>1, <2>2, <2>6, TopicWaiting
<1>3. CASE ReachabilityChanges(a)
  <2>1. /\ UNCHANGED <<person, persons, topic, choice, segments, dropped, members,
                       topicPc, topicCall, declined>>
        /\ reachable' \in [People -> BOOLEAN]
    BY <1>3 DEF ReachabilityChanges, PeopleInv
  <2> QED
    BY <2>1, TopicWaiting DEF PeopleInv, SegmentsInv, ChoiceInv
<1> QED
  BY <1>1, <1>2, <1>3

LEMMA TopicRowStep ==
  ASSUME TopicsInv, NEW p \in Topics,
         deleteTopic(p) \/ \E default \in Defaults : createTopic(p, default)
  PROVE  TopicsInv'
<1> USE DEF TopicsInv
<1>1. CASE deleteTopic(p)
  <2>1. /\ UNCHANGED <<contactRows, segments, dropped, members, topicPc, topicCall>>
        /\ topic' = [topic EXCEPT ![p] = "deleted"]
        /\ choice' = [choice EXCEPT ![p] = [a \in People |-> "none"]]
        /\ declined' = {d \in declined : d[1] # p}
    BY <1>1 DEF deleteTopic
  <2>2. /\ choice' \in [Topics -> [People -> {"none", "yes", "no"}]]
        /\ topic' \in [Topics -> Defaults \cup {"unused", "deleted"}]
    BY <2>1 DEF ChoiceInv
  <2>3. \A q \in Topics, b \in People :
          /\ choice'[q][b] = IF q = p THEN "none" ELSE choice[q][b]
          /\ q # p => topic'[q] = topic[q]
          /\ <<q, b>> \in declined' => q # p /\ <<q, b>> \in declined
    BY <2>1 DEF ChoiceInv
  <2>4. ChoiceInv'
    BY <2>1, <2>2, <2>3 DEF ChoiceInv, contactRows
  <2> QED
    BY <2>1, <2>4, TopicWaiting DEF PeopleInv, SegmentsInv, contactRows
<1>2. ASSUME NEW default \in Defaults, createTopic(p, default)
      PROVE  TopicsInv'
  <2>1. /\ UNCHANGED <<contactRows, choice, segments, dropped, members, topicPc,
                       topicCall, declined>>
        /\ topic' = [topic EXCEPT ![p] = default]
    BY <1>2 DEF createTopic
  <2>2. ChoiceInv'
    BY <2>1 DEF ChoiceInv, contactRows
  <2> QED
    BY <2>1, <2>2, TopicWaiting DEF PeopleInv, SegmentsInv, contactRows
<1> QED
  BY <1>1, <1>2

LEMMA SegmentStep ==
  ASSUME TopicsInv, NEW g \in Segments,
         \/ createSegment(g) \/ deleteSegment(g)
         \/ \E a \in People : removeContactSegment(a, g)
  PROVE  TopicsInv'
<1> USE DEF TopicsInv
<1>1. UNCHANGED <<contactRows, topic, choice, topicPc, topicCall, declined>>
  BY DEF createSegment, deleteSegment, removeContactSegment
<1>2. SegmentsInv'
  <2>1. CASE createSegment(g)
    BY <2>1 DEF createSegment, SegmentsInv
  <2>2. CASE deleteSegment(g)
    BY <2>2 DEF deleteSegment, SegmentsInv
  <2>3. CASE \E a \in People : removeContactSegment(a, g)
    BY <2>3 DEF removeContactSegment, SegmentsInv
  <2> QED
    BY <2>1, <2>2, <2>3
<1> QED
  BY <1>1, <1>2, TopicWaiting DEF PeopleInv, ChoiceInv, contactRows

LEMMA TopicRequestStep ==
  ASSUME TopicsInv, NEW c \in Clients,
         \/ Join(c) \/ SetTopicSubscription(c) \/ TopicRequestDies(c)
         \/ \E a \in People :
              \/ \E g \in Segments : addContactSegment(c, a, g)
              \/ \E p \in Topics, yes \in BOOLEAN : setContactTopic(c, a, p, yes)
  PROVE  TopicsInv'
<1> USE DEF TopicsInv
<1>1. CASE Join(c)
  <2>1. topicCall[c] \in JoinCalls
    BY <1>1 DEF Join, TopicCallsInv, TopicRemembers
  <2>2. SegmentsInv'
    BY <1>1, <2>1 DEF Join, SegmentsInv, JoinCalls
  <2> QED
    BY <1>1, <2>2, TopicStepping DEF Join, PeopleInv, ChoiceInv, contactRows
<1>2. CASE SetTopicSubscription(c)
  <2> DEFINE q == topicCall[c]
  <2>1. q \in SubscribeCalls
    BY <1>2 DEF SetTopicSubscription, TopicCallsInv, TopicRemembers
  <2>2. q.about \in Topics /\ q.address \in People /\ q.yes \in BOOLEAN /\ q.id # 0
    BY <2>1 DEF SubscribeCalls
  <2>3. UNCHANGED <<contactRows, topic, segments, dropped, members>>
    BY <1>2 DEF SetTopicSubscription
  <2>4. ChoiceInv'
    <3>1. CASE person[q.address] = q.id /\ topic[q.about] \in Defaults
      BY <3>1, <2>2, <2>3, <1>2, Choosing DEF SetTopicSubscription, contactRows
    <3>2. CASE ~(person[q.address] = q.id /\ topic[q.about] \in Defaults)
      BY <3>2, <2>3, <1>2 DEF SetTopicSubscription, contactRows, ChoiceInv
    <3> QED
      BY <3>1, <3>2
  <2> QED
    BY <1>2, <2>3, <2>4, TopicStepping
       DEF SetTopicSubscription, PeopleInv, SegmentsInv, contactRows
<1>3. CASE TopicRequestDies(c)
  BY <1>3, TopicStepping
     DEF TopicRequestDies, PeopleInv, SegmentsInv, ChoiceInv, contactRows
<1>4. ASSUME NEW a \in People, NEW g \in Segments, addContactSegment(c, a, g)
      PROVE  TopicsInv'
  <2>1. [id |-> person[a], address |-> a, about |-> g] \in JoinCalls
    BY <1>4 DEF addContactSegment, PeopleInv, JoinCalls
  <2> QED
    BY <1>4, <2>1, TopicStepping
       DEF addContactSegment, PeopleInv, SegmentsInv, ChoiceInv, contactRows
<1>5. ASSUME NEW a \in People, NEW p \in Topics, NEW yes \in BOOLEAN,
             setContactTopic(c, a, p, yes)
      PROVE  TopicsInv'
  <2>1. [id |-> person[a], address |-> a, about |-> p, yes |-> yes] \in SubscribeCalls
    BY <1>5 DEF setContactTopic, PeopleInv, SubscribeCalls
  <2> QED
    BY <1>5, <2>1, TopicStepping
       DEF setContactTopic, PeopleInv, SegmentsInv, ChoiceInv, contactRows
<1> QED
  BY <1>1, <1>2, <1>3, <1>4, <1>5

LEMMA LinkStep ==
  ASSUME TopicsInv, NEW a \in People, NEW p \in Topics, handleUnsubscribeTopic(a, p)
  PROVE  TopicsInv'
<1> USE DEF TopicsInv
<1>1. UNCHANGED <<contactRows, topic, segments, dropped, members, topicPc, topicCall>>
  BY DEF handleUnsubscribeTopic
<1>2. ChoiceInv'
  BY <1>1, Choosing DEF handleUnsubscribeTopic, contactRows
<1> QED
  BY <1>1, <1>2, TopicWaiting DEF PeopleInv, SegmentsInv, contactRows

LEMMA TopicsStepInv == TopicsInv /\ [TopicsNext]_topicVars => TopicsInv'
<1> SUFFICES ASSUME TopicsInv, [TopicsNext]_topicVars
             PROVE  TopicsInv'
  OBVIOUS
<1>1. CASE UNCHANGED topicVars
  BY <1>1, TopicWaiting DEF topicVars, TopicsInv, PeopleInv, SegmentsInv, ChoiceInv
<1> QED
  BY <1>1, ContactStep, TopicRowStep, SegmentStep, TopicRequestStep, LinkStep DEF TopicsNext

LEMMA TopicsInductive == TopicsSpec => []TopicsInv
BY TopicsInitInv, TopicsStepInv, PTL DEF TopicsSpec

\* The rows and the requests have their types; a choice refers to a topic and a
\* contact that are there.
THEOREM TopicsTypeCorrect == TopicsSpec => []TopicsTyped
<1>1. TopicsInv => TopicsTyped
  <2> SUFFICES ASSUME TopicsInv
               PROVE  TopicsTyped
    OBVIOUS
  <2>1. ASSUME NEW c \in Clients
        PROVE  topicPc[c] = "idle" <=> topicCall[c] = NoTopicCall
    <3>1. \A q \in JoinCalls \cup SubscribeCalls : q # NoTopicCall
      BY DEF JoinCalls, SubscribeCalls, NoTopicCall
    <3> QED
      BY <3>1 DEF TopicsInv, TopicCallsInv, TopicRemembers
  <2> QED
    BY <2>1 DEF TopicsTyped, TopicsInv, TopicCallsInv, PeopleInv, SegmentsInv, ChoiceInv
<1> QED
  BY TopicsInductive, <1>1, PTL

\* However requests that checked a contact cross with its deletion, re-creation
\* and unsubscribe links, no recipient list that is read after a no names the
\* address, and the API shows the choices the list is made of.
THEOREM NoIsANo == TopicsSpec => []TopicChoiceIsKept
<1>1. TopicsInv => TopicChoiceIsKept
  <2> SUFFICES ASSUME TopicsInv, NEW p \in Topics, NEW a \in People
               PROVE  /\ <<p, a>> \in declined => a \notin topicRecipientEmails(p)
                      /\ a \in topicRecipientEmails(p) <=>
                           (person[a] # 0 /\ reachable[a] /\ p \in ListContactTopics(a))
                      /\ \A g \in Segments : a \in SegmentOf(p, g) =>
                           g \in segments /\ <<p, a>> \notin declined
    BY DEF TopicChoiceIsKept
  <2> USE DEF TopicsInv
  <2>1. <<p, a>> \in declined => a \notin topicRecipientEmails(p)
    BY DEF ChoiceInv, topicRecipientEmails
  <2>2. a \in topicRecipientEmails(p) <=>
          (person[a] # 0 /\ reachable[a] /\ p \in ListContactTopics(a))
    BY DEF ChoiceInv, topicRecipientEmails, ListContactTopics, Defaults
  <2>3. \A g \in Segments : a \in SegmentOf(p, g) => g \in segments /\ <<p, a>> \notin declined
    BY <2>1 DEF SegmentOf, SegmentsInv
  <2> QED
    BY <2>1, <2>2, <2>3
<1> QED
  BY TopicsInductive, <1>1, PTL

=============================================================================
