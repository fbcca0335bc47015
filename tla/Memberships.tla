----------------------------- MODULE Memberships -----------------------------
(***************************************************************************)
(* Who belongs to an organization and what they may do: invitations,       *)
(* memberships, roles and the permissions of roles, as the members and     *)
(* roles pages ask for them (apps/web/src/lib/actions/members.ts,          *)
(* organization.ts), as the context of a request checks them               *)
(* (lib/org-context.ts, packages/authorization) and as the procedures and  *)
(* policies of the database carry them out.                                *)
(*                                                                         *)
(* A call is a request that reads its context, and then one transaction at *)
(* READ COMMITTED: every statement sees what is committed when it begins.  *)
(***************************************************************************)
EXTENDS Integers, FiniteSets

CONSTANTS
  Persons,     \* people, each with one e-mail address
  Rows,        \* pool of memberships
  Roles,       \* roles of the organization
  Owner,       \* the system role organization_owner
  Founders,    \* the members at the start
  RoleOf,      \* and their roles
  PermsOf,     \* the permissions of the roles at the start
  Nobody,      \* no person
  Kinds,       \* what the members ask for
  MaxCalls,    \* bound on the calls that members make
  MaxSwitches  \* bound on the platform's changes of the organization's status

Manage == "org.members.manage"
Assign == "org.roles.manage"
Permissions == {Manage, Assign}

ASSUME RolesAssumption == Owner \in Roles
ASSUME KindsAssumption == Kinds \subseteq {"status", "invite", "assign", "revoke", "permit", "forbid"}
ASSUME PersonsAssumption == Founders \subseteq Persons /\ Nobody \notin Persons
ASSUME PermsOfAssumption == PermsOf \in [Roles -> SUBSET Permissions] /\ PermsOf[Owner] = Permissions
ASSUME RoleOfAssumption == RoleOf \in [Founders -> Roles]
ASSUME RowsAssumption ==
  \E f \in [Founders -> Rows] : \A p, q \in Founders : f[p] = f[q] => p = q
ASSUME MaximaAssumption == MaxCalls \in Nat /\ MaxSwitches \in Nat

VARIABLES
  mem,     \* organization_memberships
  granted, \* organization_member_roles
  perms,   \* organization_role_permissions
  status,  \* the status of the organization
  account, \* people with a confirmed account
  own,     \* people with an organization of their own
  request,    \* the call of each person
  held,    \* history: permissions that a caller held since its transaction began
  calls, switches

membersVars == << mem, granted, perms, status, account, own, request, held, calls, switches >>

NoCall == [op |-> "none"]
NoRequest == [at |-> "idle", raced |-> FALSE, call |-> NoCall]
Standings == {"idle", "asked", "sent", "locked", "permitted", "guarded"}
Statuses == {"none", "invited", "active", "suspended", "removed"}

\* What the two pages ask for: a status, a role given or taken, an invitation
\* with a role or without, a permission of a role switched on or off.
NoRole == "none"
Requests ==
  [op : {"status"}, row : Rows, to : {"active", "suspended", "removed"}]
    \cup [op : {"invite"}, person : Persons, role : Roles \cup {NoRole}]
    \cup [op : {"assign", "revoke"}, row : Rows, role : Roles]
    \cup [op : {"permit", "forbid"}, role : Roles, code : Permissions]

MembersTypeOK ==
  /\ mem \in [Rows -> [status : Statuses, user : Persons \cup {Nobody},
                       email : Persons \cup {Nobody}]]
  /\ granted \subseteq Rows \X Roles
  /\ perms \in [Roles -> SUBSET Permissions]
  /\ status \in {"active", "suspended"}
  /\ account \subseteq Persons /\ own \subseteq Persons
  /\ request \in [Persons -> [at : Standings, raced : BOOLEAN, call : Requests \cup {NoCall}]]
  /\ held \in [Persons -> SUBSET Permissions]
  /\ calls \in 0..MaxCalls /\ switches \in 0..MaxSwitches

-----------------------------------------------------------------------------
(* Reading *)

LiveSeat(r) == mem[r].status \in {"active", "suspended"}
LiveOf(p) == { r \in Rows : LiveSeat(r) /\ mem[r].user = p }
ActiveOf(p) == { r \in Rows : mem[r].status = "active" /\ mem[r].user = p }
Unused == { r \in Rows : mem[r].status = "none" }
Open(p) == { r \in Rows : mem[r].status = "invited" /\ mem[r].email = p }

\* app.has_org_permission
HasOrgPermission(p, code) ==
  \E r \in ActiveOf(p), role \in Roles : << r, role >> \in granted /\ code \in perms[role]

\* can of org-context: neither of the two is a permission to view
PermissionAllowedUnderOrgStatus(code) == status = "active"
Can(p, code) == PermissionAllowedUnderOrgStatus(code) /\ HasOrgPermission(p, code)

\* The permissions a request needs.  A role is a second, higher grant.
Needed(c) ==
  CASE c.op = "status" -> {Manage}
    [] c.op = "invite" -> IF c.role = NoRole THEN {Manage} ELSE {Manage, Assign}
    [] OTHER -> {Assign}
NeededByDatabaseOnce(c) == IF c.op \in {"status", "invite"} THEN {Manage} ELSE {Assign}
NeededByDatabase(c) == Needed(c)

Owns(r) == << r, Owner >> \in granted
ActiveOwners == { r \in Rows : mem[r].status = "active" /\ Owns(r) }

Seat == CHOOSE f \in [Founders -> Rows] : \A p, q \in Founders : f[p] = f[q] => p = q
MembersInit ==
  /\ mem = [r \in Rows |->
              IF \E p \in Founders : Seat[p] = r
              THEN [status |-> "active", email |-> Nobody,
                    user |-> CHOOSE p \in Founders : Seat[p] = r]
              ELSE [status |-> "none", user |-> Nobody, email |-> Nobody]]
  /\ granted = { << Seat[p], RoleOf[p] >> : p \in Founders }
  /\ perms = PermsOf
  /\ status = "active"
  /\ account = Founders /\ own = {}
  /\ request = [p \in Persons |-> NoRequest]
  /\ held = [p \in Persons |-> {}]
  /\ calls = 0 /\ switches = 0

-----------------------------------------------------------------------------
(* The pages.  A row offers what fits the status it was rendered with, and   *)
(* is clicked at any time after; nobody is offered their own.                *)

OfferedStatus(s) ==
  CASE s = "active" -> {"suspended", "removed"} [] s = "suspended" -> {"active", "removed"}
    [] s = "invited" -> {"removed"} [] OTHER -> {}
MemberRow(p, c) ==
  \/ /\ c.op = "status" /\ c.to \in OfferedStatus(mem[c.row].status)
     /\ mem[c.row].user # p
  \/ /\ c.op = "revoke" /\ << c.row, c.role >> \in granted
     /\ mem[c.row].status # "removed"
AssignPanel(p, c) == c.op = "assign" /\ LiveSeat(c.row)
InvitePanel(p, c) == c.op = "invite" /\ (c.role # NoRole => Can(p, Assign))
MembersPage(p, c) ==
  /\ Can(p, Manage)
  /\ MemberRow(p, c) \/ AssignPanel(p, c) \/ InvitePanel(p, c)
RoleEditor(p, c) ==
  /\ Can(p, Assign)
  /\ c.op \in {"permit", "forbid"} /\ c.role # Owner
  /\ c.op = "permit" <=> c.code \notin perms[c.role]

Enter(p, r) == request' = [request EXCEPT ![p] = r]
Move(p, at) == request' = [request EXCEPT ![p].at = at]
Refused(p) == Enter(p, NoRequest)
Unchanged == UNCHANGED << mem, granted, perms, status, account, own, calls, switches >>

Ask(p) ==
  /\ request[p] = NoRequest /\ calls < MaxCalls
  /\ \E c \in Requests :
       /\ c.op \in Kinds
       /\ MembersPage(p, c) \/ RoleEditor(p, c)
       /\ Enter(p, [at |-> "asked", raced |-> FALSE, call |-> c])
  /\ calls' = calls + 1
  /\ UNCHANGED << mem, granted, perms, status, account, own, switches >>

\* requireOrgContext and can, in the action
Context(p) ==
  /\ request[p].at = "asked"
  /\ IF \A code \in Needed(request[p].call) : Can(p, code) THEN Move(p, "sent") ELSE Refused(p)
  /\ Unchanged

-----------------------------------------------------------------------------
(* The transaction: lock, permission, guard, commit. *)

Locked(r) == \E q \in Persons : /\ request[q].at \in {"locked", "permitted", "guarded"}
                                /\ request[q].call.op = "status" /\ request[q].call.row = r

Lock(p) ==
  /\ request[p].at = "sent" /\ request[p].call.op = "status"
  /\ ~Locked(request[p].call.row)
  /\ Move(p, "locked")
  /\ Unchanged

\* The permission, by a procedure or by a policy; and nobody's own membership.
Permit(p) ==
  LET c == request[p].call
  IN /\ request[p].at = (IF c.op = "status" THEN "locked" ELSE "sent")
     /\ c.op # "none"
     /\ IF /\ \A code \in NeededByDatabase(c) : HasOrgPermission(p, code)
           /\ c.op = "status" => mem[c.row].user # p
        THEN Move(p, IF c.op \in {"status", "invite"} THEN "permitted" ELSE "guarded")
        ELSE Refused(p)
     /\ Unchanged

\* Another active owner; the slip counts the suspended.
AnotherOwnerLive(r) == \E s \in Rows \ {r} : LiveSeat(s) /\ Owns(s)
AnotherOwner(r) == \E s \in Rows \ {r} : mem[s].status = "active" /\ Owns(s)

Guard(p) ==
  LET c == request[p].call
  IN /\ request[p].at = "permitted"
     /\ IF \/ /\ c.op = "status" /\ c.to # "active" /\ Owns(c.row)
              /\ ~AnotherOwner(c.row)
           \/ c.op = "invite" /\ c.person \in account /\ LiveOf(c.person) # {}
        THEN Refused(p)
        ELSE Move(p, "guarded")
     /\ Unchanged

\* enforce_membership_transitions
Transitions(from, to) ==
  \/ from = to
  \/ << from, to >> \in { << "invited", "active" >>, << "active", "suspended" >>,
                          << "suspended", "active" >> }
  \/ to = "removed" /\ from # "removed"

\* Every other transaction that is past its guard has been overtaken.
Commits(p) ==
  request' = [q \in Persons |->
             IF q = p THEN NoRequest
             ELSE IF request[q].at = "guarded" THEN [request[q] EXCEPT !.raced = TRUE] ELSE request[q]]

SetStatus(p) ==
  LET c == request[p].call
  IN /\ request[p].at = "guarded" /\ c.op = "status"
     /\ Transitions(mem[c.row].status, c.to)
     /\ c.to = "active" => mem[c.row].user # Nobody
     /\ mem' = [mem EXCEPT ![c.row].status = c.to]
     /\ Commits(p)
     /\ UNCHANGED << granted, perms, status, account, own, calls, switches >>

Invite(p) ==
  LET c == request[p].call
  IN /\ request[p].at = "guarded" /\ c.op = "invite"
     /\ Open(c.person) = {}
     /\ Unused # {}
     /\ LET r == CHOOSE r \in Unused : TRUE
        IN
          /\ mem' = [mem EXCEPT ![r] = [status |-> "invited", user |-> Nobody,
                                        email |-> c.person]]
          /\ granted' = granted \cup { << r, role >> : role \in {c.role} \ {NoRole} }
     /\ Commits(p)
     /\ UNCHANGED << perms, status, account, own, calls, switches >>

SetRole(p) ==
  LET c == request[p].call
  IN /\ request[p].at = "guarded" /\ c.op \in {"assign", "revoke"}
     /\ granted' = IF c.op = "assign" THEN granted \cup {<< c.row, c.role >>}
                                      ELSE granted \ {<< c.row, c.role >>}
     /\ Commits(p)
     /\ UNCHANGED << mem, perms, status, account, own, calls, switches >>

\* protect_system_roles has kept the owner's role out of the editor.
SetPermission(p) ==
  LET c == request[p].call
  IN /\ request[p].at = "guarded" /\ c.op \in {"permit", "forbid"}
     /\ perms' = [perms EXCEPT ![c.role] =
                    IF c.op = "permit" THEN @ \cup {c.code} ELSE @ \ {c.code}]
     /\ Commits(p)
     /\ UNCHANGED << mem, granted, status, account, own, calls, switches >>

\* A transition, a unique index or an empty pool refuses what the guard let pass.
Fail(p) ==
  LET c == request[p].call
  IN /\ request[p].at = "guarded"
     /\ \/ /\ c.op = "status"
           /\ ~Transitions(mem[c.row].status, c.to) \/ (c.to = "active" /\ mem[c.row].user = Nobody)
        \/ /\ c.op = "invite"
           /\ Open(c.person) # {} \/ Unused = {}
     /\ Refused(p)
     /\ Unchanged

-----------------------------------------------------------------------------
(* The invited, and the platform. *)

\* signUpAction and the confirmation of the address
SignUp(p) ==
  /\ p \notin account
  /\ account' = account \cup {p}
  /\ UNCHANGED << mem, granted, perms, status, own, request, calls, switches >>

\* Where select-org leads: into the one organization there is, to a choice, or
\* to the second half of signing up.
Organizations(p) == (IF ActiveOf(p) # {} THEN {"this"} ELSE {})
                      \cup (IF p \in own THEN {"own"} ELSE {})
SelectOrg(p) ==
  CASE Open(p) = {} /\ Organizations(p) = {} -> "create"
    [] Open(p) = {} /\ Cardinality(Organizations(p)) = 1 -> "open"
    [] OTHER -> "choose"

CreateOrganization(p) ==
  /\ p \in account /\ SelectOrg(p) = "create"
  /\ own' = own \cup {p}
  /\ UNCHANGED << mem, granted, perms, status, account, request, calls, switches >>

\* The open invitation that accept_invitation finds.
Invitation(p) == Open(p)

\* accept_invitation locks the invitation, and the index of live memberships
\* refuses a second one.
AcceptInvitation(p) ==
  /\ p \in account /\ Invitation(p) # {}
  /\ LET r == CHOOSE r \in Invitation(p) : TRUE
     IN /\ ~Locked(r) /\ LiveOf(p) = {}
        /\ Transitions(mem[r].status, "active")
        /\ mem' = [mem EXCEPT ![r].status = "active", ![r].user = p]
  /\ UNCHANGED << granted, perms, status, account, own, request, calls, switches >>

SetOrganizationStatus ==
  /\ switches < MaxSwitches
  /\ status' = IF status = "active" THEN "suspended" ELSE "active"
  /\ switches' = switches + 1
  /\ UNCHANGED << mem, granted, perms, account, own, request, calls >>

-----------------------------------------------------------------------------
Called(p) == Context(p) \/ Lock(p) \/ Permit(p) \/ Guard(p) \/ SetStatus(p) \/ Invite(p)
               \/ SetRole(p) \/ SetPermission(p) \/ Fail(p)

\* held starts anew when the transaction begins
History ==
  held' = [p \in Persons |->
             IF request'[p].at \in {"idle", "asked", "sent"} THEN {}
             ELSE held[p] \cup { code \in Permissions : HasOrgPermission(p, code) } ]

MembersNext ==
  /\ \/ \E p \in Persons : Ask(p) \/ Called(p) \/ SignUp(p)
                         \/ CreateOrganization(p) \/ AcceptInvitation(p)
     \/ SetOrganizationStatus
  /\ History

\* A call that can go on does; and people sign up and take what
\* select-org offers them.
MembersFairness ==
  \A p \in Persons : /\ WF_membersVars(Called(p) /\ History)
                     /\ WF_membersVars(SignUp(p) /\ History)
                     /\ WF_membersVars(CreateOrganization(p) /\ History)
                     /\ WF_membersVars(AcceptInvitation(p) /\ History)

MembersSpec == MembersInit /\ [][MembersNext]_membersVars /\ MembersFairness

-----------------------------------------------------------------------------
(* Properties *)

\* The last active owner is suspended or removed only by a call that another
\* one overtook between its guard and its update (set_membership_status).
LastOwnerOnlyRaced ==
  [][ \A p \in Persons :
        (SetStatus(p) /\ ActiveOwners # {} /\ ActiveOwners' = {}) => request[p].raced ]_membersVars

\* A role is given, and a permission of a role switched, only by someone who
\* held org.roles.manage after the transaction began, whatever they held when
\* the request read its context: an invitation is no cheaper route.
GrantsByHolders ==
  [][ \A p \in Persons :
        (Called(p) /\ << granted, perms >>' # << granted, perms >>) => Assign \in held[p] ]_membersVars

=============================================================================
