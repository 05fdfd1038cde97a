----------------------------- MODULE Organizations -----------------------------
(***************************************************************************)
(* Organizations, the hierarchies of their teams and roles, and who is in  *)
(* them.  Which permissions a role grants is read by no guard here and     *)
(* left out; names and settings only touch their row.                      *)
(***************************************************************************)
EXTENDS Accounts

CONSTANTS
    Slugs, Teams,
    Roles,
    OwnerRole    \* the role "org_owner"; seeded, or no row

OrgStatuses == {"active", "suspended", "deactivated"}

(* A row that is deleted for good carries the id of its insert.            *)
Ids == Requests \cup {None}
Organization == [slug : Slugs, owner : Users, org_status : OrgStatuses]
Role == [org : Orgs \cup {None}, parent_role : Roles \cup {None}, id : Ids]
UserRole == [id : Ids]
Team == [org : Orgs, parent_team : Teams \cup {None}, deleted : BOOLEAN]
TeamMembership == [team_role : {"lead", "member"}, id : Ids]

OrganizationConstraints(d) ==
    /\ \A o, p \in Rows(d, "organization") : o # p => d.organization[o].slug # d.organization[p].slug
    /\ \A x \in Rows(d, "role") :
          /\ d.role[x].org \in Rows(d, "organization") \cup {None}
          /\ d.role[x].parent_role \in Rows(d, "role") \cup {None}
    /\ \A k \in Rows(d, "user_role") : k[1] \in Rows(d, "user") /\ k[2] \in Rows(d, "role")
    /\ \A t \in Rows(d, "team") :
          d.team[t].org \in Rows(d, "organization") /\ d.team[t].parent_team \in Rows(d, "team") \cup {None}
    /\ \A k \in Rows(d, "team_member") : k[1] \in Rows(d, "team") /\ k[2] \in Rows(d, "user")

-----------------------------------------------------------------------------
(* What the repositories read.                                             *)

WithSlug(slug) == {o \in Stored("organization") : db.organization[o].slug = slug}
LiveTeam(t) == db.team[t] # None /\ ~db.team[t].deleted
TeamOf(t, o) == LiveTeam(t) /\ db.team[t].org = o

(* System roles belong to no organization and may not be changed.          *)
IsCustom(x) == x \in Stored("role") /\ db.role[x].org # None
IsOffered(x, o) == x \in Stored("role") /\ db.role[x].org \in {None, o}

-----------------------------------------------------------------------------
(* Organizations.                                                          *)

NewOrganization(slug, u) == [slug |-> slug, owner |-> u, org_status |-> "active"]
AsOwner(r, u) ==
    IF OwnerRole \in Stored("role") /\ <<u, OwnerRole>> \notin Stored("user_role")
    THEN {Insert("user_role", <<u, OwnerRole>>, [id |-> r])} ELSE {}

UpdateOrganization(r, o, slug) ==
    /\ o \in Stored("organization") /\ WithSlug(slug) \subseteq {o}
    /\ Save(r, "organization", o, [db.organization[o] EXCEPT !.slug = slug])

UpdateOrganizationSettings(r, o) ==
    o \in Stored("organization") /\ Save(r, "organization", o, db.organization[o])

(* The old owner keeps its role; that the new one is a user is not checked *)
(* but by the foreign key of its role.                                     *)
TransferOwnership(r, o, u) ==
    /\ o \in Stored("organization")
    /\ Stage(r, {Update("organization", o, [db.organization[o] EXCEPT !.owner = u])} \cup AsOwner(r, u))

SetOrganizationStatus(r, o, status) ==
    /\ o \in Stored("organization")
    /\ Save(r, "organization", o, [db.organization[o] EXCEPT !.org_status = status])

SuspendOrganization(r, o) == SetOrganizationStatus(r, o, "suspended")
ReactivateOrganization(r, o) == SetOrganizationStatus(r, o, "active")

-----------------------------------------------------------------------------
(* The walk up a hierarchy, one query per ancestor, that set_parent makes. *)
(* The team walk ends at an ancestor that is deleted and reads each row    *)
(* once: a walk that comes round meets what it read and does not end.  The *)
(* role walk ends when it comes round.                                     *)

Column(table) == IF table = "team" THEN "parent_team" ELSE "parent_role"
ParentIn(table, k) == db[table][k][Column(table)]
IsFound(table, k) == IF table = "team" THEN LiveTeam(k) ELSE k \in Stored("role")
Reparented(table, row, parent) == [row EXCEPT ![Column(table)] = parent]

(* What the loop of set_parent holds.                                      *)
Climb(table) ==
    LET Nodes == IF table = "team" THEN Teams ELSE Roles
    IN  [kind : {"parent"}, table : {table}, node : Nodes, row : Team \cup Role, parent : Nodes,
         cursor : Nodes \cup {None}, seen : UNION {[V -> Nodes \cup {None}] : V \in SUBSET Nodes}]

StartWalk(r, table, k, parent) ==
    /\ req[r].pc = "new"
    /\ req' = [req EXCEPT ![r].pc = "walk",
                          ![r].walk = [kind |-> "parent", table |-> table, node |-> k, row |-> db[table][k],
                                       parent |-> parent, cursor |-> parent, seen |-> <<>>]]
    /\ UNCHANGED <<db, raced>>

IsWalking(r) == req[r].pc = "walk" /\ req[r].walk.kind = "parent"

WalkUp_Blind(r) ==
    LET w == req[r].walk
        next == IF IsFound(w.table, w.cursor) THEN ParentIn(w.table, w.cursor) ELSE None
    IN  /\ IsWalking(r) /\ w.cursor # None /\ w.cursor \notin DOMAIN w.seen
        /\ req' = [req EXCEPT ![r].walk.cursor = next,
                              ![r].walk.seen = [k \in DOMAIN @ \cup {w.cursor} |-> IF k = w.cursor THEN next ELSE @[k]]]
        /\ UNCHANGED <<db, raced>>

WalkUp(r) ==
    LET w == req[r].walk
        next == IF IsFound(w.table, w.cursor) THEN ParentIn(w.table, w.cursor) ELSE None
    IN  /\ IsWalking(r) /\ w.cursor \notin DOMAIN w.seen \cup {w.node, None}
        /\ req' = [req EXCEPT ![r].walk.cursor = next,
                              ![r].walk.seen = [k \in DOMAIN @ \cup {w.cursor} |-> IF k = w.cursor THEN next ELSE @[k]]]
        /\ UNCHANGED <<db, raced>>

(* Round once more: the team walk on what it remembers.                    *)
WalkRound(r) ==
    LET w == req[r].walk
    IN  /\ IsWalking(r) /\ w.table = "team" /\ w.cursor \in DOMAIN w.seen
        /\ req' = [req EXCEPT ![r].walk.cursor = w.seen[w.cursor]]
        /\ UNCHANGED <<db, raced>>

EndsHere(w) == w.cursor = None \/ (w.table = "role" /\ w.cursor \in DOMAIN w.seen)

FinishWalk(r) ==
    LET w == req[r].walk
    IN  /\ IsWalking(r) /\ EndsHere(w)
        /\ req' = [req EXCEPT ![r].pc = "staged", ![r].walk = None,
              ![r].writes = {[table |-> w.table, key |-> w.node, old |-> w.row,
                               new |-> Reparented(w.table, w.row, w.parent)]}]
        /\ UNCHANGED <<db, raced>>

-----------------------------------------------------------------------------
(* Teams.                                                                  *)

NewTeam(o, parent) == [org |-> o, parent_team |-> parent, deleted |-> FALSE]

CreateTeam(r, t, o, parent) ==
    /\ IsNew("team", t)
    /\ parent # None => TeamOf(parent, o)
    /\ Stage(r, {Insert("team", t, NewTeam(o, parent))})

UpdateTeam(r, t) == LiveTeam(t) /\ Save(r, "team", t, db.team[t])

SetTeamParent(r, t, parent) ==
    /\ LiveTeam(t) /\ parent # t
    /\ IF parent = None THEN Save(r, "team", t, Reparented("team", db.team[t], None))
       ELSE TeamOf(parent, db.team[t].org) /\ StartWalk(r, "team", t, parent)

(* Teams below it keep it as their parent.                                 *)
DeleteTeam(r, t) == LiveTeam(t) /\ Save(r, "team", t, [db.team[t] EXCEPT !.deleted = TRUE])

AddTeamMember(r, t, u, role) ==
    /\ LiveTeam(t) /\ <<t, u>> \notin Stored("team_member")
    /\ Stage(r, {Insert("team_member", <<t, u>>, [team_role |-> role, id |-> r])})

UpdateMemberRole(r, t, u, role) ==
    /\ LiveTeam(t) /\ <<t, u>> \in Stored("team_member")
    /\ Save(r, "team_member", <<t, u>>, [db.team_member[<<t, u>>] EXCEPT !.team_role = role])

RemoveTeamMember(r, t, u) ==
    /\ LiveTeam(t) /\ <<t, u>> \in Stored("team_member")
    /\ Stage(r, {Delete("team_member", <<t, u>>)})

-----------------------------------------------------------------------------
(* Roles.                                                                  *)

NewRole(r, o) == [org |-> o, parent_role |-> None, id |-> r]

CreateCustomRole(r, x, o) == IsNew("role", x) /\ Stage(r, {Insert("role", x, NewRole(r, o))})
UpdateRole(r, x) == IsCustom(x) /\ Save(r, "role", x, db.role[x])
GrantPermission(r, x) == IsCustom(x) /\ Save(r, "role", x, db.role[x])
RevokePermission(r, x) == IsCustom(x) /\ Save(r, "role", x, db.role[x])

SetRoleParent(r, x, parent) ==
    /\ IsCustom(x)
    /\ IF parent = None THEN Save(r, "role", x, Reparented("role", db.role[x], None))
       ELSE StartWalk(r, "role", x, parent)

(* A role that is held, offered or a parent cannot go: a foreign key.      *)
DeleteRole(r, x) == IsCustom(x) /\ Stage(r, {Delete("role", x)})

AssignRole(r, u, x) ==
    /\ u \in Stored("user") /\ IsOffered(x, db.user[u].org) /\ <<u, x>> \notin Stored("user_role")
    /\ Stage(r, {Insert("user_role", <<u, x>>, [id |-> r])})

RevokeRole(r, u, x) ==
    <<u, x>> \in Stored("user_role") /\ Stage(r, {Delete("user_role", <<u, x>>)})

-----------------------------------------------------------------------------
(* The routes, by router.                                                  *)

OrganizationRoutes(r) ==
    \E o \in Orgs :
       \/ \E slug \in Slugs : UpdateOrganization(r, o, slug)
       \/ \E u \in Users : TransferOwnership(r, o, u)
       \/ UpdateOrganizationSettings(r, o) \/ SuspendOrganization(r, o) \/ ReactivateOrganization(r, o)

TeamRoutes(r) ==
    \E t \in Teams :
       \/ \E o \in Stored("organization"), parent \in Teams \cup {None} : CreateTeam(r, t, o, parent)
       \/ UpdateTeam(r, t) \/ DeleteTeam(r, t)
       \/ \E parent \in Teams \cup {None} : SetTeamParent(r, t, parent)
       \/ \E u \in Users :
             \/ \E role \in {"lead", "member"} : AddTeamMember(r, t, u, role) \/ UpdateMemberRole(r, t, u, role)
             \/ RemoveTeamMember(r, t, u)

RoleRoutes(r) ==
    \E x \in Roles :
       \/ \E o \in Stored("organization") : CreateCustomRole(r, x, o)
       \/ UpdateRole(r, x) \/ GrantPermission(r, x) \/ RevokePermission(r, x) \/ DeleteRole(r, x)
       \/ \E parent \in Roles \cup {None} : SetRoleParent(r, x, parent)
       \/ \E u \in Users : AssignRole(r, u, x) \/ RevokeRole(r, u, x)

=============================================================================
