------------------------------- MODULE Projects -------------------------------
(***************************************************************************)
(* The projects context: workspaces and their members, projects and their  *)
(* members, and the templates of an organization.                          *)
(* Names, descriptions, settings, metadata and visibility are read by no   *)
(* guard: the calls that write them only touch the row.                    *)
(***************************************************************************)
EXTENDS Transactions, Naturals

CONSTANTS
    Workspaces, Projects, Templates,   \* ids
    Users,       \* active users of the organization
    Slugs        \* slugs of workspaces

WorkspaceRoles == {"owner", "admin", "member", "viewer"}
ProjectRoles == {"owner", "admin", "contributor", "viewer"}
ProjectStatuses == {"planning", "active", "on_hold", "completed", "archived"}

(* _ALLOWED_PROJECT_STATUS_TRANSITIONS *)
AllowedTransitions ==
    [s \in ProjectStatuses |->
        CASE s = "planning"  -> {"active", "on_hold", "archived"}
          [] s = "active"    -> {"on_hold", "completed", "archived"}
          [] s = "on_hold"   -> {"active", "archived"}
          [] s = "completed" -> {"active", "archived"}
          [] s = "archived"  -> {"active"}]

(* The tables; rows that are deleted for good carry the id of their insert. *)
Ids == Requests \cup {None}
Workspace == [slug : Slugs, archived : BOOLEAN]
WorkspaceMembership == [workspace_role : WorkspaceRoles, id : Ids]
Project == [workspace : Workspaces, status : ProjectStatuses, archived_at : BOOLEAN,
            template : Templates \cup {None}, deleted : BOOLEAN]
ProjectMembership == [role : ProjectRoles, joined : BOOLEAN, id : Ids]
ProjectTemplate == [is_default : BOOLEAN, gone : BOOLEAN]

(* Foreign keys and the unique slugs of an organization's workspaces; one  *)
(* membership per user is the key of the two tables of members.            *)
ProjectConstraints(d) ==
    /\ \A k \in Rows(d, "workspace_member") : k[1] \in Rows(d, "workspace")
    /\ \A k \in Rows(d, "member") : k[1] \in Rows(d, "project")
    /\ \A p \in Rows(d, "project") :
          /\ d.project[p].workspace \in Rows(d, "workspace")
          /\ d.project[p].template \in Rows(d, "template") \cup {None}
    /\ \A v, w \in Rows(d, "workspace") : v # w => d.workspace[v].slug # d.workspace[w].slug

-----------------------------------------------------------------------------
(* What the repositories read.                                             *)

LiveProject(p) == db.project[p] # None /\ ~db.project[p].deleted
LiveTemplate(t) == db.template[t] # None /\ ~db.template[t].gone
WithSlug(slug) == {w \in Stored("workspace") : db.workspace[w].slug = slug}
IsOwner(p, u) ==
    <<p, u>> \in Stored("member") /\ db.member[<<p, u>>].role = "owner" /\ db.member[<<p, u>>].joined
CountOwners(p) == Cardinality({u \in Users : IsOwner(p, u)})
Defaults == {t \in Templates : LiveTemplate(t) /\ db.template[t].is_default}

-----------------------------------------------------------------------------
(* Workspaces.                                                             *)

NewWorkspace(slug) == [slug |-> slug, archived |-> FALSE]

(* The owner is added after a flush of the workspace, in one transaction.  *)
CreateWorkspace(r, w, slug, u) ==
    /\ WithSlug(slug) = {} /\ IsNew("workspace", w)
    /\ Stage(r, {Insert("workspace", w, NewWorkspace(slug)),
                  Insert("workspace_member", <<w, u>>, [workspace_role |-> "owner", id |-> r])})

EditWorkspace(r, w) == w \in Stored("workspace") /\ Save(r, "workspace", w, db.workspace[w])
EditWorkspaceSettings(r, w) == w \in Stored("workspace") /\ Save(r, "workspace", w, db.workspace[w])

(* _set_archived: archive and reactivate look at no status.                *)
SetArchived(r, w, archive) ==
    w \in Stored("workspace") /\ Save(r, "workspace", w, [db.workspace[w] EXCEPT !.archived = archive])

AddWorkspaceMember(r, w, u, role) ==
    /\ w \in Stored("workspace") /\ <<w, u>> \notin Stored("workspace_member")
    /\ Stage(r, {Insert("workspace_member", <<w, u>>, [workspace_role |-> role, id |-> r])})

(* Of a workspace the last owner may go.                                   *)
RemoveWorkspaceMember(r, w, u) ==
    /\ <<w, u>> \in Stored("workspace_member")
    /\ Stage(r, {Delete("workspace_member", <<w, u>>)})

-----------------------------------------------------------------------------
(* Projects.                                                               *)

NewProject(w, t) ==
    [workspace |-> w, status |-> "planning", archived_at |-> FALSE, template |-> t, deleted |-> FALSE]

(* ProjectMembership.add_directly *)
Joined(r) == [role |-> "owner", joined |-> TRUE, id |-> r]

(* A template that is gone gives no defaults, and its row still holds the  *)
(* reference.                                                              *)
CreateProject(r, p, w, t, u) ==
    /\ w \in Stored("workspace") /\ ~db.workspace[w].archived /\ IsNew("project", p)
    /\ Stage(r, {Insert("project", p, NewProject(w, t)), Insert("member", <<p, u>>, Joined(r))})

EditProject(r, p) == LiveProject(p) /\ Save(r, "project", p, db.project[p])
EditMetadata(r, p) == LiveProject(p) /\ Save(r, "project", p, db.project[p])
EditSettings(r, p) == LiveProject(p) /\ Save(r, "project", p, db.project[p])
ChangeVisibility(r, p) == LiveProject(p) /\ Save(r, "project", p, db.project[p])

InStatus_KeepsDate(row, status) ==
    IF row.status = status THEN row
    ELSE [row EXCEPT !.status = status, !.archived_at = @ \/ status = "archived"]

(* Project.change_status: the date goes with the status.                   *)
InStatus(row, status) ==
    IF row.status = status THEN row
    ELSE [row EXCEPT !.status = status, !.archived_at = status = "archived"]

ChangeStatus(r, p, status) ==
    /\ LiveProject(p) /\ status \in AllowedTransitions[db.project[p].status] \cup {db.project[p].status}
    /\ Save(r, "project", p, InStatus(db.project[p], status))

Archive(r, p) == ChangeStatus(r, p, "archived")
Unarchive(r, p) == ChangeStatus(r, p, "active")

DeleteProject(r, p) == LiveProject(p) /\ Save(r, "project", p, [db.project[p] EXCEPT !.deleted = TRUE])

-----------------------------------------------------------------------------
(* Members of a project; their rows carry no version.                      *)

InviteMember(r, p, u, role) ==
    /\ LiveProject(p) /\ <<p, u>> \notin Stored("member")
    /\ Stage(r, {Insert("member", <<p, u>>, [role |-> role, joined |-> FALSE, id |-> r])})

(* An invitation is accepted whatever the status of the member or project. *)
AcceptInvite(r, p, u) ==
    /\ <<p, u>> \in Stored("member")
    /\ Save(r, "member", <<p, u>>, [db.member[<<p, u>>] EXCEPT !.joined = TRUE])

RemoveMember(r, p, u) ==
    /\ LiveProject(p) /\ <<p, u>> \in Stored("member")
    /\ IsOwner(p, u) => CountOwners(p) > 1
    /\ Stage(r, {Delete("member", <<p, u>>)})

ChangeMemberRole_AnyRole(r, p, u, role) ==
    /\ LiveProject(p) /\ <<p, u>> \in Stored("member")
    /\ Save(r, "member", <<p, u>>, [db.member[<<p, u>>] EXCEPT !.role = role])

ChangeMemberRole(r, p, u, role) ==
    /\ LiveProject(p) /\ <<p, u>> \in Stored("member")
    /\ IsOwner(p, u) /\ role # "owner" => CountOwners(p) > 1
    /\ Save(r, "member", <<p, u>>, [db.member[<<p, u>>] EXCEPT !.role = role])

-----------------------------------------------------------------------------
(* Templates.                                                              *)

NewTemplate == [is_default |-> FALSE, gone |-> FALSE]

CreateTemplate(r, t) == IsNew("template", t) /\ Stage(r, {Insert("template", t, NewTemplate)})
ImportTemplate(r, t) == IsNew("template", t) /\ Stage(r, {Insert("template", t, NewTemplate)})
UpdateTemplate(r, t) == LiveTemplate(t) /\ Save(r, "template", t, db.template[t])

Mark(t, default) == Update("template", t, [db.template[t] EXCEPT !.is_default = default])

(* With two defaults the lookup of the previous one fails.                 *)
SetDefault(r, t) ==
    /\ LiveTemplate(t) /\ \A d, e \in Defaults : d = e
    /\ Stage(r, {Mark(d, FALSE) : d \in Defaults \ {t}} \cup {Mark(t, TRUE)})

(* The row stays, with its mark; it is written without a version check.    *)
DeleteTemplate(r, t) == LiveTemplate(t) /\ Save(r, "template", t, [db.template[t] EXCEPT !.gone = TRUE])

-----------------------------------------------------------------------------
(* The routes, by router.                                                  *)

WorkspaceRoutes(r) ==
    \E w \in Workspaces :
       \/ \E slug \in Slugs, u \in Users : CreateWorkspace(r, w, slug, u)
       \/ EditWorkspace(r, w) \/ EditWorkspaceSettings(r, w)
       \/ \E archive \in BOOLEAN : SetArchived(r, w, archive)
       \/ \E u \in Users :
             \/ RemoveWorkspaceMember(r, w, u)
             \/ \E role \in WorkspaceRoles : AddWorkspaceMember(r, w, u, role)

ProjectRoutes(r) ==
    \E p \in Projects :
       \/ \E w \in Workspaces, t \in Stored("template") \cup {None}, u \in Users : CreateProject(r, p, w, t, u)
       \/ EditProject(r, p) \/ EditMetadata(r, p) \/ EditSettings(r, p) \/ ChangeVisibility(r, p)
       \/ \E status \in ProjectStatuses : ChangeStatus(r, p, status)
       \/ Archive(r, p) \/ Unarchive(r, p) \/ DeleteProject(r, p)

MembershipRoutes(r) ==
    \E p \in Projects, u \in Users :
       \/ \E role \in ProjectRoles : InviteMember(r, p, u, role) \/ ChangeMemberRole(r, p, u, role)
       \/ AcceptInvite(r, p, u) \/ RemoveMember(r, p, u)

TemplateRoutes(r) ==
    \E t \in Templates :
       \/ CreateTemplate(r, t) \/ ImportTemplate(r, t) \/ UpdateTemplate(r, t)
       \/ SetDefault(r, t) \/ DeleteTemplate(r, t)

-----------------------------------------------------------------------------
(* Properties.  The operators named X_Y are changed forms of X, each as a  *)
(* bug in that code would change it: the runs tell them from X.            *)

(* The constraints; a project has the date of its archiving exactly while  *)
(* it is archived, and an organization one default template at most        *)
(* (set_default: "at most one default per organization"), unless requests  *)
(* that change the same columns overlapped.                                *)
ProjectsAreSound ==
    /\ RequestsAreSound /\ ProjectConstraints(db)
    /\ Undisturbed({"status", "archived_at"}, {"status", "archived_at"}) =>
          \A p \in Stored("project") : db.project[p].archived_at <=> db.project[p].status = "archived"
    /\ Undisturbed({"is_default"}, {"is_default"}) => \A d, e \in Defaults : d = e

(* A project never loses its last owner: removals and changes of role that *)
(* count the owners before they commit could take the last two together,   *)
(* or a late acceptance could write an old role back; one after the other  *)
(* no sequence of calls does.                                              *)
ProjectsKeepAnOwner ==
    Undisturbed({"role", "joined", "member"}, {"role", "joined", "member"}) =>
        \A p \in Stored("project") : \E u \in Users : IsOwner(p, u)

=============================================================================
