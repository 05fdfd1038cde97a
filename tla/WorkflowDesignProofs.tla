------------------------- MODULE WorkflowDesignProofs -------------------------
(***************************************************************************)
(* The projects context and the design of workflows, for any projects,     *)
(* members, templates, workflows, states and transitions and any number of *)
(* concurrent requests, from any sound database.                           *)
(*                                                                         *)
(* The inductive invariant adds to the three invariants of the runs that   *)
(* reads are current and that the writes of a request are justified by what *)
(* its guards saw, as far as no commit since has touched it: a default or  *)
(* an initial state that is made comes with the unmaking of all that were  *)
(* there, and to each project that has an owner the writes leave one.      *)
(***************************************************************************)
EXTENDS WorkflowDesign, TransactionsProofs, FiniteSetTheorems

(* What the guards of a request have made sure of and overlapping commits  *)
(* have left alone.                                                        *)

(* Status and date go together.                                            *)
StatusIsJustified(c) ==
    /\ c.table = "project" /\ Undisturbed({"status", "archived_at"}, {"status", "archived_at"}) =>
          (c.new.archived_at <=> c.new.status = "archived")
    /\ c.table = "flow" /\ Undisturbed({"flow_status", "flow_archived_at"}, {"flow_status", "flow_archived_at"}) =>
          (c.new.flow_archived_at <=> c.new.flow_status = "archived")

(* A request makes one default template and unmakes those it has seen.     *)
MakesDefault(c) == c.table = "template" /\ c.old # None /\ c.new.is_default /\ ~c.old.is_default
UnmakesDefault(c, t) == c.table = "template" /\ c.key = t /\ c.old # None /\ ~c.new.is_default

TemplateIsJustified(c) ==
    c.table = "template" => IF c.old = None THEN ~c.new.is_default ELSE c.old.gone => c.new.gone

DefaultsAreJustified(writes, since) ==
    /\ \A c, e \in writes : MakesDefault(c) /\ MakesDefault(e) => c = e
    /\ "is_default" \notin since =>
          \A c \in writes : MakesDefault(c) => \A t \in Defaults : \E e \in writes : UnmakesDefault(e, t)

(* The same for the initial state of a workflow, that keeps its states.    *)
MakesInitial(c) == c.table = "state" /\ c.new # None /\ c.new.initial /\ (c.old = None \/ ~c.old.initial)
UnmakesInitial(c, s) == c.table = "state" /\ c.key = s /\ (c.new = None \/ ~c.new.initial)

StateIsJustified(c, since) ==
    c.table = "state" /\ c.old # None /\ c.new # None =>
        c.new.flow = c.old.flow /\ ("state" \notin since => db["state"][c.key].flow = c.old.flow)

InitialsAreJustified(writes, since) ==
    /\ \A c, e \in writes : MakesInitial(c) /\ MakesInitial(e) => c = e
    /\ since \cap {"state", "initial"} = {} =>
          \A c \in writes : MakesInitial(c) => \A s \in InitialOf(c.new.flow) : \E e \in writes : UnmakesInitial(e, s)

(* A project that has an owner keeps one; a new one gets one.              *)
Takes(c, p, u) ==
    c.table = "member" /\ c.key = <<p, u>> /\ (c.new = None \/ c.new.role # "owner" \/ ~c.new.joined)
Gives(c, p, u) ==
    c.table = "member" /\ c.key = <<p, u>> /\ c.old = None /\ c.new # None /\ c.new.role = "owner" /\ c.new.joined

OwnersAreJustified(writes, since) ==
    /\ \A c \in writes :
          c.table = "project" /\ c.old = None => \E u \in Users : \E e \in writes : Gives(e, c.key, u)
    /\ since \cap {"role", "joined", "member"} = {} =>
          \A p \in Projects :
             (\E u \in Users : IsOwner(p, u)) =>
                \E u \in Users : IsOwner(p, u) /\ \A c \in writes : ~Takes(c, p, u)

AreJustified(writes, since) ==
    /\ \A c \in writes : StatusIsJustified(c) /\ TemplateIsJustified(c) /\ StateIsJustified(c, since)
    /\ DefaultsAreJustified(writes, since) /\ InitialsAreJustified(writes, since)
    /\ OwnersAreJustified(writes, since)

RequestsAreJustified == \A r \in Requests : AreJustified(req[r].writes, req[r].since)

(* The inductive invariant.                                                *)
IInv ==
    /\ Shared(Schema) /\ ReadsAreCurrent(Schema)
    /\ ProjectsAreSound /\ ProjectsKeepAnOwner /\ DesignsAreSound
    /\ RequestsAreJustified

-----------------------------------------------------------------------------
Mix(row, old, new) == [f \in DOMAIN row |-> IF f \in {g \in DOMAIN new : new[g] # old[g]} THEN new[f] ELSE row[f]]

LEMMA SchemaTables ==
    /\ DOMAIN Schema = {"workspace", "workspace_member", "project", "member", "template", "flow", "state", "transition",
                        "rule", "action", "condition", "checklist_item", "task_state"}
    /\ Schema["workspace"].rows = Workspace /\ Schema["workspace"].keys = Workspaces /\ Schema["workspace"].kept
    /\ Schema["workspace_member"].rows = WorkspaceMembership /\ Schema["workspace_member"].keys = Workspaces \X Users
    /\ Schema["project"].rows = Project /\ Schema["project"].keys = Projects /\ Schema["project"].kept
    /\ Schema["member"].rows = ProjectMembership /\ Schema["member"].keys = Projects \X Users
    /\ Schema["template"].rows = ProjectTemplate /\ Schema["template"].keys = Templates /\ Schema["template"].kept
    /\ Schema["flow"].rows = Flow /\ Schema["flow"].keys = Flows /\ Schema["flow"].kept
    /\ Schema["state"].rows = State /\ Schema["state"].keys = States
    /\ Schema["transition"].rows = Transition /\ Schema["transition"].keys = Transitions
    /\ \A kind \in Kinds : Schema[kind].rows = Rule /\ Schema[kind].keys = Parts /\ Schema[kind].kept = FALSE
    /\ Schema["task_state"].rows = TaskState /\ Schema["task_state"].keys = Flows \X Enrolled /\ Schema["task_state"].kept
    /\ \A table \in {"workspace_member", "member", "state", "transition"} : Schema[table].kept = FALSE
  BY DEF Schema, Table, Volatile, Kinds, Action, Condition, ChecklistItem

LEMMA SchemaIsSound == IsSchema(Schema)
<1>1. ASSUME NEW table \in DOMAIN Schema PROVE None \notin Schema[table].rows
  BY <1>1, NoneAssumption
<1> DEFINE Mixes(R) == \A row, old, new \in R : DOMAIN row = DOMAIN new /\ Mix(row, old, new) \in R
<1>2. Mixes(Workspace)
  BY DEF Workspace, Mix
<1>3. Mixes(WorkspaceMembership)
  BY DEF WorkspaceMembership, Mix
<1>4. Mixes(Project)
  BY DEF Project, Mix
<1>5. Mixes(ProjectMembership)
  BY DEF ProjectMembership, Mix
<1>6. Mixes(ProjectTemplate)
  BY DEF ProjectTemplate, Mix
<1>7. Mixes(Flow)
  BY DEF Flow, Mix
<1>8. Mixes(State)
  BY DEF State, Mix
<1>9. Mixes(Transition)
  BY DEF Transition, Mix
<1>10. Mixes(Rule)
  BY DEF Rule, Mix
<1>11. Mixes(TaskState)
  BY DEF TaskState, Mix
<1> HIDE DEF Mixes
<1>12. \A table \in DOMAIN Schema : Mixes(Schema[table].rows)
  BY <1>2, <1>3, <1>4, <1>5, <1>6, <1>7, <1>8, <1>9, <1>10, <1>11, SchemaTables DEF Kinds
<1>13. /\ \A table \in DOMAIN Schema : \A row, old, new \in Schema[table].rows : Mix(row, old, new) \in Schema[table].rows
       /\ \A table \in DOMAIN Schema : \A row, new \in Schema[table].rows : DOMAIN row = DOMAIN new
  BY <1>12 DEF Mixes
<1>14. QED
  BY <1>1, <1>13 DEF IsSchema, Mix

LEMMA NoneIsNoRow == \A table \in DOMAIN Schema : None \notin Schema[table].rows
  BY SchemaIsSound DEF IsSchema

LEMMA StartIsSound == Start => IInv
<1> SUFFICES ASSUME Start PROVE IInv
  OBVIOUS
<1>1. Shared(Schema)
  BY SchemaIsSound DEF Start, Shared, DesignsAreSound, RequestsTyped, WritesTyped, AreChanges, Fresh
<1>2. ReadsAreCurrent(Schema) /\ RequestsAreJustified
  BY DEF Start, Fresh, ReadsAreCurrent, RequestsAreJustified, AreJustified, DefaultsAreJustified, InitialsAreJustified,
     OwnersAreJustified
<1>3. QED
  BY <1>1, <1>2 DEF Start, IInv

(* A step that changes one request.                                        *)
LEMMA OneRequest ==
    ASSUME IInv, NEW r \in Requests, Only(r), Shared(Schema)', ReadsAreCurrent(Schema)', RequestsAreSound',
           AreJustified(req'[r].writes, req'[r].since)
    PROVE  IInv'
<1>0. db' = db /\ raced' = raced
  BY DEF Only
<1>1. /\ \A A, B : Undisturbed(A, B)' <=> Undisturbed(A, B)
      /\ \A table : Stored(table)' = Stored(table)
      /\ Defaults' = Defaults
      /\ \A v : InitialOf(v)' = InitialOf(v)
      /\ \A p, u : IsOwner(p, u)' <=> IsOwner(p, u)
  <2>1. \A A, B : Undisturbed(A, B)' <=> Undisturbed(A, B)
    BY <1>0 DEF Undisturbed
  <2>2. \A table : Stored(table)' = Stored(table)
    BY <1>0 DEF Stored, Rows
  <2>3. Defaults' = Defaults
    BY <1>0 DEF Defaults, LiveTemplate
  <2>4. \A v : InitialOf(v)' = InitialOf(v)
    BY <1>0, <2>2 DEF InitialOf, StatesOf
  <2>5. \A p, u : IsOwner(p, u)' <=> IsOwner(p, u)
    BY <1>0, <2>2 DEF IsOwner
  <2>6. QED
    BY <2>1, <2>2, <2>3, <2>4, <2>5
<1>2. ProjectsAreSound'
  BY <1>0, <1>1 DEF IInv, ProjectsAreSound, ProjectConstraints
<1>3. ProjectsKeepAnOwner'
  BY <1>1 DEF IInv, ProjectsKeepAnOwner
<1>4. DesignsAreSound'
  <2>1. HasSchema(db, Schema)'
    BY DEF Shared
  <2>2. Constraints(db)'
    BY <1>0 DEF IInv, DesignsAreSound, Constraints
  <2>3. QED
    BY <1>0, <1>1, <2>1, <2>2 DEF IInv, DesignsAreSound
<1>5. RequestsAreJustified'
  <2>1. ASSUME NEW s \in Requests PROVE AreJustified(req'[s].writes, req'[s].since)
    BY DEF IInv, RequestsAreJustified, Only
  <2>2. ASSUME NEW writes, NEW since, AreJustified(writes, since) PROVE AreJustified(writes, since)'
    <3>1. \A c \in writes : StatusIsJustified(c)' /\ TemplateIsJustified(c)'
      BY <1>1, <2>2 DEF AreJustified, StatusIsJustified, TemplateIsJustified
    <3>2. \A c \in writes : StateIsJustified(c, since)'
      BY <1>0, <2>2 DEF AreJustified, StateIsJustified
    <3>3. DefaultsAreJustified(writes, since)'
      BY <1>1, <2>2 DEF AreJustified, DefaultsAreJustified
    <3>4. InitialsAreJustified(writes, since)'
      BY <1>1, <2>2 DEF AreJustified, InitialsAreJustified
    <3>5. OwnersAreJustified(writes, since)'
      BY <1>1, <2>2 DEF AreJustified, OwnersAreJustified
    <3>6. QED
      BY <3>1, <3>2, <3>3, <3>4, <3>5 DEF AreJustified
  <2>3. QED
    BY <2>1, <2>2 DEF RequestsAreJustified
<1>6. QED
  BY <1>2, <1>3, <1>4, <1>5 DEF IInv

LEMMA Staging ==
    ASSUME IInv, NEW r \in Requests, NEW writes, Stage(r, writes),
           AreChanges(writes, Schema), \A c \in writes : Reads(c), AreJustified(writes, {})
    PROVE  IInv'
<1>1. /\ Shared(Schema)' /\ ReadsAreCurrent(Schema)' /\ RequestsAreSound'
      /\ Only(r) /\ req'[r].writes = writes /\ req'[r].since = {}
  BY StagingKeepsShared DEF IInv, ProjectsAreSound, Stage
<1>2. QED
  BY <1>1, OneRequest

LEMMA Aborting ==
    ASSUME IInv, NEW r \in Requests, Abort(r)
    PROVE  IInv'
<1>1. /\ Shared(Schema)' /\ ReadsAreCurrent(Schema)' /\ RequestsAreSound'
      /\ Only(r) /\ req'[r].writes = {} /\ req'[r].since = {}
  BY AbortKeepsShared DEF IInv, ProjectsAreSound
<1>2. AreJustified({}, {})
  BY DEF AreJustified, DefaultsAreJustified, InitialsAreJustified, OwnersAreJustified
<1>3. QED
  BY <1>1, <1>2, OneRequest

(* A membership that is read again has the same change.                    *)
LEMMA Reloading ==
    ASSUME IInv, NEW r \in Requests, Reload(r, {"member"})
    PROVE  IInv'
<1> DEFINE writes == req[r].writes
           again == req'[r].writes
           since == req[r].since
<1>1. /\ Shared(Schema)' /\ ReadsAreCurrent(Schema)' /\ RequestsAreSound'
      /\ Only(r) /\ req'[r].since = since
      /\ \A e \in again : \E c \in writes : Again(e, c) /\ (c.table \notin {"member"} => e = c)
      /\ \A c \in writes : \E e \in again : Again(e, c) /\ (c.table \notin {"member"} => e = c)
  BY ReloadKeepsShared DEF IInv, ProjectsAreSound
<1>2. AreJustified(writes, since)
  BY DEF IInv, RequestsAreJustified
<1> HIDE DEF writes, again, since
<1>3. /\ \A c : c.table # "member" => (c \in again <=> c \in writes)
      /\ \A e \in again : \E c \in writes : e.table = c.table /\ e.key = c.key /\ e.new = c.new /\ (c.old = None => e.old = None)
      /\ \A c \in writes : \E e \in again : e.table = c.table /\ e.key = c.key /\ e.new = c.new /\ (c.old = None => e.old = None)
  BY <1>1 DEF Again
<1>4. \A c \in again : StatusIsJustified(c) /\ TemplateIsJustified(c) /\ StateIsJustified(c, since)
  <2>1. \A c \in again : c.table # "member" => StatusIsJustified(c) /\ TemplateIsJustified(c) /\ StateIsJustified(c, since)
    BY <1>2, <1>3 DEF AreJustified
  <2>2. \A c : c.table = "member" => StatusIsJustified(c) /\ TemplateIsJustified(c) /\ StateIsJustified(c, since)
    BY DEF StatusIsJustified, TemplateIsJustified, StateIsJustified
  <2>3. QED
    BY <2>1, <2>2
<1>5. DefaultsAreJustified(again, since)
  <2>1. \A c : MakesDefault(c) => (c \in again <=> c \in writes)
    BY <1>3 DEF MakesDefault
  <2>2. \A c, t : UnmakesDefault(c, t) => (c \in again <=> c \in writes)
    BY <1>3 DEF UnmakesDefault
  <2>3. DefaultsAreJustified(writes, since)
    BY <1>2 DEF AreJustified
  <2>4. QED
    BY <2>1, <2>2, <2>3 DEF DefaultsAreJustified
<1>6. InitialsAreJustified(again, since)
  <2>1. \A c : MakesInitial(c) => (c \in again <=> c \in writes)
    BY <1>3 DEF MakesInitial
  <2>2. \A c, t : UnmakesInitial(c, t) => (c \in again <=> c \in writes)
    BY <1>3 DEF UnmakesInitial
  <2>3. InitialsAreJustified(writes, since)
    BY <1>2 DEF AreJustified
  <2>4. QED
    BY <2>1, <2>2, <2>3 DEF InitialsAreJustified
<1>7. OwnersAreJustified(again, since)
  <2>1. \A p, u : (\E e \in writes : Gives(e, p, u)) => \E e \in again : Gives(e, p, u)
    BY <1>3 DEF Gives
  <2>2. \A p, u : (\E e \in again : Takes(e, p, u)) => \E e \in writes : Takes(e, p, u)
    BY <1>3 DEF Takes
  <2>3. QED
    BY <1>2, <1>3, <2>1, <2>2 DEF AreJustified, OwnersAreJustified
<1>8. QED
  BY <1>1, <1>4, <1>5, <1>6, <1>7, OneRequest DEF AreJustified, since, again

-----------------------------------------------------------------------------
(* The tables that the properties speak of.                                *)
LEMMA Typed ==
    ASSUME HasSchema(db, Schema)
    PROVE  /\ \A p \in Projects : db["project"][p] \in Project \cup {None}
           /\ \A k \in Projects \X Users : db["member"][k] \in ProjectMembership \cup {None}
           /\ \A t \in Templates : db["template"][t] \in ProjectTemplate \cup {None}
           /\ \A v \in Flows : db["flow"][v] \in Flow \cup {None}
           /\ \A s \in States : db["state"][s] \in State \cup {None}
           /\ \A x \in Transitions : db["transition"][x] \in Transition \cup {None}
           /\ Stored("project") = {p \in Projects : db["project"][p] # None}
           /\ Stored("member") = {k \in Projects \X Users : db["member"][k] # None}
           /\ Stored("flow") = {v \in Flows : db["flow"][v] # None}
           /\ Stored("state") = {s \in States : db["state"][s] # None}
           /\ Stored("transition") = {x \in Transitions : db["transition"][x] # None}
           /\ \A table \in DOMAIN Schema :
                 \A k \in Stored(table) : k \in Schema[table].keys /\ db[table][k] \in Schema[table].rows
<1>1. /\ db["project"] \in [Projects -> Project \cup {None}] /\ db["member"] \in [Projects \X Users -> ProjectMembership \cup {None}]
      /\ db["template"] \in [Templates -> ProjectTemplate \cup {None}] /\ db["flow"] \in [Flows -> Flow \cup {None}]
      /\ db["state"] \in [States -> State \cup {None}] /\ db["transition"] \in [Transitions -> Transition \cup {None}]
  BY SchemaTables DEF HasSchema
<1>2. \A table \in DOMAIN Schema : \A k \in Stored(table) : k \in Schema[table].keys /\ db[table][k] \in Schema[table].rows
  BY DEF HasSchema, Stored, Rows
<1>3. QED
  BY <1>1, <1>2 DEF Stored, Rows

LEMMA IsTyped == IInv => HasSchema(db, Schema)
  BY DEF IInv, Shared

-----------------------------------------------------------------------------
(* The routes stage sound writes.                                          *)

(* A single change of one row.                                             *)
ChangeIsJustified(c) ==
    /\ StatusIsJustified(c) /\ TemplateIsJustified(c) /\ ~MakesDefault(c) /\ ~MakesInitial(c)
    /\ c.table = "state" /\ c.old # None /\ c.new # None => c.new.flow = c.old.flow
    /\ c.table = "project" => c.old # None
    /\ \A p \in Projects, u \in Users :
          IsOwner(p, u) /\ Takes(c, p, u) => \E v \in Users : v # u /\ IsOwner(p, v)

LEMMA OneChange ==
    ASSUME IInv, NEW r \in Requests, NEW c, Stage(r, {c}), IsChange(c, Schema), Reads(c), ChangeIsJustified(c)
    PROVE  IInv'
<1>1. StateIsJustified(c, {})
  BY DEF ChangeIsJustified, StateIsJustified, Reads
<1>2. OwnersAreJustified({c}, {})
  <2>1. ASSUME NEW p \in Projects, NEW u \in Users, IsOwner(p, u)
        PROVE  \E v \in Users : IsOwner(p, v) /\ ~Takes(c, p, v)
    <3>1. CASE Takes(c, p, u)
      <4>1. PICK v \in Users : v # u /\ IsOwner(p, v)
        BY <2>1, <3>1 DEF ChangeIsJustified
      <4>2. c.key = <<p, u>> /\ <<p, u>> # <<p, v>>
        BY <3>1, <4>1 DEF Takes
      <4>3. QED
        BY <4>1, <4>2 DEF Takes
    <3>2. CASE ~Takes(c, p, u)
      BY <2>1, <3>2
    <3>3. QED
      BY <3>1, <3>2
  <2>2. QED
    BY <2>1 DEF OwnersAreJustified, ChangeIsJustified
<1>3. AreJustified({c}, {})
  BY <1>1, <1>2 DEF AreJustified, ChangeIsJustified, DefaultsAreJustified, InitialsAreJustified
<1>4. AreChanges({c}, Schema)
  BY DEF AreChanges
<1>5. QED
  BY <1>3, <1>4, Staging

(* Changes that no property speaks of.                                     *)
IsPlain(c) ==
    \/ c.table \in {"workspace", "workspace_member", "transition", "task_state"} \cup Kinds
    \/ c.table = "state" /\ (c.new = None \/ (c.old = None /\ ~c.new.initial))

LEMMA PlainIsJustified ==
    ASSUME NEW c, IsPlain(c)
    PROVE  /\ ChangeIsJustified(c) /\ \A p, u : ~Takes(c, p, u)
  BY DEF IsPlain, Kinds, ChangeIsJustified, StatusIsJustified, TemplateIsJustified, MakesDefault, MakesInitial, Takes

LEMMA PlainChanges ==
    ASSUME IInv, NEW r \in Requests, NEW writes, Stage(r, writes), AreChanges(writes, Schema),
           \A c \in writes : Reads(c) /\ IsPlain(c)
    PROVE  IInv'
<1>1. \A c \in writes : StatusIsJustified(c) /\ TemplateIsJustified(c) /\ StateIsJustified(c, {})
  BY PlainIsJustified DEF ChangeIsJustified, StateIsJustified, IsPlain, Kinds
<1>2. DefaultsAreJustified(writes, {}) /\ InitialsAreJustified(writes, {})
  BY PlainIsJustified DEF ChangeIsJustified, DefaultsAreJustified, InitialsAreJustified
<1>3. OwnersAreJustified(writes, {})
  BY PlainIsJustified DEF ChangeIsJustified, OwnersAreJustified, IsPlain, Kinds
<1>4. QED
  BY <1>1, <1>2, <1>3, Staging DEF AreJustified

(* The changes, typed.                                                     *)
LEMMA Inserted ==
    ASSUME NEW table \in DOMAIN Schema, NEW k \in Schema[table].keys, NEW row \in Schema[table].rows,
           NEW c, c = Insert(table, k, row)
    PROVE  /\ c.table = table /\ c.key = k /\ c.old = None /\ c.new = row /\ row # None
           /\ IsChange(c, Schema) /\ Reads(c)
<1>1. /\ c.table = table /\ c.key = k /\ c.old = None /\ c.new = row
      /\ DOMAIN c = {"table", "key", "old", "new"}
  BY DEF Insert
<1>2. row # None
  BY NoneIsNoRow
<1>3. QED
  BY <1>1, <1>2 DEF IsChange, Reads

LEMMA UpdatedRow ==
    ASSUME IInv, NEW table \in DOMAIN Schema, NEW k \in Stored(table), NEW row \in Schema[table].rows,
           "id" \in DOMAIN db[table][k] => row["id"] = db[table][k]["id"],
           NEW c, c = Update(table, k, row)
    PROVE  /\ c.table = table /\ c.key = k /\ c.old = db[table][k] /\ c.new = row /\ row # None /\ db[table][k] # None
           /\ IsChange(c, Schema) /\ Reads(c)
<1>1. /\ c.table = table /\ c.key = k /\ c.old = db[table][k] /\ c.new = row
      /\ DOMAIN c = {"table", "key", "old", "new"}
  BY DEF Update
<1>2. row # None /\ k \in Schema[table].keys /\ db[table][k] \in Schema[table].rows /\ db[table][k] # None
  BY NoneIsNoRow, IsTyped, Typed
<1>3. QED
  BY <1>1, <1>2 DEF IsChange, Reads

LEMMA Deleted ==
    ASSUME IInv, NEW table \in DOMAIN Schema, ~Schema[table].kept, NEW k \in Stored(table),
           NEW c, c = Delete(table, k)
    PROVE  /\ c.table = table /\ c.key = k /\ c.old = db[table][k] /\ c.new = None /\ db[table][k] # None
           /\ IsChange(c, Schema) /\ Reads(c)
<1>1. /\ c.table = table /\ c.key = k /\ c.old = db[table][k] /\ c.new = None
      /\ DOMAIN c = {"table", "key", "old", "new"}
  BY DEF Delete
<1>2. k \in Schema[table].keys /\ db[table][k] \in Schema[table].rows /\ db[table][k] # None
  BY NoneIsNoRow, IsTyped, Typed
<1>3. QED
  BY <1>1, <1>2 DEF IsChange, Reads

LEMMA PlainChange ==
    ASSUME IInv, NEW r \in Requests, NEW c, Stage(r, {c}), IsChange(c, Schema), Reads(c), IsPlain(c)
    PROVE  IInv'
  BY OneChange, PlainIsJustified

(* A call that writes what it read.                                        *)
LEMMA Unchanged ==
    ASSUME IInv, NEW r \in Requests, NEW table \in {"workspace", "project", "template", "flow", "state", "transition"},
           NEW k \in Stored(table), Save(r, table, k, db[table][k])
    PROVE  IInv'
<1> DEFINE c == Update(table, k, db[table][k])
<1>1. table \in DOMAIN Schema /\ db[table][k] \in Schema[table].rows
  BY SchemaTables, IsTyped, Typed
<1>2. /\ c.table = table /\ c.key = k /\ c.old = db[table][k] /\ c.new = db[table][k] /\ c.old # None
      /\ IsChange(c, Schema) /\ Reads(c)
  BY <1>1, UpdatedRow
<1>3. Stage(r, {c})
  BY DEF Save
<1> HIDE DEF c
<1>4. StatusIsJustified(c)
  BY <1>2 DEF StatusIsJustified, IInv, ProjectsAreSound, DesignsAreSound
<1>5. ChangeIsJustified(c)
  BY <1>2, <1>4 DEF ChangeIsJustified, TemplateIsJustified, MakesDefault, MakesInitial, Takes
<1>6. QED
  BY <1>2, <1>3, <1>5, OneChange

LEMMA WorkspaceRoutesAreSound ==
    ASSUME IInv, NEW r \in Requests, WorkspaceRoutes(r)
    PROVE  IInv'
<1>1. PICK w \in Workspaces :
         \/ \E slug \in Slugs, u \in Users : CreateWorkspace(r, w, slug, u)
         \/ EditWorkspace(r, w) \/ EditWorkspaceSettings(r, w)
         \/ \E archive \in BOOLEAN : SetArchived(r, w, archive)
         \/ \E u \in Users :
               \/ RemoveWorkspaceMember(r, w, u)
               \/ \E role \in WorkspaceRoles : AddWorkspaceMember(r, w, u, role)
  BY DEF WorkspaceRoutes
<1>2. ASSUME NEW slug \in Slugs, NEW u \in Users, CreateWorkspace(r, w, slug, u) PROVE IInv'
  <2> DEFINE c == Insert("workspace", w, NewWorkspace(slug))
             e == Insert("workspace_member", <<w, u>>, [workspace_role |-> "owner", id |-> r])
  <2>1. NewWorkspace(slug) \in Workspace /\ [workspace_role |-> "owner", id |-> r] \in WorkspaceMembership
    BY DEF NewWorkspace, Workspace, WorkspaceMembership, WorkspaceRoles, Ids
  <2>2. c.table = "workspace" /\ IsChange(c, Schema) /\ Reads(c)
    BY <2>1, SchemaTables, Inserted
  <2>3. e.table = "workspace_member" /\ IsChange(e, Schema) /\ Reads(e)
    BY <2>1, SchemaTables, Inserted
  <2>4. Stage(r, {c, e})
    BY <1>2 DEF CreateWorkspace
  <2> HIDE DEF c, e
  <2>5. AreChanges({c, e}, Schema)
    BY <2>2, <2>3 DEF AreChanges
  <2>6. IsPlain(c) /\ IsPlain(e)
    BY <2>2, <2>3 DEF IsPlain
  <2>7. QED
    BY <2>2, <2>3, <2>4, <2>5, <2>6, PlainChanges
<1>3. CASE EditWorkspace(r, w) \/ EditWorkspaceSettings(r, w)
  BY <1>3, Unchanged DEF EditWorkspace, EditWorkspaceSettings
<1>4. ASSUME NEW archive \in BOOLEAN, SetArchived(r, w, archive) PROVE IInv'
  <2> DEFINE row == [db["workspace"][w] EXCEPT !.archived = archive]
             c == Update("workspace", w, row)
  <2>1. w \in Stored("workspace") /\ db["workspace"][w] \in Workspace
    BY <1>4, SchemaTables, IsTyped, Typed DEF SetArchived
  <2>2. row \in Workspace /\ "id" \notin DOMAIN db["workspace"][w]
    BY <2>1 DEF Workspace
  <2>3. c.table = "workspace" /\ IsChange(c, Schema) /\ Reads(c)
    BY <2>1, <2>2, SchemaTables, UpdatedRow
  <2>4. QED
    BY <1>4, <2>3, PlainChange DEF SetArchived, Save, IsPlain
<1>5. ASSUME NEW u \in Users, RemoveWorkspaceMember(r, w, u) PROVE IInv'
  <2> DEFINE c == Delete("workspace_member", <<w, u>>)
  <2>0. <<w, u>> \in Stored("workspace_member")
    BY <1>5 DEF RemoveWorkspaceMember
  <2>1. c.table = "workspace_member" /\ IsChange(c, Schema) /\ Reads(c)
    <3>1. "workspace_member" \in DOMAIN Schema /\ ~Schema["workspace_member"].kept
      BY SchemaTables
    <3>2. QED
      BY <2>0, <3>1, Deleted
  <2>2. QED
    BY <1>5, <2>1, PlainChange DEF RemoveWorkspaceMember, IsPlain
<1>6. ASSUME NEW u \in Users, NEW role \in WorkspaceRoles, AddWorkspaceMember(r, w, u, role) PROVE IInv'
  <2> DEFINE c == Insert("workspace_member", <<w, u>>, [workspace_role |-> role, id |-> r])
  <2>1. [workspace_role |-> role, id |-> r] \in WorkspaceMembership
    BY DEF WorkspaceMembership, Ids
  <2>2. c.table = "workspace_member" /\ IsChange(c, Schema) /\ Reads(c)
    BY <2>1, SchemaTables, Inserted
  <2>3. QED
    BY <1>6, <2>2, PlainChange DEF AddWorkspaceMember, IsPlain
<1>7. QED
  BY <1>1, <1>2, <1>3, <1>4, <1>5, <1>6

(* A row whose status and date go together, or are those that were read.   *)
LEMMA SaveProject ==
    ASSUME IInv, NEW r \in Requests, NEW p \in Stored("project"), NEW row \in Project, Save(r, "project", p, row),
           \/ row.archived_at = db["project"][p].archived_at /\ row.status = db["project"][p].status
           \/ row.archived_at <=> row.status = "archived"
    PROVE  IInv'
<1> DEFINE c == Update("project", p, row)
<1>0. db["project"][p] \in Project
  BY IsTyped, Typed, SchemaTables
<1>1. "id" \notin DOMAIN db["project"][p]
  BY <1>0 DEF Project
<1>2. c.table = "project" /\ c.key = p /\ c.old = db["project"][p] /\ c.new = row /\ c.old # None
      /\ IsChange(c, Schema) /\ Reads(c)
  BY <1>1, SchemaTables, UpdatedRow
<1>3. Stage(r, {c})
  BY DEF Save
<1> HIDE DEF c
<1>4. StatusIsJustified(c)
  BY <1>2 DEF StatusIsJustified, IInv, ProjectsAreSound
<1>5. ChangeIsJustified(c)
  BY <1>2, <1>4 DEF ChangeIsJustified, TemplateIsJustified, MakesDefault, MakesInitial, Takes
<1>6. QED
  BY <1>2, <1>3, <1>5, OneChange

LEMMA SaveFlow ==
    ASSUME IInv, NEW r \in Requests, NEW v \in Stored("flow"), NEW row \in Flow, Save(r, "flow", v, row),
           \/ row.flow_archived_at = db["flow"][v].flow_archived_at /\ row.flow_status = db["flow"][v].flow_status
           \/ row.flow_archived_at <=> row.flow_status = "archived"
    PROVE  IInv'
<1> DEFINE c == Update("flow", v, row)
<1>0. db["flow"][v] \in Flow
  BY IsTyped, Typed, SchemaTables
<1>1. "id" \notin DOMAIN db["flow"][v]
  BY <1>0 DEF Flow
<1>2. c.table = "flow" /\ c.key = v /\ c.old = db["flow"][v] /\ c.new = row /\ c.old # None
      /\ IsChange(c, Schema) /\ Reads(c)
  BY <1>1, SchemaTables, UpdatedRow
<1>3. Stage(r, {c})
  BY DEF Save
<1> HIDE DEF c
<1>4. StatusIsJustified(c)
  BY <1>2 DEF StatusIsJustified, IInv, DesignsAreSound
<1>5. ChangeIsJustified(c)
  BY <1>2, <1>4 DEF ChangeIsJustified, TemplateIsJustified, MakesDefault, MakesInitial, Takes
<1>6. QED
  BY <1>2, <1>3, <1>5, OneChange

LEMMA CreateProjectIsSound ==
    ASSUME IInv, NEW r \in Requests, NEW p \in Projects, NEW w \in Workspaces, NEW t \in Stored("template") \cup {None},
           NEW u \in Users, CreateProject(r, p, w, t, u)
    PROVE  IInv'
<1> DEFINE c == Insert("project", p, NewProject(w, t))
           e == Insert("member", <<p, u>>, Joined(r))
<1>1. /\ NewProject(w, t) \in Project /\ NewProject(w, t).archived_at = FALSE /\ NewProject(w, t).status = "planning"
      /\ Joined(r) \in ProjectMembership /\ Joined(r).role = "owner" /\ Joined(r).joined
  BY IsTyped, Typed, SchemaTables DEF NewProject, Project, Joined, ProjectMembership, ProjectRoles, ProjectStatuses, Ids
<1>2. c.table = "project" /\ c.key = p /\ c.old = None /\ c.new = NewProject(w, t) /\ IsChange(c, Schema) /\ Reads(c)
  BY <1>1, SchemaTables, Inserted
<1>3. e.table = "member" /\ e.key = <<p, u>> /\ e.old = None /\ e.new = Joined(r) /\ e.new # None
      /\ IsChange(e, Schema) /\ Reads(e)
  BY <1>1, SchemaTables, Inserted
<1>4. Stage(r, {c, e})
  BY <1>2 DEF CreateProject
<1> HIDE DEF c, e
<1>5. AreChanges({c, e}, Schema)
  BY <1>2, <1>3 DEF AreChanges
<1>6. /\ StatusIsJustified(c) /\ TemplateIsJustified(c) /\ StateIsJustified(c, {})
      /\ StatusIsJustified(e) /\ TemplateIsJustified(e) /\ StateIsJustified(e, {})
  BY <1>1, <1>2, <1>3 DEF StatusIsJustified, TemplateIsJustified, StateIsJustified
<1>7. DefaultsAreJustified({c, e}, {}) /\ InitialsAreJustified({c, e}, {})
  BY <1>2, <1>3 DEF DefaultsAreJustified, InitialsAreJustified, MakesDefault, MakesInitial
<1>8. OwnersAreJustified({c, e}, {})
  <2>1. Gives(e, p, u) /\ \A q, v : ~Takes(c, q, v) /\ ~Takes(e, q, v)
    BY <1>1, <1>2, <1>3 DEF Gives, Takes
  <2>2. QED
    BY <1>2, <1>3, <2>1 DEF OwnersAreJustified
<1>9. QED
  BY <1>2, <1>3, <1>4, <1>5, <1>6, <1>7, <1>8, Staging DEF AreJustified

LEMMA ProjectRoutesAreSound ==
    ASSUME IInv, NEW r \in Requests, ProjectRoutes(r)
    PROVE  IInv'
<1>1. PICK p \in Projects :
         \/ \E w \in Workspaces, t \in Stored("template") \cup {None}, u \in Users : CreateProject(r, p, w, t, u)
         \/ EditProject(r, p) \/ EditMetadata(r, p) \/ EditSettings(r, p) \/ ChangeVisibility(r, p)
         \/ \E status \in ProjectStatuses : ChangeStatus(r, p, status)
         \/ Archive(r, p) \/ Unarchive(r, p) \/ DeleteProject(r, p)
  BY DEF ProjectRoutes
<1>2. LiveProject(p) => p \in Stored("project") /\ db["project"][p] \in Project
  BY IsTyped, Typed DEF LiveProject
<1>3. CASE EditProject(r, p) \/ EditMetadata(r, p) \/ EditSettings(r, p) \/ ChangeVisibility(r, p)
  BY <1>2, <1>3, Unchanged DEF EditProject, EditMetadata, EditSettings, ChangeVisibility
<1>4. ASSUME NEW status \in ProjectStatuses, ChangeStatus(r, p, status) PROVE IInv'
  <2> DEFINE old == db["project"][p]
  <2>1. InStatus(old, status) \in Project
        /\ \/ InStatus(old, status) = old
           \/ InStatus(old, status).archived_at <=> InStatus(old, status).status = "archived"
    BY <1>2, <1>4 DEF ChangeStatus, InStatus, Project
  <2>2. QED
    BY <1>2, <1>4, <2>1, SaveProject DEF ChangeStatus
<1>5. CASE Archive(r, p) \/ Unarchive(r, p)
  BY <1>4, <1>5 DEF Archive, Unarchive, ProjectStatuses
<1>6. CASE DeleteProject(r, p)
  <2> DEFINE old == db["project"][p]
             row == [old EXCEPT !.deleted = TRUE]
  <2>1. row \in Project /\ row.archived_at = old.archived_at /\ row.status = old.status
    BY <1>2, <1>6 DEF DeleteProject, Project
  <2>2. QED
    BY <1>2, <1>6, <2>1, SaveProject DEF DeleteProject
<1>7. QED
  BY <1>1, <1>3, <1>4, <1>5, <1>6, CreateProjectIsSound

(* Two owners are counted: there is another one.                           *)
LEMMA AnotherOwner ==
    ASSUME NEW p \in Projects, NEW u \in Users, IsOwner(p, u), CountOwners(p) > 1
    PROVE  \E v \in Users : v # u /\ IsOwner(p, v)
<1> DEFINE owners == {v \in Users : IsOwner(p, v)}
<1>1. SUFFICES ASSUME \A v \in Users : v # u => ~IsOwner(p, v) PROVE FALSE
  OBVIOUS
<1>2. owners = {u}
  BY <1>1
<1>3. Cardinality(owners) = 1
  BY <1>2, FS_Singleton
<1>4. QED
  BY <1>3 DEF CountOwners

(* A membership keeps its project's owners, or another one is left.        *)
LEMMA SaveMember ==
    ASSUME IInv, NEW r \in Requests, NEW p \in Projects, NEW u \in Users, <<p, u>> \in Stored("member"),
           NEW row \in ProjectMembership, row.id = db["member"][<<p, u>>].id, Save(r, "member", <<p, u>>, row),
           IsOwner(p, u) /\ ~(row.role = "owner" /\ row.joined) => CountOwners(p) > 1
    PROVE  IInv'
<1> DEFINE c == Update("member", <<p, u>>, row)
<1>1. c.table = "member" /\ c.key = <<p, u>> /\ c.old = db["member"][<<p, u>>] /\ c.new = row /\ c.old # None /\ c.new # None
      /\ IsChange(c, Schema) /\ Reads(c)
  BY SchemaTables, UpdatedRow
<1>2. Stage(r, {c})
  BY DEF Save
<1> HIDE DEF c
<1>3. ASSUME NEW q \in Projects, NEW w \in Users, IsOwner(q, w), Takes(c, q, w)
      PROVE  \E v \in Users : v # w /\ IsOwner(q, v)
  <2>1. <<p, u>> = <<q, w>> /\ ~(row.role = "owner" /\ row.joined)
    BY <1>1, <1>3 DEF Takes
  <2>2. p = q /\ u = w
    BY <2>1
  <2>3. QED
    BY <1>3, <2>1, <2>2, AnotherOwner
<1>4. ChangeIsJustified(c)
  BY <1>1, <1>3 DEF ChangeIsJustified, StatusIsJustified, TemplateIsJustified, MakesDefault, MakesInitial
<1>5. QED
  BY <1>1, <1>2, <1>4, OneChange

LEMMA MembershipRoutesAreSound ==
    ASSUME IInv, NEW r \in Requests, MembershipRoutes(r)
    PROVE  IInv'
<1>1. PICK p \in Projects, u \in Users :
         \/ \E role \in ProjectRoles : InviteMember(r, p, u, role) \/ ChangeMemberRole(r, p, u, role)
         \/ AcceptInvite(r, p, u) \/ RemoveMember(r, p, u)
  BY DEF MembershipRoutes
<1> DEFINE old == db["member"][<<p, u>>]
<1>2. <<p, u>> \in Stored("member") => old \in ProjectMembership
  BY IsTyped, Typed
<1>3. IsOwner(p, u) => old.role = "owner" /\ old.joined
  BY DEF IsOwner
<1>4. ASSUME NEW role \in ProjectRoles, InviteMember(r, p, u, role) PROVE IInv'
  <2> DEFINE row == [role |-> role, joined |-> FALSE, id |-> r]
             c == Insert("member", <<p, u>>, row)
  <2>1. row \in ProjectMembership
    BY DEF ProjectMembership, Ids
  <2>2. c.table = "member" /\ c.key = <<p, u>> /\ c.old = None /\ c.new # None /\ IsChange(c, Schema) /\ Reads(c)
    <3>1. "member" \in DOMAIN Schema /\ row \in Schema["member"].rows /\ <<p, u>> \in Schema["member"].keys
      BY <2>1, SchemaTables
    <3> HIDE DEF row
    <3>2. QED
      BY <3>1, Inserted
  <2>3. Stage(r, {c}) /\ <<p, u>> \notin Stored("member")
    BY <1>4 DEF InviteMember
  <2> HIDE DEF c
  <2>4. ChangeIsJustified(c)
    BY <2>2, <2>3 DEF ChangeIsJustified, StatusIsJustified, TemplateIsJustified, MakesDefault, MakesInitial, Takes, IsOwner
  <2>5. QED
    BY <2>2, <2>3, <2>4, OneChange
<1>5. ASSUME NEW role \in ProjectRoles, ChangeMemberRole(r, p, u, role) PROVE IInv'
  <2> DEFINE row == [old EXCEPT !.role = role]
  <2>1. row \in ProjectMembership /\ row.id = old.id /\ row.joined = old.joined /\ row.role = role
    BY <1>2, <1>5 DEF ChangeMemberRole, ProjectMembership
  <2>2. QED
    BY <1>3, <1>5, <2>1, SaveMember DEF ChangeMemberRole
<1>6. CASE AcceptInvite(r, p, u)
  <2> DEFINE row == [old EXCEPT !.joined = TRUE]
  <2>1. row \in ProjectMembership /\ row.id = old.id /\ row.joined /\ row.role = old.role
    BY <1>2, <1>6 DEF AcceptInvite, ProjectMembership
  <2>2. QED
    BY <1>3, <1>6, <2>1, SaveMember DEF AcceptInvite
<1>7. CASE RemoveMember(r, p, u)
  <2> DEFINE c == Delete("member", <<p, u>>)
  <2>1. <<p, u>> \in Stored("member") /\ Stage(r, {c}) /\ (IsOwner(p, u) => CountOwners(p) > 1)
    BY <1>7 DEF RemoveMember
  <2>2. c.table = "member" /\ c.key = <<p, u>> /\ c.old # None /\ c.new = None /\ IsChange(c, Schema) /\ Reads(c)
    <3>1. "member" \in DOMAIN Schema /\ ~Schema["member"].kept
      BY SchemaTables
    <3>2. QED
      BY <2>1, <3>1, Deleted
  <2> HIDE DEF c
  <2>3. ASSUME NEW q \in Projects, NEW w \in Users, IsOwner(q, w), Takes(c, q, w)
        PROVE  \E v \in Users : v # w /\ IsOwner(q, v)
    <3>1. <<p, u>> = <<q, w>>
      BY <2>2, <2>3 DEF Takes
    <3>2. p = q /\ u = w
      BY <3>1
    <3>3. QED
      BY <2>1, <2>3, <3>2, AnotherOwner
  <2>4. ChangeIsJustified(c)
    BY <2>2, <2>3 DEF ChangeIsJustified, StatusIsJustified, TemplateIsJustified, MakesDefault, MakesInitial
  <2>5. QED
    BY <2>1, <2>2, <2>4, OneChange
<1>8. QED
  BY <1>1, <1>4, <1>5, <1>6, <1>7

-----------------------------------------------------------------------------
LEMMA SaveTemplate ==
    ASSUME IInv, NEW r \in Requests, NEW t \in Templates, LiveTemplate(t), NEW gone \in BOOLEAN,
           Save(r, "template", t, [db["template"][t] EXCEPT !.gone = gone])
    PROVE  IInv'
<1> DEFINE old == db["template"][t]
           row == [old EXCEPT !.gone = gone]
           c == Update("template", t, row)
<1>1. old \in ProjectTemplate /\ t \in Stored("template") /\ old.gone = FALSE
  BY IsTyped, Typed DEF LiveTemplate, ProjectTemplate, Stored, Rows, HasSchema, Schema, Table
<1>2. row \in ProjectTemplate /\ row.is_default = old.is_default /\ "id" \notin DOMAIN old
  BY <1>1 DEF ProjectTemplate
<1>3. c.table = "template" /\ c.key = t /\ c.old = old /\ c.new = row /\ c.old # None /\ IsChange(c, Schema) /\ Reads(c)
  BY <1>1, <1>2, SchemaTables, UpdatedRow
<1>4. Stage(r, {c})
  BY DEF Save
<1> HIDE DEF c
<1>5. ChangeIsJustified(c)
  BY <1>1, <1>2, <1>3 DEF ChangeIsJustified, StatusIsJustified, TemplateIsJustified, MakesDefault, MakesInitial, Takes
<1>6. QED
  BY <1>3, <1>4, <1>5, OneChange

LEMMA SetDefaultIsSound ==
    ASSUME IInv, NEW r \in Requests, NEW t \in Templates, SetDefault(r, t)
    PROVE  IInv'
<1> DEFINE old(d) == db["template"][d]
           At(d) == IF d = t THEN Mark(t, TRUE) ELSE Mark(d, FALSE)
           marked == Defaults \cup {t}
           writes == {At(d) : d \in marked}
<1>1. \A d \in marked : d \in Templates /\ old(d) \in ProjectTemplate /\ d \in Stored("template") /\ old(d).gone = FALSE
  <2>1. \A d \in marked : d \in Templates /\ LiveTemplate(d)
    BY DEF Defaults, SetDefault
  <2>2. QED
    BY <2>1, IsTyped, Typed DEF LiveTemplate, ProjectTemplate, Stored, Rows, HasSchema, Schema, Table
<1>2. ASSUME NEW d \in marked
      PROVE  /\ At(d).table = "template" /\ At(d).key = d /\ At(d).old = old(d) /\ At(d).old # None /\ At(d).old.gone = FALSE
             /\ (At(d).new.is_default <=> d = t) /\ IsChange(At(d), Schema) /\ Reads(At(d))
  <2>1. PICK default \in BOOLEAN : default <=> d = t
    OBVIOUS
  <2> DEFINE row == [old(d) EXCEPT !.is_default = default]
             c == Update("template", d, row)
  <2>2. row \in ProjectTemplate /\ row # None /\ "id" \notin DOMAIN old(d) /\ row.is_default = default
    <3>1. row \in ProjectTemplate /\ "id" \notin DOMAIN old(d) /\ row.is_default = default
      BY <1>1 DEF ProjectTemplate
    <3>2. QED
      BY <3>1, SchemaTables, NoneIsNoRow
  <2>3. /\ c.table = "template" /\ c.key = d /\ c.old = old(d) /\ c.new = row /\ c.old # None
        /\ IsChange(c, Schema) /\ Reads(c)
    BY <1>1, <2>2, SchemaTables, UpdatedRow
  <2>4. At(d) = c
    <3>1. CASE d = t
      <4>1. default = TRUE
        BY <2>1, <3>1
      <4>2. QED
        BY <3>1, <4>1 DEF Mark
    <3>2. CASE d # t
      <4>1. default = FALSE
        BY <2>1, <3>2
      <4>2. QED
        BY <3>2, <4>1 DEF Mark
    <3>3. QED
      BY <3>1, <3>2
  <2>5. old(d).gone = FALSE
    BY <1>1
  <2> HIDE DEF c, At, row, old
  <2>6. QED
    BY <2>1, <2>2, <2>3, <2>4, <2>5
<1>3. Stage(r, writes)
  <2>1. writes = {Mark(d, FALSE) : d \in Defaults \ {t}} \cup {Mark(t, TRUE)}
    OBVIOUS
  <2>2. QED
    BY <2>1 DEF SetDefault
<1> HIDE DEF At, old, marked
<1>0. \A c \in writes : \E d \in marked :
         /\ c = At(d) /\ c.table = "template" /\ c.key = d /\ c.old = old(d) /\ c.old # None /\ c.old.gone = FALSE
         /\ (c.new.is_default <=> d = t) /\ IsChange(c, Schema) /\ Reads(c)
  <2>1. SUFFICES ASSUME NEW c \in writes
                 PROVE  \E d \in marked :
                           /\ c = At(d) /\ c.table = "template" /\ c.key = d /\ c.old = old(d) /\ c.old # None
                           /\ c.old.gone = FALSE /\ (c.new.is_default <=> d = t) /\ IsChange(c, Schema) /\ Reads(c)
    OBVIOUS
  <2>2. PICK d \in marked : c = At(d)
    OBVIOUS
  <2> HIDE DEF writes
  <2>3. QED
    BY <1>2, <2>2
<1>10. \A d \in marked : At(d) \in writes
  OBVIOUS
<1> HIDE DEF writes, old
<1>4. AreChanges(writes, Schema) /\ \A c \in writes : Reads(c)
  BY <1>0 DEF AreChanges
<1>5. \A c \in writes : StatusIsJustified(c) /\ TemplateIsJustified(c) /\ StateIsJustified(c, {})
  BY <1>0 DEF StatusIsJustified, TemplateIsJustified, StateIsJustified
<1>6. DefaultsAreJustified(writes, {})
  <2>1. \A c \in writes : MakesDefault(c) => c = At(t)
    BY <1>0 DEF MakesDefault
  <2>2. ASSUME NEW c \in writes, MakesDefault(c), NEW d \in Defaults PROVE \E e \in writes : UnmakesDefault(e, d)
    <3>1. c = At(t) /\ t \in marked /\ d \in marked
      BY <2>1, <2>2 DEF marked
    <3>0. old(d).is_default
      BY DEF Defaults, old
    <3>2. d # t
      BY <1>2, <2>2, <3>0, <3>1 DEF MakesDefault
    <3>3. UnmakesDefault(At(d), d)
      BY <1>2, <3>1, <3>2 DEF UnmakesDefault
    <3>4. QED
      BY <1>10, <3>1, <3>3
  <2>3. QED
    BY <1>0, <2>1, <2>2 DEF Defaults, DefaultsAreJustified
<1>7. InitialsAreJustified(writes, {})
  BY <1>0 DEF InitialsAreJustified, MakesInitial
<1>8. OwnersAreJustified(writes, {})
  BY <1>0 DEF OwnersAreJustified, Takes
<1>9. QED
  BY <1>3, <1>4, <1>5, <1>6, <1>7, <1>8, Staging DEF AreJustified

LEMMA TemplateRoutesAreSound ==
    ASSUME IInv, NEW r \in Requests, TemplateRoutes(r)
    PROVE  IInv'
<1>1. PICK t \in Templates :
         \/ CreateTemplate(r, t) \/ ImportTemplate(r, t) \/ UpdateTemplate(r, t)
         \/ SetDefault(r, t) \/ DeleteTemplate(r, t)
  BY DEF TemplateRoutes
<1>2. CASE CreateTemplate(r, t) \/ ImportTemplate(r, t)
  <2> DEFINE c == Insert("template", t, NewTemplate)
  <2>1. NewTemplate \in ProjectTemplate /\ ~NewTemplate.is_default
    BY DEF NewTemplate, ProjectTemplate
  <2>2. c.table = "template" /\ c.old = None /\ c.new = NewTemplate /\ IsChange(c, Schema) /\ Reads(c)
    BY <2>1, SchemaTables, Inserted
  <2>3. Stage(r, {c})
    BY <1>2 DEF CreateTemplate, ImportTemplate
  <2> HIDE DEF c
  <2>4. ChangeIsJustified(c)
    BY <2>1, <2>2 DEF ChangeIsJustified, StatusIsJustified, TemplateIsJustified, MakesDefault, MakesInitial, Takes
  <2>5. QED
    BY <2>2, <2>3, <2>4, OneChange
<1>3. CASE UpdateTemplate(r, t)
  <2>1. t \in Stored("template")
    BY <1>3, IsTyped DEF UpdateTemplate, LiveTemplate, Stored, Rows, HasSchema, Schema, Table
  <2>2. QED
    BY <1>3, <2>1, Unchanged DEF UpdateTemplate
<1>4. CASE DeleteTemplate(r, t)
  <2>1. PICK gone \in BOOLEAN : gone = TRUE
    OBVIOUS
  <2>2. LiveTemplate(t) /\ Save(r, "template", t, [db["template"][t] EXCEPT !.gone = gone])
    BY <1>4, <2>1 DEF DeleteTemplate
  <2>3. QED
    BY <2>2, SaveTemplate
<1>5. QED
  BY <1>1, <1>2, <1>3, <1>4, SetDefaultIsSound

-----------------------------------------------------------------------------
LEMMA WorkflowRoutesAreSound ==
    ASSUME IInv, NEW r \in Requests, WorkflowRoutes(r)
    PROVE  IInv'
<1>1. PICK v \in Flows :
         \/ \E p \in Projects : CreateWorkflow(r, v, p)
         \/ UpdateWorkflow(r, v) \/ ArchiveWorkflow(r, v) \/ RestoreWorkflow(r, v) \/ DeleteWorkflow(r, v)
  BY DEF WorkflowRoutes
<1> DEFINE old == db["flow"][v]
<1>2. LiveFlow(v) => v \in Stored("flow") /\ old \in Flow
  BY IsTyped, Typed DEF LiveFlow
<1>3. ASSUME NEW p \in Projects, CreateWorkflow(r, v, p) PROVE IInv'
  <2> DEFINE c == Insert("flow", v, NewFlow(p))
  <2>1. NewFlow(p) \in Flow /\ ~NewFlow(p).flow_archived_at /\ NewFlow(p).flow_status = "active"
    BY DEF NewFlow, Flow
  <2>2. c.table = "flow" /\ c.old = None /\ c.new = NewFlow(p) /\ IsChange(c, Schema) /\ Reads(c)
    BY <2>1, SchemaTables, Inserted
  <2>3. Stage(r, {c})
    BY <1>3 DEF CreateWorkflow
  <2> HIDE DEF c
  <2>4. ChangeIsJustified(c)
    BY <2>1, <2>2 DEF ChangeIsJustified, StatusIsJustified, TemplateIsJustified, MakesDefault, MakesInitial, Takes
  <2>5. QED
    BY <2>2, <2>3, <2>4, OneChange
<1>4. CASE UpdateWorkflow(r, v)
  BY <1>2, <1>4, Unchanged DEF UpdateWorkflow
<1>5. CASE ArchiveWorkflow(r, v)
  <2> DEFINE row == [old EXCEPT !.flow_status = "archived", !.flow_archived_at = TRUE]
  <2>1. row \in Flow /\ (row.flow_archived_at <=> row.flow_status = "archived")
    BY <1>2, <1>5 DEF ArchiveWorkflow, Flow
  <2>2. QED
    BY <1>2, <1>5, <2>1, SaveFlow DEF ArchiveWorkflow
<1>6. CASE RestoreWorkflow(r, v)
  <2> DEFINE row == [old EXCEPT !.flow_status = "active", !.flow_archived_at = FALSE]
  <2>1. row \in Flow /\ (row.flow_archived_at <=> row.flow_status = "archived")
    BY <1>2, <1>6 DEF RestoreWorkflow, Flow
  <2>2. QED
    BY <1>2, <1>6, <2>1, SaveFlow DEF RestoreWorkflow
<1>7. CASE DeleteWorkflow(r, v)
  <2> DEFINE row == [old EXCEPT !.flow_deleted = TRUE]
  <2>1. row \in Flow /\ row.flow_archived_at = old.flow_archived_at /\ row.flow_status = old.flow_status
    BY <1>2, <1>7 DEF DeleteWorkflow, Flow
  <2>2. QED
    BY <1>2, <1>7, <2>1, SaveFlow DEF DeleteWorkflow
<1>8. QED
  BY <1>1, <1>3, <1>4, <1>5, <1>6, <1>7

-----------------------------------------------------------------------------
(* The row of a state whose mark as the initial one is set or taken away.  *)
LEMMA MarkedStates ==
    ASSUME IInv, NEW s \in Stored("state"), NEW initial \in BOOLEAN,
           NEW c, c = MarkInitial(s, initial)
    PROVE  /\ c.table = "state" /\ c.key = s /\ c.old = db["state"][s] /\ c.old # None /\ c.new # None
           /\ c.new.initial = initial /\ c.new.flow = db["state"][s].flow /\ IsChange(c, Schema) /\ Reads(c)
<1> DEFINE row == [db["state"][s] EXCEPT !.initial = initial]
<1>1. db["state"][s] \in State
  BY IsTyped, Typed
<1>2. row \in State /\ row.initial = initial /\ row.flow = db["state"][s].flow /\ row["id"] = db["state"][s]["id"]
  BY <1>1 DEF State
<1>3. c = Update("state", s, row) /\ "state" \in DOMAIN Schema /\ row \in Schema["state"].rows
  BY <1>2, SchemaTables DEF MarkInitial
<1> HIDE DEF row
<1>4. QED
  BY <1>2, <1>3, UpdatedRow

(* A request that unmarks the initial states of a workflow and makes one.  *)
LEMMA OneInitial ==
    ASSUME IInv, NEW r \in Requests, NEW v \in Flows, NEW c, IsChange(c, Schema), Reads(c),
           c.table = "state", c.new # None, c.new.initial, c.new.flow = v,
           c.old # None => c.new.flow = c.old.flow /\ ~c.old.initial,
           c.old = None => c.key \notin Stored("state"),
           NEW writes, writes = ClearInitial(v) \cup {c}, Stage(r, writes)
    PROVE  IInv'
<1>1. ASSUME NEW e \in ClearInitial(v)
      PROVE  \E s \in InitialOf(v) :
                /\ e.table = "state" /\ e.key = s /\ e.old # None /\ e.new # None /\ ~e.new.initial /\ e.new.flow = v
                /\ e.new.flow = e.old.flow /\ e.old.initial /\ IsChange(e, Schema) /\ Reads(e)
  <2>1. PICK s \in InitialOf(v) : e = MarkInitial(s, FALSE)
    BY DEF ClearInitial
  <2>2. s \in Stored("state") /\ db["state"][s].initial /\ db["state"][s].flow = v
    BY DEF InitialOf, StatesOf
  <2>3. PICK initial \in BOOLEAN : initial = FALSE
    OBVIOUS
  <2>4. e = MarkInitial(s, initial)
    BY <2>1, <2>3
  <2>5. /\ e.table = "state" /\ e.key = s /\ e.old = db["state"][s] /\ e.old # None /\ e.new # None
        /\ e.new.initial = initial /\ e.new.flow = db["state"][s].flow /\ IsChange(e, Schema) /\ Reads(e)
    BY <2>2, <2>4, MarkedStates
  <2>6. QED
    BY <2>2, <2>3, <2>5
<1>2. ASSUME NEW s \in InitialOf(v)
      PROVE  \E e \in writes : UnmakesInitial(e, s)
  <2>1. MarkInitial(s, FALSE) \in writes
    BY DEF ClearInitial
  <2>2. s \in Stored("state")
    BY DEF InitialOf, StatesOf
  <2>3. PICK initial \in BOOLEAN : initial = FALSE
    OBVIOUS
  <2> DEFINE e == MarkInitial(s, initial)
  <2>4. e \in writes
    BY <2>1, <2>3
  <2>5. e.table = "state" /\ e.key = s /\ e.new.initial = initial
    BY <2>2, MarkedStates
  <2>6. QED
    BY <2>3, <2>4, <2>5 DEF UnmakesInitial
<1>3. ASSUME NEW e \in ClearInitial(v) PROVE e.key # c.key
  <2>1. PICK s \in InitialOf(v) : e.key = s
    BY <1>1
  <2>2. s \in Stored("state") /\ db["state"][s].initial
    BY DEF InitialOf, StatesOf
  <2>3. QED
    BY <2>1, <2>2 DEF Reads
<1>4. \A e \in writes : IsChange(e, Schema) /\ Reads(e) /\ e.table = "state" /\ e.new # None
                        /\ (e.old # None => e.new.flow = e.old.flow)
  BY <1>1
<1>5. ASSUME NEW d \in writes, NEW e \in writes, d.key = e.key PROVE d = e
  <2>1. CASE d = c \/ e = c
    BY <1>3, <1>5, <2>1
  <2>2. CASE d \in ClearInitial(v) /\ e \in ClearInitial(v)
    <3>1. PICK s \in InitialOf(v) : d = MarkInitial(s, FALSE)
      BY <2>2 DEF ClearInitial
    <3>2. PICK t \in InitialOf(v) : e = MarkInitial(t, FALSE)
      BY <2>2 DEF ClearInitial
    <3>3. d.key = s /\ e.key = t
      BY <3>1, <3>2 DEF MarkInitial, Update
    <3>4. QED
      BY <1>5, <3>1, <3>2, <3>3
  <2>3. QED
    BY <2>1, <2>2
<1>6. AreChanges(writes, Schema)
  BY <1>4, <1>5 DEF AreChanges
<1>7. \A e \in writes : StatusIsJustified(e) /\ TemplateIsJustified(e) /\ StateIsJustified(e, {})
  BY <1>4 DEF StatusIsJustified, TemplateIsJustified, StateIsJustified, Reads
<1>8. DefaultsAreJustified(writes, {}) /\ OwnersAreJustified(writes, {})
  BY <1>4 DEF DefaultsAreJustified, MakesDefault, OwnersAreJustified, Takes
<1>9. InitialsAreJustified(writes, {})
  <2>1. \A e \in writes : MakesInitial(e) => e = c
    BY <1>1 DEF MakesInitial
  <2>2. QED
    BY <1>2, <2>1 DEF InitialsAreJustified
<1> HIDE DEF ClearInitial
<1>10. QED
  BY <1>4, <1>6, <1>7, <1>8, <1>9, Staging DEF AreJustified

LEMMA StateRoutesAreSound ==
    ASSUME IInv, NEW r \in Requests, StateRoutes(r)
    PROVE  IInv'
<1>1. PICK s \in States :
         \/ \E n \in StateNames :
               \/ RenameState(r, s, n)
               \/ \E v \in Flows, initial \in BOOLEAN : CreateState(r, s, v, n, initial)
         \/ SetInitial(r, s) \/ SetFinal(r, s) \/ SetHidden(r, s) \/ SetStateArchived(r, s)
         \/ SetMappedTaskStatus(r, s) \/ ReorderState(r, s) \/ DeleteState(r, s)
  BY DEF StateRoutes
<1> DEFINE old == db["state"][s]
<1>2. s \in Stored("state") => old \in State /\ old # None
  BY IsTyped, Typed
<1>3. ASSUME NEW n \in StateNames, RenameState(r, s, n) PROVE IInv'
  <2> DEFINE row == [old EXCEPT !.state_name = n]
             c == Update("state", s, row)
  <2>1. s \in Stored("state") /\ Stage(r, {c})
    BY <1>3 DEF RenameState, HasState, Save
  <2>2. row \in State /\ row.initial = old.initial /\ row.flow = old.flow /\ row["id"] = old["id"]
    BY <1>2, <2>1 DEF State
  <2>3. "state" \in DOMAIN Schema /\ row \in Schema["state"].rows
    BY <2>2, SchemaTables
  <2> HIDE DEF row
  <2>4. c.table = "state" /\ c.key = s /\ c.old = old /\ c.old # None /\ c.new = row /\ IsChange(c, Schema) /\ Reads(c)
    BY <2>1, <2>2, <2>3, UpdatedRow
  <2> HIDE DEF c
  <2>5. ChangeIsJustified(c)
    BY <2>2, <2>4 DEF ChangeIsJustified, StatusIsJustified, TemplateIsJustified, MakesDefault, MakesInitial, Takes
  <2>6. QED
    BY <2>1, <2>4, <2>5, OneChange
<1>4. ASSUME NEW n \in StateNames, NEW v \in Flows, NEW initial \in BOOLEAN, CreateState(r, s, v, n, initial) PROVE IInv'
  <2> DEFINE row == NewState(r, v, n, initial)
             c == Insert("state", s, row)
  <2>1. row \in State /\ row.initial = initial /\ row.flow = v
    BY DEF NewState, State, Ids
  <2>2. "state" \in DOMAIN Schema /\ row \in Schema["state"].rows /\ s \in Schema["state"].keys
    BY <2>1, SchemaTables
  <2>3. Stage(r, (IF initial THEN ClearInitial(v) ELSE {}) \cup {c}) /\ s \notin Stored("state")
    BY <1>4 DEF CreateState, IsNew, Stored, Rows
  <2> HIDE DEF row
  <2>4. c.table = "state" /\ c.key = s /\ c.old = None /\ c.new = row /\ c.new # None /\ IsChange(c, Schema) /\ Reads(c)
    BY <2>2, Inserted
  <2> HIDE DEF c
  <2>5. CASE initial
    <3>1. Stage(r, ClearInitial(v) \cup {c})
      BY <2>3, <2>5
    <3>2. QED
      BY <2>1, <2>3, <2>4, <2>5, <3>1, OneInitial
  <2>6. CASE ~initial
    <3>1. Stage(r, {c})
      BY <2>3, <2>6
    <3>2. QED
      BY <2>1, <2>4, <2>6, <3>1, PlainChange DEF IsPlain
  <2>7. QED
    BY <2>5, <2>6
<1>5. CASE SetInitial(r, s)
  <2>1. s \in Stored("state") /\ ~old.initial /\ Stage(r, ClearInitial(old.flow) \cup {MarkInitial(s, TRUE)})
    BY <1>5 DEF SetInitial, HasState
  <2>2. PICK initial \in BOOLEAN : initial = TRUE
    OBVIOUS
  <2> DEFINE c == MarkInitial(s, initial)
  <2>3. /\ c.table = "state" /\ c.key = s /\ c.old = old /\ c.old # None /\ c.new # None
        /\ c.new.initial = initial /\ c.new.flow = old.flow /\ IsChange(c, Schema) /\ Reads(c)
    BY <2>1, MarkedStates
  <2>4. Stage(r, ClearInitial(old.flow) \cup {c})
    BY <2>1, <2>2
  <2>5. old.flow \in Flows
    BY <1>2, <2>1 DEF State
  <2> HIDE DEF c
  <2>6. QED
    BY <2>1, <2>2, <2>3, <2>4, <2>5, OneInitial
<1>6. CASE SetFinal(r, s) \/ SetHidden(r, s) \/ SetStateArchived(r, s) \/ SetMappedTaskStatus(r, s) \/ ReorderState(r, s)
  BY <1>6, Unchanged DEF SetFinal, SetHidden, SetStateArchived, SetMappedTaskStatus, ReorderState, HasState
<1>7. CASE DeleteState(r, s)
  <2> DEFINE c == Delete("state", s)
  <2>1. s \in Stored("state") /\ Stage(r, {c})
    BY <1>7 DEF DeleteState, HasState
  <2>2. "state" \in DOMAIN Schema /\ ~Schema["state"].kept
    BY SchemaTables
  <2>3. c.table = "state" /\ c.new = None /\ IsChange(c, Schema) /\ Reads(c)
    BY <2>1, <2>2, Deleted
  <2>4. QED
    BY <2>1, <2>3, PlainChange DEF IsPlain
<1>8. QED
  BY <1>1, <1>3, <1>4, <1>5, <1>6, <1>7

-----------------------------------------------------------------------------
(* The rows that hang on a transition.                                     *)
LEMMA DeletedPart ==
    ASSUME IInv, NEW kind \in Kinds, NEW k \in Stored(kind), NEW c, c = Delete(kind, k)
    PROVE  c.table = kind /\ c.key = k /\ IsChange(c, Schema) /\ Reads(c) /\ IsPlain(c)
<1>1. kind \in DOMAIN Schema /\ ~Schema[kind].kept
  BY SchemaTables DEF Kinds
<1>2. QED
  BY <1>1, Deleted DEF IsPlain

LEMMA AddPartIsSound ==
    ASSUME IInv, NEW r \in Requests, NEW kind \in Kinds, NEW k \in Parts, NEW x \in Transitions, AddPart(r, kind, k, x)
    PROVE  IInv'
<1> DEFINE row == [transition |-> x, id |-> r]
           c == Insert(kind, k, row)
<1>1. row \in Rule
  BY DEF Rule, Ids
<1>2. kind \in DOMAIN Schema /\ row \in Schema[kind].rows /\ k \in Schema[kind].keys
  BY <1>1, SchemaTables DEF Kinds
<1>3. Stage(r, {c})
  BY DEF AddPart
<1> HIDE DEF row
<1>4. c.table = kind /\ IsChange(c, Schema) /\ Reads(c)
  BY <1>2, Inserted
<1>5. QED
  BY <1>3, <1>4, PlainChange DEF IsPlain

LEMMA RemovePartIsSound ==
    ASSUME IInv, NEW r \in Requests, NEW kind \in Kinds, NEW k \in Parts, RemovePart(r, kind, k)
    PROVE  IInv'
  BY DeletedPart, PlainChange DEF RemovePart

LEMMA DeleteTransitionIsSound ==
    ASSUME IInv, NEW r \in Requests, NEW x \in Transitions, DeleteTransition(r, x)
    PROVE  IInv'
<1> DEFINE Gone(kind) == {Delete(kind, k) : k \in PartsOf(kind, x)}
           own == Delete("transition", x)
           writes == Gone("rule") \cup Gone("action") \cup Gone("condition") \cup Gone("checklist_item") \cup {own}
<1>1. x \in Stored("transition") /\ Stage(r, writes)
  BY DEF DeleteTransition, HasTransition
<1>2. own.table = "transition" /\ IsChange(own, Schema) /\ Reads(own) /\ IsPlain(own)
  <2>1. "transition" \in DOMAIN Schema /\ ~Schema["transition"].kept
    BY SchemaTables
  <2>2. QED
    BY <1>1, <2>1, Deleted DEF IsPlain
<1>3. ASSUME NEW kind \in Kinds, NEW c \in Gone(kind)
      PROVE  c.table = kind /\ c = Delete(kind, c.key) /\ IsChange(c, Schema) /\ Reads(c) /\ IsPlain(c)
  <2>1. PICK k \in PartsOf(kind, x) : c = Delete(kind, k)
    OBVIOUS
  <2>2. k \in Stored(kind)
    BY DEF PartsOf
  <2>3. c.table = kind /\ c.key = k /\ IsChange(c, Schema) /\ Reads(c) /\ IsPlain(c)
    BY <2>1, <2>2, DeletedPart
  <2>4. QED
    BY <2>1, <2>3
<1>4. ASSUME NEW c \in writes PROVE c = Delete(c.table, c.key) /\ IsChange(c, Schema) /\ Reads(c) /\ IsPlain(c)
  <2>1. CASE c = own
    BY <1>2, <2>1 DEF Delete
  <2>2. CASE \E kind \in Kinds : c \in Gone(kind)
    BY <1>3, <2>2
  <2>3. QED
    BY <2>1, <2>2 DEF Kinds
<1> HIDE DEF writes
<1>5. AreChanges(writes, Schema)
  BY <1>4 DEF AreChanges
<1>6. QED
  BY <1>1, <1>4, <1>5, PlainChanges

LEMMA TransitionRoutesAreSound ==
    ASSUME IInv, NEW r \in Requests, TransitionRoutes(r)
    PROVE  IInv'
<1>1. PICK x \in Transitions :
         \/ \E v \in Flows, from, to \in States : CreateTransition(r, x, v, from, to)
         \/ RenameTransition(r, x) \/ EnableTransition(r, x) \/ DisableTransition(r, x)
         \/ SetAutomatic(r, x) \/ DeleteTransition(r, x)
         \/ \E k \in Parts :
               \/ AddRule(r, k, x) \/ AddAction(r, k, x) \/ AddCondition(r, k, x) \/ AddChecklistItem(r, k, x)
               \/ RemoveRule(r, k) \/ RemoveAction(r, k) \/ RemoveCondition(r, k) \/ RemoveChecklistItem(r, k)
  BY DEF TransitionRoutes
<1>2. ASSUME NEW v \in Flows, NEW from \in States, NEW to \in States, CreateTransition(r, x, v, from, to) PROVE IInv'
  <2> DEFINE row == [flow |-> v, from |-> from, to |-> to, id |-> r]
             c == Insert("transition", x, row)
  <2>1. row \in Transition
    BY DEF Transition, Ids
  <2>2. "transition" \in DOMAIN Schema /\ row \in Schema["transition"].rows /\ x \in Schema["transition"].keys
    BY <2>1, SchemaTables
  <2>3. Stage(r, {c})
    BY <1>2 DEF CreateTransition
  <2> HIDE DEF row
  <2>4. c.table = "transition" /\ IsChange(c, Schema) /\ Reads(c)
    BY <2>2, Inserted
  <2>5. QED
    BY <2>3, <2>4, PlainChange DEF IsPlain
<1>3. CASE RenameTransition(r, x) \/ EnableTransition(r, x) \/ DisableTransition(r, x) \/ SetAutomatic(r, x)
  BY <1>3, Unchanged DEF RenameTransition, EnableTransition, DisableTransition, SetAutomatic, HasTransition
<1>4. ASSUME NEW k \in Parts,
             \/ AddRule(r, k, x) \/ AddAction(r, k, x) \/ AddCondition(r, k, x) \/ AddChecklistItem(r, k, x)
             \/ RemoveRule(r, k) \/ RemoveAction(r, k) \/ RemoveCondition(r, k) \/ RemoveChecklistItem(r, k)
      PROVE  IInv'
  <2>1. \E kind \in Kinds : AddPart(r, kind, k, x) \/ RemovePart(r, kind, k)
    BY <1>4 DEF Kinds, AddRule, AddAction, AddCondition, AddChecklistItem, RemoveRule, RemoveAction, RemoveCondition,
       RemoveChecklistItem
  <2>2. QED
    BY <2>1, AddPartIsSound, RemovePartIsSound
<1>5. QED
  BY <1>1, <1>2, <1>3, <1>4, DeleteTransitionIsSound

LEMMA EnrollIsSound ==
    ASSUME IInv, NEW r \in Requests, NEW v \in Flows, NEW t \in Enrolled, Enroll(r, v, t)
    PROVE  IInv'
<1>1. PICK s \in InitialOf(v) : Stage(r, {Insert("task_state", <<v, t>>, [current |-> s])})
  BY DEF Enroll
<1> DEFINE row == [current |-> s]
           k == <<v, t>>
           c == Insert("task_state", k, row)
<1>2. s \in States
  BY IsTyped, Typed DEF InitialOf, StatesOf
<1>3. "task_state" \in DOMAIN Schema /\ row \in Schema["task_state"].rows /\ k \in Schema["task_state"].keys
  BY <1>2, SchemaTables DEF TaskState
<1>4. Stage(r, {c})
  BY <1>1
<1> HIDE DEF row, k
<1>5. c.table = "task_state" /\ IsChange(c, Schema) /\ Reads(c)
  BY <1>3, Inserted
<1>6. QED
  BY <1>4, <1>5, PlainChange DEF IsPlain

-----------------------------------------------------------------------------
(* What a commit leaves of the columns that are bound to each other.       *)
LEMMA CommitKeepsPairs ==
    ASSUME IInv, NEW r \in Requests, NEW admitted, CommitUnder(r, admitted)
    PROVE  /\ Undisturbed({"status", "archived_at"}, {"status", "archived_at"})' =>
                 \A p \in Stored("project")' : db'["project"][p].archived_at <=> db'["project"][p].status = "archived"
           /\ Undisturbed({"flow_status", "flow_archived_at"}, {"flow_status", "flow_archived_at"})' =>
                 \A v \in Stored("flow")' : db'["flow"][v].flow_archived_at <=> db'["flow"][v].flow_status = "archived"
<1>0. Shared(Schema) /\ ReadsAreCurrent(Schema) /\ CommitTo(r, admitted, Closed)
  BY DEF IInv, CommitUnder
<1>1. HasSchema(db, Schema) /\ HasSchema(db, Schema)'
  BY <1>0, CommitKeepsSchema DEF Shared
<1>2. \A table \in DOMAIN Schema : /\ Stored(table)' = {k \in Schema[table].keys : db'[table][k] # None}
                                   /\ Stored(table) = {k \in Schema[table].keys : db[table][k] # None}
  BY <1>1 DEF HasSchema, Stored, Rows
<1>3. \A c \in req[r].writes : StatusIsJustified(c)
  BY DEF IInv, RequestsAreJustified, AreJustified
<1>4. ASSUME Undisturbed({"status", "archived_at"}, {"status", "archived_at"})', NEW p \in Stored("project")'
      PROVE  db'["project"][p].archived_at <=> db'["project"][p].status = "archived"
  <2> DEFINE A == {"status", "archived_at"}
  <2>1. Undisturbed(A, A) /\ (TouchedBy(r) \cap A = {} \/ req[r].since \cap A = {})
    BY <1>0, <1>4, CommitRaces
  <2>2. "project" \in DOMAIN Schema /\ Schema["project"].kept /\ \A row \in Schema["project"].rows : A \subseteq DOMAIN row
    <3>1. \A row \in Project : A \subseteq DOMAIN row
      BY DEF Project
    <3> HIDE DEF A
    <3>2. QED
      BY <3>1, SchemaTables
  <2>3. p \in Schema["project"].keys /\ db'["project"][p] # None
    BY <1>2, <1>4, <2>2
  <2> HIDE DEF A
  <2>4. \/ db["project"][p] # None /\ \A f \in A : db'["project"][p][f] = db["project"][p][f]
        \/ \E c \in req[r].writes :
              c.table = "project" /\ c.key = p /\ c.new # None /\ \A f \in A : db'["project"][p][f] = c.new[f]
    BY <1>0, <2>1, <2>2, <2>3, CommitColumns
  <2>5. CASE db["project"][p] # None /\ \A f \in A : db'["project"][p][f] = db["project"][p][f]
    BY <1>2, <2>1, <2>2, <2>3, <2>5 DEF A, IInv, ProjectsAreSound
  <2>6. CASE \E c \in req[r].writes : c.table = "project" /\ \A f \in A : db'["project"][p][f] = c.new[f]
    BY <1>3, <2>1, <2>6 DEF A, StatusIsJustified
  <2>7. QED
    BY <2>4, <2>5, <2>6
<1>5. ASSUME Undisturbed({"flow_status", "flow_archived_at"}, {"flow_status", "flow_archived_at"})', NEW v \in Stored("flow")'
      PROVE  db'["flow"][v].flow_archived_at <=> db'["flow"][v].flow_status = "archived"
  <2> DEFINE A == {"flow_status", "flow_archived_at"}
  <2>1. Undisturbed(A, A) /\ (TouchedBy(r) \cap A = {} \/ req[r].since \cap A = {})
    BY <1>0, <1>5, CommitRaces
  <2>2. "flow" \in DOMAIN Schema /\ Schema["flow"].kept /\ \A row \in Schema["flow"].rows : A \subseteq DOMAIN row
    <3>1. \A row \in Flow : A \subseteq DOMAIN row
      BY DEF Flow
    <3> HIDE DEF A
    <3>2. QED
      BY <3>1, SchemaTables
  <2>3. v \in Schema["flow"].keys /\ db'["flow"][v] # None
    BY <1>2, <1>5, <2>2
  <2> HIDE DEF A
  <2>4. \/ db["flow"][v] # None /\ \A f \in A : db'["flow"][v][f] = db["flow"][v][f]
        \/ \E c \in req[r].writes :
              c.table = "flow" /\ c.key = v /\ c.new # None /\ \A f \in A : db'["flow"][v][f] = c.new[f]
    BY <1>0, <2>1, <2>2, <2>3, CommitColumns
  <2>5. CASE db["flow"][v] # None /\ \A f \in A : db'["flow"][v][f] = db["flow"][v][f]
    BY <1>2, <2>1, <2>2, <2>3, <2>5 DEF A, IInv, DesignsAreSound
  <2>6. CASE \E c \in req[r].writes : c.table = "flow" /\ \A f \in A : db'["flow"][v][f] = c.new[f]
    BY <1>3, <2>1, <2>6 DEF A, StatusIsJustified
  <2>7. QED
    BY <2>4, <2>5, <2>6
<1>6. QED
  BY <1>4, <1>5

-----------------------------------------------------------------------------
(* A template that becomes the default was made so by the request.         *)
LEMMA CommitNewDefault ==
    ASSUME IInv, NEW r \in Requests, NEW admitted, CommitUnder(r, admitted), NEW t \in Defaults', t \notin Defaults
    PROVE  /\ t \in Templates /\ "is_default" \in TouchedBy(r)
           /\ \E c \in req[r].writes : c.key = t /\ MakesDefault(c)
<1>0. Shared(Schema) /\ CommitTo(r, admitted, Closed) /\ "template" \in DOMAIN Schema /\ Schema["template"].kept
      /\ Schema["template"].rows = ProjectTemplate /\ Schema["template"].keys = Templates
  BY SchemaTables DEF IInv, CommitUnder
<1> DEFINE row == db["template"][t]
           new == db'["template"][t]
<1>1. t \in Templates /\ new # None /\ ~new.gone /\ new.is_default
  BY DEF Defaults, LiveTemplate
<1>2. new # row
  BY <1>1 DEF Defaults, LiveTemplate
<1>3. PICK c \in req[r].writes : ComesOf(c, "template", t, Schema)
  BY <1>0, <1>1, <1>2, CommitRowBy
<1>4. c.table = "template" /\ c.key = t /\ c.new # None /\ TemplateIsJustified(c)
  BY <1>0, <1>3 DEF ComesOf, IInv, RequestsAreJustified, AreJustified, Shared, WritesTyped, AreChanges, IsChange
<1>5. c.old # None
  BY <1>1, <1>3, <1>4 DEF ComesOf, TemplateIsJustified
<1>6. /\ c.old \in ProjectTemplate /\ c.new \in ProjectTemplate /\ row \in ProjectTemplate /\ new \in ProjectTemplate
      /\ \A f \in {"gone", "is_default"} : new[f] = IF c.new[f] # c.old[f] THEN c.new[f] ELSE row[f]
  <2>1. /\ c.old \in ProjectTemplate /\ c.new \in ProjectTemplate /\ row \in ProjectTemplate /\ new \in ProjectTemplate
        /\ \A f \in DOMAIN c.new : new[f] = IF c.new[f] # c.old[f] THEN c.new[f] ELSE row[f]
    BY <1>0, <1>3, <1>4, <1>5 DEF ComesOf
  <2>2. DOMAIN c.new = {"gone", "is_default"}
    BY <2>1 DEF ProjectTemplate
  <2>3. QED
    BY <2>1, <2>2
<1>7. c.old.gone => c.new.gone
  BY <1>4, <1>5 DEF TemplateIsJustified
<1> HIDE DEF row, new
<1>8. ~row.gone
  BY <1>1, <1>6, <1>7 DEF ProjectTemplate
<1>9. row # None
  BY <1>0, <1>6, NoneIsNoRow
<1>10. ~row.is_default
  BY <1>1, <1>8, <1>9 DEF Defaults, LiveTemplate, row
<1>11. c.new.is_default /\ ~c.old.is_default
  BY <1>1, <1>6, <1>10 DEF ProjectTemplate
<1>12. "is_default" \in Touched(c)
  BY <1>4, <1>5, <1>6, <1>11 DEF Touched, ProjectTemplate
<1>13. QED
  BY <1>1, <1>4, <1>5, <1>11, <1>12 DEF MakesDefault, TouchedBy

LEMMA CommitKeepsOneDefault ==
    ASSUME IInv, NEW r \in Requests, NEW admitted, CommitUnder(r, admitted), Undisturbed({"is_default"}, {"is_default"})',
           NEW d \in Defaults', NEW e \in Defaults'
    PROVE  d = e
<1>0. Shared(Schema) /\ CommitTo(r, admitted, Closed) /\ "template" \in DOMAIN Schema /\ Schema["template"].kept
      /\ Schema["template"].rows = ProjectTemplate /\ Schema["template"].keys = Templates
  BY SchemaTables DEF IInv, CommitUnder
<1>1. Undisturbed({"is_default"}, {"is_default"}) /\ ("is_default" \in TouchedBy(r) => "is_default" \notin req[r].since)
  <2>1. Undisturbed({"is_default"}, {"is_default"})
        /\ (TouchedBy(r) \cap {"is_default"} = {} \/ req[r].since \cap {"is_default"} = {})
    BY <1>0, CommitRaces
  <2>2. QED
    BY <2>1
<1>2. DefaultsAreJustified(req[r].writes, req[r].since)
  BY DEF IInv, RequestsAreJustified, AreJustified
<1>3. CASE d \in Defaults /\ e \in Defaults
  BY <1>1, <1>3 DEF IInv, ProjectsAreSound
<1>4. CASE ~(d \in Defaults /\ e \in Defaults)
  <2>1. PICK n \in {d, e} : n \notin Defaults
    BY <1>4
  <2>2. PICK c \in req[r].writes : MakesDefault(c) /\ "is_default" \in TouchedBy(r)
    BY <2>1, CommitNewDefault
  <2>3. ASSUME NEW t \in Defaults' PROVE t \notin Defaults
    <3>1. SUFFICES ASSUME t \in Defaults PROVE FALSE
      OBVIOUS
    <3>2. PICK u \in req[r].writes : UnmakesDefault(u, t)
      BY <1>1, <1>2, <2>2, <3>1 DEF DefaultsAreJustified
    <3>3. u.table = "template" /\ u.key = t /\ u.old # None /\ ~u.new.is_default /\ u.new # None /\ u.new \in ProjectTemplate
          /\ IsCurrent(u, req[r].since, Schema)
      BY <1>0, <3>2 DEF UnmakesDefault, IInv, ReadsAreCurrent, Shared, WritesTyped, AreChanges, IsChange
    <3>4. "is_default" \in DOMAIN u.new
      BY <3>3 DEF ProjectTemplate
    <3>5. db'["template"][t]["is_default"] = u.new["is_default"]
      BY <1>0, <1>1, <2>2, <3>3, <3>4, CleanColumn
    <3>6. QED
      BY <2>3, <3>3, <3>5 DEF Defaults
  <2>4. PICK f \in req[r].writes : f.key = d /\ MakesDefault(f)
    BY <2>3, CommitNewDefault
  <2>5. PICK g \in req[r].writes : g.key = e /\ MakesDefault(g)
    BY <2>3, CommitNewDefault
  <2>6. QED
    BY <1>2, <2>4, <2>5 DEF DefaultsAreJustified
<1>5. QED
  BY <1>3, <1>4

-----------------------------------------------------------------------------
(* A state keeps its workflow while it is there, and one that becomes      *)
(* initial in a workflow was made so by the request.                       *)
LEMMA CommitState ==
    ASSUME IInv, NEW r \in Requests, NEW admitted, CommitUnder(r, admitted), NEW s \in States
    PROVE  /\ "state" \notin TouchedBy(r) => (db["state"][s] = None <=> db'["state"][s] = None)
           /\ db["state"][s] # None /\ db'["state"][s] # None /\ "state" \notin TouchedBy(r) =>
                 db'["state"][s].flow = db["state"][s].flow
           /\ \A v : db'["state"][s] # None /\ db'["state"][s].flow = v /\ db'["state"][s].initial /\ s \notin InitialOf(v) =>
                 /\ TouchedBy(r) \cap {"state", "initial"} # {}
                 /\ \E c \in req[r].writes :
                       c.key = s /\ MakesInitial(c) /\ ("state" \notin req[r].since => c.new.flow = v)
<1>0. Shared(Schema) /\ CommitTo(r, admitted, Closed) /\ "state" \in DOMAIN Schema
      /\ Schema["state"].rows = State /\ Schema["state"].keys = States
  BY SchemaTables DEF IInv, CommitUnder
<1> DEFINE row == db["state"][s]
           new == db'["state"][s]
<1>1. row \in State \cup {None} /\ (s \in Stored("state") <=> row # None) /\ None \notin State
  BY <1>0, IsTyped, Typed, NoneIsNoRow
<1>2. Leaves(new, row, "state", TouchedBy(r))
  BY <1>0, CommitRow
<1>3. ASSUME new # row, new # None
      PROVE  \E c \in req[r].writes :
                /\ c.table = "state" /\ c.key = s /\ c.new # None /\ c.new \in State /\ StateIsJustified(c, req[r].since)
                /\ c.old = None => row = None /\ new = c.new
                /\ c.old # None =>
                      /\ row # None /\ row \in State /\ c.old \in State /\ c.new.flow = c.old.flow /\ new.flow = row.flow
                      /\ new.initial = IF c.new.initial # c.old.initial THEN c.new.initial ELSE row.initial
  <2>1. PICK c \in req[r].writes : ComesOf(c, "state", s, Schema)
    BY <1>0, <1>3, CommitRowBy
  <2>2. c.table = "state" /\ c.key = s /\ c.new # None /\ StateIsJustified(c, req[r].since)
    BY <1>3, <2>1 DEF ComesOf, IInv, RequestsAreJustified, AreJustified, Shared, WritesTyped, AreChanges, IsChange
  <2>3. CASE c.old = None
    BY <1>0, <2>1, <2>2, <2>3 DEF ComesOf
  <2>4. CASE c.old # None
    <3>1. /\ c.old \in State /\ c.new \in State /\ row \in State
          /\ \A f \in DOMAIN c.new : new[f] = IF c.new[f] # c.old[f] THEN c.new[f] ELSE row[f]
      BY <1>0, <2>1, <2>2, <2>4 DEF ComesOf
    <3>2. {"flow", "initial"} \subseteq DOMAIN c.new
      BY <3>1 DEF State
    <3>3. c.new.flow = c.old.flow
      BY <2>2, <2>4 DEF StateIsJustified
    <3>4. /\ new.flow = IF c.new.flow # c.old.flow THEN c.new.flow ELSE row.flow
          /\ new.initial = IF c.new.initial # c.old.initial THEN c.new.initial ELSE row.initial
      BY <3>1, <3>2
    <3> HIDE DEF row, new
    <3>5. QED
      BY <1>1, <2>2, <2>4, <3>1, <3>3, <3>4
  <2>5. QED
    BY <2>3, <2>4
<1> HIDE DEF new
<1>4. row # None /\ new # None => new.flow = row.flow \/ "state" \in TouchedBy(r)
  <2>1. SUFFICES ASSUME row # None, new # None, new # row PROVE new.flow = row.flow
    OBVIOUS
  <2>2. QED
    BY <1>3, <2>1
<1>5. ASSUME NEW v, new # None, new.flow = v, new.initial, s \notin InitialOf(v)
      PROVE  /\ TouchedBy(r) \cap {"state", "initial"} # {}
             /\ \E c \in req[r].writes :
                   c.key = s /\ MakesInitial(c) /\ ("state" \notin req[r].since => c.new.flow = v)
  <2>1. ~(row # None /\ row.flow = v /\ row.initial)
    BY <1>1, <1>5 DEF InitialOf, StatesOf
  <2>2. new # row
    BY <1>5, <2>1
  <2>3. PICK c \in req[r].writes :
                /\ c.table = "state" /\ c.key = s /\ c.new # None /\ c.new \in State /\ StateIsJustified(c, req[r].since)
                /\ c.old = None => row = None /\ new = c.new
                /\ c.old # None =>
                      /\ row # None /\ row \in State /\ c.old \in State /\ c.new.flow = c.old.flow /\ new.flow = row.flow
                      /\ new.initial = IF c.new.initial # c.old.initial THEN c.new.initial ELSE row.initial
    BY <1>3, <1>5, <2>2
  <2>4. CASE c.old = None
    <3>1. "state" \in Touched(c)
      BY <2>3, <2>4 DEF Touched
    <3>2. QED
      BY <1>5, <2>3, <2>4, <3>1 DEF MakesInitial, TouchedBy
  <2>5. CASE c.old # None
    <3>1. c.new.initial /\ ~c.old.initial
      BY <1>5, <2>1, <2>3, <2>5 DEF State
    <3>2. "initial" \in Touched(c)
      BY <2>3, <2>5, <3>1 DEF Touched, State
    <3>3. "state" \notin req[r].since => c.new.flow = v
      BY <1>5, <2>3, <2>5 DEF StateIsJustified
    <3>4. QED
      BY <2>3, <3>1, <3>2, <3>3 DEF MakesInitial, TouchedBy
  <2>6. QED
    BY <2>4, <2>5
<1>6. QED
  BY <1>2, <1>4, <1>5 DEF Leaves, new

LEMMA CommitNewInitial ==
    ASSUME IInv, NEW r \in Requests, NEW admitted, CommitUnder(r, admitted), NEW v, NEW s \in InitialOf(v)', s \notin InitialOf(v)
    PROVE  /\ TouchedBy(r) \cap {"state", "initial"} # {}
           /\ \E c \in req[r].writes : c.key = s /\ MakesInitial(c) /\ ("state" \notin req[r].since => c.new.flow = v)
<1>1. HasSchema(db, Schema)'
  BY CommitKeepsSchema DEF IInv, CommitUnder
<1>2. s \in States /\ db'["state"][s] # None /\ db'["state"][s].flow = v /\ db'["state"][s].initial
  BY <1>1, SchemaTables DEF HasSchema, InitialOf, StatesOf, Stored, Rows
<1>3. QED
  BY <1>2, CommitState

LEMMA CommitKeepsOneInitial ==
    ASSUME IInv, NEW r \in Requests, NEW admitted, CommitUnder(r, admitted),
           Undisturbed({"state", "initial"}, {"state", "initial"})',
           NEW v \in Flows, NEW d \in InitialOf(v)', NEW e \in InitialOf(v)'
    PROVE  d = e
<1> DEFINE A == {"state", "initial"}
<1>0. Shared(Schema) /\ CommitTo(r, admitted, Closed) /\ "state" \in DOMAIN Schema
      /\ Schema["state"].rows = State /\ Schema["state"].keys = States
  BY SchemaTables DEF IInv, CommitUnder
<1>1. Undisturbed(A, A) /\ (TouchedBy(r) \cap A = {} \/ req[r].since \cap A = {})
  BY <1>0, CommitRaces
<1>2. InitialsAreJustified(req[r].writes, req[r].since)
  BY DEF IInv, RequestsAreJustified, AreJustified
<1>3. CASE d \in InitialOf(v) /\ e \in InitialOf(v)
  BY <1>1, <1>3 DEF IInv, DesignsAreSound
<1>4. CASE ~(d \in InitialOf(v) /\ e \in InitialOf(v))
  <2>1. PICK n \in {d, e} : n \notin InitialOf(v)
    BY <1>4
  <2>2. PICK c \in req[r].writes : MakesInitial(c) /\ ("state" \notin req[r].since => c.new.flow = v)
    BY <2>1, CommitNewInitial
  <2>3. req[r].since \cap A = {}
    BY <1>1, <2>1, CommitNewInitial
  <2>4. c.new.flow = v
    BY <2>2, <2>3
  <2>5. ASSUME NEW s \in InitialOf(v)' PROVE s \notin InitialOf(v)
    <3>1. SUFFICES ASSUME s \in InitialOf(v) PROVE FALSE
      OBVIOUS
    <3>2. PICK u \in req[r].writes : UnmakesInitial(u, s)
      BY <1>2, <2>2, <2>3, <2>4, <3>1 DEF InitialsAreJustified
    <3>3. s \in States /\ db["state"][s] # None
      BY <3>1, IsTyped, Typed DEF InitialOf, StatesOf
    <3>4. db'["state"][s] # None /\ db'["state"][s].initial
      <4>1. HasSchema(db, Schema)'
        BY CommitKeepsSchema DEF IInv, CommitUnder
      <4>2. QED
        BY <2>5, <4>1 DEF HasSchema, InitialOf, StatesOf, Stored, Rows
    <3>5. u.table = "state" /\ u.key = s /\ IsChange(u, Schema) /\ IsCurrent(u, req[r].since, Schema)
      BY <3>2 DEF UnmakesInitial, IInv, ReadsAreCurrent, Shared, WritesTyped, AreChanges
    <3>6. db'["state"][s] = Written(db["state"][s], u) /\ ~Fails(db["state"][s], u)
      BY <1>0, <3>5, CommitWrites
    <3>7. u.old # None
      BY <3>3, <3>6 DEF Fails
    <3>8. CASE u.new = None
      <4>1. SameRow(db["state"][s], u.old)
        BY <2>3, <3>5, <3>7 DEF IsCurrent
      <4>2. QED
        BY <3>4, <3>6, <3>7, <3>8, <4>1 DEF Written
    <3>9. CASE u.new # None
      <4>1. ~u.new.initial
        BY <3>2, <3>9 DEF UnmakesInitial
      <4>0. u.new \in State
        BY <1>0, <3>5, <3>9 DEF IsChange
      <4>2. "initial" \in DOMAIN u.new
        BY <4>0 DEF State
      <4>3. db'["state"][s]["initial"] = u.new["initial"]
        BY <1>0, <2>3, <3>5, <3>7, <3>9, <4>2, CleanColumn
      <4>4. QED
        BY <3>4, <4>1, <4>3
    <3>10. QED
      BY <3>8, <3>9
  <2>6. PICK f \in req[r].writes : f.key = d /\ MakesInitial(f)
    BY <2>5, CommitNewInitial
  <2>7. PICK g \in req[r].writes : g.key = e /\ MakesInitial(g)
    BY <2>5, CommitNewInitial
  <2>8. QED
    BY <1>2, <2>6, <2>7 DEF InitialsAreJustified
<1>5. QED
  BY <1>3, <1>4

-----------------------------------------------------------------------------
(* Owners, when a commit touches no membership, and one of the request.    *)
LEMMA CommitLeavesOwners ==
    ASSUME IInv, NEW r \in Requests, NEW admitted, CommitUnder(r, admitted), TouchedBy(r) \cap {"role", "joined", "member"} = {},
           NEW p \in Projects, NEW u \in Users
    PROVE  IsOwner(p, u)' <=> IsOwner(p, u)
<1> DEFINE k == <<p, u>>
<1>0. Shared(Schema) /\ CommitTo(r, admitted, Closed) /\ "member" \in DOMAIN Schema
      /\ Schema["member"].rows = ProjectMembership /\ Schema["member"].keys = Projects \X Users
  BY SchemaTables DEF IInv, CommitUnder
<1>1. HasSchema(db, Schema) /\ HasSchema(db, Schema)' /\ k \in Projects \X Users
  BY <1>0, CommitKeepsSchema DEF Shared
<1>2. Leaves(db'["member"][k], db["member"][k], "member", TouchedBy(r)) /\ db["member"][k] \in ProjectMembership \cup {None}
  BY <1>0, <1>1, CommitRow DEF HasSchema
<1>3. /\ k \in Stored("member") <=> db["member"][k] # None
      /\ k \in Stored("member")' <=> db'["member"][k] # None
  BY <1>0, <1>1 DEF HasSchema, Stored, Rows
<1>4. db["member"][k] = None <=> db'["member"][k] = None
  BY <1>2 DEF Leaves
<1>5. db["member"][k] # None => db'["member"][k].role = db["member"][k].role /\ db'["member"][k].joined = db["member"][k].joined
  BY <1>2, <1>4 DEF Leaves, ProjectMembership
<1>6. QED
  BY <1>3, <1>4, <1>5 DEF IsOwner

LEMMA CommitKeepsAnOwner ==
    ASSUME IInv, NEW r \in Requests, NEW admitted, CommitUnder(r, admitted)
    PROVE  ProjectsKeepAnOwner'
<1> DEFINE A == {"role", "joined", "member"}
<1>0. /\ Shared(Schema) /\ CommitTo(r, admitted, Closed) /\ {"member", "project"} \subseteq DOMAIN Schema
      /\ Schema["member"].rows = ProjectMembership /\ Schema["member"].keys = Projects \X Users
      /\ Schema["project"].keys = Projects
  BY SchemaTables DEF IInv, CommitUnder
<1>1. HasSchema(db, Schema) /\ HasSchema(db, Schema)'
  BY <1>0, CommitKeepsSchema DEF Shared
<1>2. /\ \A table \in DOMAIN Schema : \A k \in Schema[table].keys :
            /\ k \in Stored(table) <=> db[table][k] # None
            /\ k \in Stored(table)' <=> db'[table][k] # None
      /\ Stored("project")' \subseteq Projects
  BY <1>0, <1>1 DEF HasSchema, Stored, Rows
<1>3. OwnersAreJustified(req[r].writes, req[r].since)
  BY DEF IInv, RequestsAreJustified, AreJustified
<1>4. SUFFICES ASSUME Undisturbed(A, A)', NEW p \in Stored("project")' PROVE \E u \in Users : IsOwner(p, u)'
  BY DEF ProjectsKeepAnOwner
<1>5. Undisturbed(A, A) /\ (TouchedBy(r) \cap A = {} \/ req[r].since \cap A = {}) /\ p \in Projects
  BY <1>0, <1>2, <1>4, CommitRaces
<1>6. CASE p \notin Stored("project")
  <2>1. PICK c \in req[r].writes : ComesOf(c, "project", p, Schema)
    BY <1>0, <1>2, <1>4, <1>5, <1>6, CommitRowBy
  <2>2. c.table = "project" /\ c.key = p /\ c.old = None
    <3>1. ~SameRow(db["project"][p], c.old)
      BY <1>0, <1>2, <1>5, <1>6 DEF SameRow
    <3>2. db'["project"][p] # None
      BY <1>0, <1>2, <1>4, <1>5
    <3>3. QED
      BY <2>1, <3>1, <3>2 DEF ComesOf
  <2>3. PICK u \in Users, e \in req[r].writes : Gives(e, p, u)
    BY <1>3, <2>2 DEF OwnersAreJustified
  <2>4. e.table = "member" /\ e.key = <<p, u>> /\ e.old = None /\ e.new # None /\ e.new.role = "owner" /\ e.new.joined
    BY <2>3 DEF Gives
  <2>5. db'["member"][<<p, u>>] = e.new
    BY <1>0, <2>4, CommitWrites DEF Written
  <2>6. <<p, u>> \in Schema["member"].keys
    BY <1>0, <1>5
  <2>7. <<p, u>> \in Stored("member")'
    BY <1>0, <1>2, <2>4, <2>5, <2>6
  <2>8. QED
    BY <2>4, <2>5, <2>7 DEF IsOwner
<1>7. CASE p \in Stored("project")
  <2>1. PICK v \in Users : IsOwner(p, v)
    BY <1>5, <1>7 DEF IInv, ProjectsKeepAnOwner
  <2>2. CASE TouchedBy(r) \cap A = {}
    BY <1>5, <2>1, <2>2, CommitLeavesOwners
  <2>3. CASE req[r].since \cap A = {}
    <3>1. PICK u \in Users : IsOwner(p, u) /\ \A c \in req[r].writes : ~Takes(c, p, u)
      BY <1>3, <1>5, <2>1, <2>3 DEF OwnersAreJustified
    <3> DEFINE k == <<p, u>>
               row == db["member"][k]
               new == db'["member"][k]
    <3>2. k \in Schema["member"].keys /\ k \in Stored("member") /\ row # None /\ row.role = "owner" /\ row.joined
      BY <1>0, <1>2, <1>5, <3>1 DEF IsOwner
    <3>3. new # None /\ new.role = "owner" /\ new.joined
      <4>1. CASE new = row
        BY <3>2, <4>1
      <4>2. CASE new # row
        <5>1. PICK c \in req[r].writes : ComesOf(c, "member", k, Schema)
          BY <1>0, <3>2, <4>2, CommitRowBy
        <5>2. c.new # None /\ c.new.role = "owner" /\ c.new.joined /\ c.old # None
          BY <3>1, <3>2, <5>1 DEF ComesOf, Takes
        <5>3. /\ c.old \in ProjectMembership /\ c.new \in ProjectMembership /\ row \in ProjectMembership /\ new \in ProjectMembership
              /\ \A f \in DOMAIN c.new : new[f] = IF c.new[f] # c.old[f] THEN c.new[f] ELSE row[f]
          BY <1>0, <5>1, <5>2 DEF ComesOf
        <5>4. {"role", "joined"} \subseteq DOMAIN c.new
          BY <5>3 DEF ProjectMembership
        <5>5. /\ new.role = IF c.new.role # c.old.role THEN c.new.role ELSE row.role
              /\ new.joined = IF c.new.joined # c.old.joined THEN c.new.joined ELSE row.joined
          BY <5>3, <5>4
        <5> HIDE DEF new, row
        <5>6. new # None
          BY <1>0, <5>3, NoneIsNoRow
        <5>7. QED
          BY <3>2, <5>2, <5>5, <5>6
      <4>3. QED
        BY <4>1, <4>2
    <3>4. k \in Stored("member")'
      BY <1>0, <1>2, <3>2, <3>3
    <3>5. IsOwner(p, u)'
      BY <3>3, <3>4 DEF IsOwner
    <3>6. QED
      BY <3>5
  <2>4. QED
    BY <1>5, <2>2, <2>3
<1>8. QED
  BY <1>6, <1>7

-----------------------------------------------------------------------------
(* What the other requests know, they still know.                          *)
LEMMA CommitKeepsJustified ==
    ASSUME IInv, NEW r \in Requests, NEW admitted, CommitUnder(r, admitted),
           NEW writes, NEW since, NEW later, later = since \cup TouchedBy(r), AreJustified(writes, since),
           AreChanges(writes, Schema)
    PROVE  AreJustified(writes, later)'
<1>0. Shared(Schema) /\ CommitTo(r, admitted, Closed) /\ Schema["state"].keys = States
  BY SchemaTables DEF IInv, CommitUnder
<1>1. \A A, B : Undisturbed(A, B)' => Undisturbed(A, B)
  BY <1>0, CommitRaces
<1>2. \A c \in writes : StatusIsJustified(c)' /\ TemplateIsJustified(c)'
  BY <1>1 DEF AreJustified, StatusIsJustified, TemplateIsJustified
<1>3. ASSUME NEW c \in writes PROVE StateIsJustified(c, later)'
  <2>1. SUFFICES ASSUME c.table = "state", c.old # None, c.new # None
                 PROVE  c.new.flow = c.old.flow /\ ("state" \notin later => db'["state"][c.key].flow = c.old.flow)
    BY DEF StateIsJustified
  <2>2. c.new.flow = c.old.flow /\ ("state" \notin since => db["state"][c.key].flow = c.old.flow)
    BY <2>1 DEF AreJustified, StateIsJustified
  <2>3. c.key \in States
    BY <1>0, <2>1 DEF AreChanges, IsChange
  <2>4. "state" \notin later => db'["state"][c.key].flow = db["state"][c.key].flow
    <3>1. SUFFICES ASSUME "state" \notin TouchedBy(r) PROVE db'["state"][c.key].flow = db["state"][c.key].flow
      OBVIOUS
    <3>2. CASE db["state"][c.key] = None
      <4>1. db'["state"][c.key] = db["state"][c.key]
        BY <2>3, <3>1, <3>2, CommitState
      <4>2. QED
        BY <4>1
    <3>3. CASE db["state"][c.key] # None
      BY <2>3, <3>1, <3>3, CommitState
    <3>4. QED
      BY <3>2, <3>3
  <2>5. QED
    BY <2>2, <2>4
<1>4. DefaultsAreJustified(writes, later)'
  <2>1. DefaultsAreJustified(writes, since)
    BY DEF AreJustified
  <2>2. "is_default" \notin later => \A t \in Defaults' : t \in Defaults
    BY CommitNewDefault
  <2>3. QED
    BY <2>1, <2>2 DEF DefaultsAreJustified
<1>5. InitialsAreJustified(writes, later)'
  <2>1. InitialsAreJustified(writes, since)
    BY DEF AreJustified
  <2>2. later \cap {"state", "initial"} = {} =>
           /\ since \cap {"state", "initial"} = {}
           /\ \A v : \A s \in InitialOf(v)' : s \in InitialOf(v)
    BY CommitNewInitial
  <2>3. QED
    BY <2>1, <2>2 DEF InitialsAreJustified
<1>6. OwnersAreJustified(writes, later)'
  <2>1. OwnersAreJustified(writes, since)
    BY DEF AreJustified
  <2>2. later \cap {"role", "joined", "member"} = {} =>
           /\ since \cap {"role", "joined", "member"} = {}
           /\ \A p \in Projects, u \in Users : IsOwner(p, u)' <=> IsOwner(p, u)
    BY CommitLeavesOwners
  <2>3. QED
    BY <2>1, <2>2 DEF OwnersAreJustified
<1>7. QED
  BY <1>2, <1>3, <1>4, <1>5, <1>6 DEF AreJustified

LEMMA Committing ==
    ASSUME IInv, NEW r \in Requests, CommitUnder(r, Constraints(Outcome(r)))
    PROVE  IInv'
<1>0. PICK admitted \in BOOLEAN : admitted <=> Constraints(Outcome(r))
  OBVIOUS
<1>1. Shared(Schema) /\ ReadsAreCurrent(Schema) /\ RequestsAreSound /\ CommitUnder(r, admitted)
  BY <1>0 DEF IInv, ProjectsAreSound, CommitUnder, CommitTo
<1>2. Constraints(db)'
  BY DEF CommitUnder, CommitTo, Constraints, ProjectConstraints, Rows
<1>3. /\ Shared(Schema)' /\ ReadsAreCurrent(Schema)' /\ RequestsAreSound'
      /\ req'[r].writes = {}
      /\ \A s \in Requests \ {r} :
            /\ req'[s].writes = req[s].writes
            /\ req[s].writes # {} => req'[s].since = req[s].since \cup TouchedBy(r)
  BY <1>1, CommitKeepsRequests
<1>4. ProjectsAreSound'
  <2>1. ProjectConstraints(db)'
    BY <1>2 DEF Constraints
  <2>2. QED
    BY <1>1, <1>3, <2>1, CommitKeepsPairs, CommitKeepsOneDefault DEF ProjectsAreSound
<1>5. ProjectsKeepAnOwner'
  BY <1>1, CommitKeepsAnOwner
<1>6. DesignsAreSound'
  BY <1>1, <1>2, <1>3, CommitKeepsPairs, CommitKeepsOneInitial DEF DesignsAreSound, Shared
<1>7. RequestsAreJustified'
  <2>1. ASSUME NEW s \in Requests, NEW writes, writes = req'[s].writes, NEW later, later = req'[s].since
        PROVE  AreJustified(writes, later)'
    <3>1. CASE writes = {}
      BY <3>1 DEF AreJustified, DefaultsAreJustified, InitialsAreJustified, OwnersAreJustified
    <3>2. CASE writes # {}
      <4>1. s # r /\ writes = req[s].writes /\ later = req[s].since \cup TouchedBy(r)
        BY <1>3, <2>1, <3>2
      <4>2. AreJustified(writes, req[s].since) /\ AreChanges(writes, Schema)
        BY <4>1 DEF IInv, RequestsAreJustified, Shared, WritesTyped
      <4>3. QED
        BY <1>1, <4>1, <4>2, CommitKeepsJustified
    <3>3. QED
      BY <3>1, <3>2
  <2>2. QED
    BY <2>1 DEF RequestsAreJustified
<1>8. QED
  BY <1>3, <1>4, <1>5, <1>6, <1>7 DEF IInv

LEMMA Stuttering ==
    ASSUME IInv, UNCHANGED txns
    PROVE  IInv'
<1>0. db' = db /\ req' = req /\ raced' = raced
  BY DEF txns
<1>1. CASE \E r \in Requests : TRUE
  <2>1. PICK r \in Requests : TRUE
    BY <1>1
  <2>2. Only(r) /\ req'[r] = req[r]
    BY <1>0 DEF Only, IInv, Shared, RequestsTyped
  <2>3. Shared(Schema)' /\ ReadsAreCurrent(Schema)' /\ RequestsAreSound'
    BY <1>0 DEF IInv, ProjectsAreSound, Shared, HasSchema, RequestsTyped, WritesTyped, ReadsAreCurrent, IsCurrent,
       RequestsAreSound
  <2>4. AreJustified(req[r].writes, req[r].since)
    BY DEF IInv, RequestsAreJustified
  <2>5. QED
    BY <2>2, <2>3, <2>4, OneRequest
<1>2. CASE ~\E r \in Requests : TRUE
  <2>1. Shared(Schema)'
    BY <1>0, <1>2 DEF IInv, Shared, HasSchema, RequestsTyped, WritesTyped
  <2>2. ProjectsAreSound'
    BY <1>0, <1>2 DEF IInv, ProjectsAreSound, RequestsAreSound, ProjectConstraints, Defaults, LiveTemplate, Stored, Rows, Undisturbed
  <2>3. ProjectsKeepAnOwner'
    BY <1>0 DEF IInv, ProjectsKeepAnOwner, IsOwner, Stored, Rows, Undisturbed
  <2>4. DesignsAreSound'
    <3>1. HasSchema(db, Schema)'
      BY <2>1 DEF Shared
    <3>2. Constraints(db)'
      BY <1>0 DEF IInv, DesignsAreSound, Constraints, ProjectConstraints, Rows
    <3>3. QED
      BY <1>0, <3>1, <3>2 DEF IInv, DesignsAreSound, InitialOf, StatesOf, Stored, Rows, Undisturbed
  <2>5. (ReadsAreCurrent(Schema) /\ RequestsAreJustified)'
    BY <1>2 DEF ReadsAreCurrent, RequestsAreJustified
  <2>6. QED
    BY <2>1, <2>2, <2>3, <2>4, <2>5 DEF IInv
<1>3. QED
  BY <1>1, <1>2

-----------------------------------------------------------------------------
(* The inductive invariant of the projects and of their workflows: it      *)
(* holds in every sound start, and no route, no reload, no commit and no   *)
(* abort breaks it, whatever overlaps.                                     *)
THEOREM ProjectSpaceInductive == Spec => []IInv
<1>1. ASSUME IInv, [Next]_txns PROVE IInv'
  <2>1. CASE UNCHANGED txns
    BY <1>1, <2>1, Stuttering
  <2>2. ASSUME NEW r \in Requests,
               \/ WorkspaceRoutes(r) \/ ProjectRoutes(r) \/ MembershipRoutes(r) \/ TemplateRoutes(r)
               \/ WorkflowRoutes(r) \/ StateRoutes(r) \/ TransitionRoutes(r)
        PROVE  IInv'
    BY <1>1, <2>2, WorkspaceRoutesAreSound, ProjectRoutesAreSound, MembershipRoutesAreSound, TemplateRoutesAreSound,
       WorkflowRoutesAreSound, StateRoutesAreSound, TransitionRoutesAreSound
  <2>3. ASSUME NEW r \in Requests,
               \/ \E v \in Flows, t \in Enrolled : Enroll(r, v, t)
               \/ Reload(r, {"member"}) \/ CommitUnder(r, Constraints(Outcome(r))) \/ Abort(r)
        PROVE  IInv'
    BY <1>1, <2>3, EnrollIsSound, Reloading, Committing, Aborting
  <2>4. QED
    BY <1>1, <2>1, <2>2, <2>3 DEF Next
<1>2. QED
  BY <1>1, StartIsSound, PTL DEF Spec

(* Project and template rows: the date of archiving goes with the status   *)
(* (Project.change_status) and an organization has one default template at *)
(* most (set_default), unless requests that write the same columns         *)
(* overlapped; what the database constrains holds always.                  *)
THEOREM ProjectsStaySound == Spec => []ProjectsAreSound
<1>1. IInv => ProjectsAreSound
  BY DEF IInv
<1>2. QED
  BY <1>1, ProjectSpaceInductive, PTL

(* A project keeps an owner (remove_member and change_member_role count    *)
(* the owners), unless changes of its memberships overlapped.              *)
THEOREM ProjectsAlwaysKeepAnOwner == Spec => []ProjectsKeepAnOwner
<1>1. IInv => ProjectsKeepAnOwner
  BY DEF IInv
<1>2. QED
  BY <1>1, ProjectSpaceInductive, PTL

(* Workflows, their states and transitions: the tables have their types    *)
(* and constraints, the date of archiving goes with the status, and a      *)
(* workflow has one initial state at most (_clear_existing_initial),       *)
(* unless requests that write the same columns overlapped.                 *)
THEOREM DesignsStaySound == Spec => []DesignsAreSound
<1>1. IInv => DesignsAreSound
  BY DEF IInv
<1>2. QED
  BY <1>1, ProjectSpaceInductive, PTL
=============================================================================
