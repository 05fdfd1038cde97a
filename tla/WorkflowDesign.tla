---------------------------- MODULE WorkflowDesign ----------------------------
(***************************************************************************)
(* The design of workflows in the workflow engine - workflows of a         *)
(* project, their states and transitions, what hangs on a transition       *)
(* (rules, actions, conditions, checklist items) and the enrolment of      *)
(* tasks - together with the projects context it asks for its projects.    *)
(* Names of workflows and transitions, positions, flags of a state other   *)
(* than the initial one, and the contents of rules are read by no guard    *)
(* here: the calls that write them only touch the row.                     *)
(***************************************************************************)
EXTENDS Projects

CONSTANTS
    Flows, States, Transitions, Parts,   \* ids
    StateNames,
    Enrolled                             \* tasks that may be enrolled

Flow == [project : Projects, flow_status : {"active", "archived"}, flow_archived_at : BOOLEAN,
         flow_deleted : BOOLEAN]
State == [flow : Flows, state_name : StateNames, initial : BOOLEAN, id : Ids]
Transition == [flow : Flows, from : States, to : States, id : Ids]
Rule == [transition : Transitions, id : Ids]
Action == Rule
Condition == Rule
ChecklistItem == Rule
TaskState == [current : States]

Kinds == {"rule", "action", "condition", "checklist_item"}

Schema ==
    [workspace        |-> Table(Workspaces, Workspace),
     workspace_member |-> Volatile(Workspaces \X Users, WorkspaceMembership),
     project          |-> Table(Projects, Project),
     member           |-> Volatile(Projects \X Users, ProjectMembership),
     template         |-> Table(Templates, ProjectTemplate),
     flow             |-> Table(Flows, Flow),
     state            |-> Volatile(States, State),
     transition       |-> Volatile(Transitions, Transition),
     rule             |-> Volatile(Parts, Rule),
     action           |-> Volatile(Parts, Action),
     condition        |-> Volatile(Parts, Condition),
     checklist_item   |-> Volatile(Parts, ChecklistItem),
     task_state       |-> Table(Flows \X Enrolled, TaskState)]

ASSUME NoneAssumption == None \notin UNION {Schema[table].rows : table \in DOMAIN Schema}

(* Foreign keys and the unique names of a workflow's states.  The project  *)
(* of a workflow is in another schema and held by nothing.                 *)
Constraints(d) ==
    /\ ProjectConstraints(d)
    /\ \A s \in Rows(d, "state") : d.state[s].flow \in Rows(d, "flow")
    /\ \A s, t \in Rows(d, "state") :
          s # t /\ d.state[s].flow = d.state[t].flow => d.state[s].state_name # d.state[t].state_name
    /\ \A x \in Rows(d, "transition") :
          d.transition[x].flow \in Rows(d, "flow") /\ {d.transition[x].from, d.transition[x].to} \subseteq Rows(d, "state")
    /\ \A kind \in Kinds : \A k \in Rows(d, kind) : d[kind][k].transition \in Rows(d, "transition")
    /\ \A k \in Rows(d, "task_state") : d.task_state[k].current \in Rows(d, "state")

-----------------------------------------------------------------------------
(* What the repositories read.                                             *)

LiveFlow(v) == db.flow[v] # None /\ ~db.flow[v].flow_deleted
StatesOf(v) == {s \in Stored("state") : db.state[s].flow = v}
StateNamed(v, n) == {s \in StatesOf(v) : db.state[s].state_name = n}
InitialOf(v) == {s \in StatesOf(v) : db.state[s].initial}
ReferencesState(s) == {x \in Stored("transition") : s \in {db.transition[x].from, db.transition[x].to}}
PartsOf(kind, x) == {k \in Stored(kind) : db[kind][k].transition = x}

(* A state and a transition are reached with their workflow.               *)
HasState(s) == s \in Stored("state") /\ LiveFlow(db.state[s].flow)
HasTransition(x) == x \in Stored("transition") /\ LiveFlow(db.transition[x].flow)

-----------------------------------------------------------------------------
(* Workflows.                                                              *)

NewFlow(p) == [project |-> p, flow_status |-> "active", flow_archived_at |-> FALSE, flow_deleted |-> FALSE]

(* assert_project_accessible: by way of the projects context.              *)
CreateWorkflow(r, v, p) ==
    LiveProject(p) /\ IsNew("flow", v) /\ Stage(r, {Insert("flow", v, NewFlow(p))})

UpdateWorkflow(r, v) == LiveFlow(v) /\ Save(r, "flow", v, db.flow[v])

ArchiveWorkflow(r, v) ==
    /\ LiveFlow(v) /\ db.flow[v].flow_status = "active"
    /\ Save(r, "flow", v, [db.flow[v] EXCEPT !.flow_status = "archived", !.flow_archived_at = TRUE])

RestoreWorkflow(r, v) ==
    /\ LiveFlow(v) /\ db.flow[v].flow_status = "archived"
    /\ Save(r, "flow", v, [db.flow[v] EXCEPT !.flow_status = "active", !.flow_archived_at = FALSE])

DeleteWorkflow(r, v) == LiveFlow(v) /\ Save(r, "flow", v, [db.flow[v] EXCEPT !.flow_deleted = TRUE])

-----------------------------------------------------------------------------
(* States.                                                                 *)

MarkInitial(s, initial) == Update("state", s, [db.state[s] EXCEPT !.initial = initial])

(* _clear_existing_initial *)
ClearInitial(v) == {MarkInitial(s, FALSE) : s \in InitialOf(v)}

NewState(r, v, n, initial) == [flow |-> v, state_name |-> n, initial |-> initial, id |-> r]

CreateState(r, s, v, n, initial) ==
    /\ LiveFlow(v) /\ StateNamed(v, n) = {} /\ IsNew("state", s)
    /\ Stage(r, (IF initial THEN ClearInitial(v) ELSE {}) \cup {Insert("state", s, NewState(r, v, n, initial))})

RenameState(r, s, n) ==
    /\ HasState(s) /\ StateNamed(db.state[s].flow, n) = {}
    /\ Save(r, "state", s, [db.state[s] EXCEPT !.state_name = n])

SetInitial_KeepsOther(r, s) ==
    HasState(s) /\ ~db.state[s].initial /\ Stage(r, {MarkInitial(s, TRUE)})

(* A state that is initial already is cleared with the others, and its own *)
(* update then finds a row whose version has moved on: a conflict, always. *)
SetInitial(r, s) ==
    HasState(s) /\ ~db.state[s].initial /\ Stage(r, ClearInitial(db.state[s].flow) \cup {MarkInitial(s, TRUE)})

SetFinal(r, s) == HasState(s) /\ Save(r, "state", s, db.state[s])
SetHidden(r, s) == HasState(s) /\ Save(r, "state", s, db.state[s])
SetStateArchived(r, s) == HasState(s) /\ Save(r, "state", s, db.state[s])
SetMappedTaskStatus(r, s) == HasState(s) /\ Save(r, "state", s, db.state[s])
ReorderState(r, s) == HasState(s) /\ Save(r, "state", s, db.state[s])

(* An enrolled task in the state is not asked for: it holds the row.       *)
DeleteState(r, s) == HasState(s) /\ ReferencesState(s) = {} /\ Stage(r, {Delete("state", s)})

-----------------------------------------------------------------------------
(* Transitions and their parts.                                            *)

(* The two states may be of another workflow.                              *)
CreateTransition(r, x, v, from, to) ==
    /\ LiveFlow(v) /\ {from, to} \subseteq Stored("state") /\ IsNew("transition", x)
    /\ Stage(r, {Insert("transition", x, [flow |-> v, from |-> from, to |-> to, id |-> r])})

RenameTransition(r, x) == HasTransition(x) /\ Save(r, "transition", x, db.transition[x])
EnableTransition(r, x) == HasTransition(x) /\ Save(r, "transition", x, db.transition[x])
DisableTransition(r, x) == HasTransition(x) /\ Save(r, "transition", x, db.transition[x])
SetAutomatic(r, x) == HasTransition(x) /\ Save(r, "transition", x, db.transition[x])

(* With the parts it sees; a part that is added meanwhile holds the row.   *)
DeleteTransition(r, x) ==
    LET Gone(kind) == {Delete(kind, k) : k \in PartsOf(kind, x)}
    IN  /\ HasTransition(x)
        /\ Stage(r, Gone("rule") \cup Gone("action") \cup Gone("condition") \cup Gone("checklist_item")
                    \cup {Delete("transition", x)})

AddPart(r, kind, k, x) ==
    /\ HasTransition(x) /\ IsNew(kind, k)
    /\ Stage(r, {Insert(kind, k, [transition |-> x, id |-> r])})

RemovePart(r, kind, k) ==
    k \in Stored(kind) /\ HasTransition(db[kind][k].transition) /\ Stage(r, {Delete(kind, k)})

AddRule(r, k, x) == AddPart(r, "rule", k, x)
RemoveRule(r, k) == RemovePart(r, "rule", k)
AddAction(r, k, x) == AddPart(r, "action", k, x)
RemoveAction(r, k) == RemovePart(r, "action", k)
AddCondition(r, k, x) == AddPart(r, "condition", k, x)
RemoveCondition(r, k) == RemovePart(r, "condition", k)
AddChecklistItem(r, k, x) == AddPart(r, "checklist_item", k, x)
RemoveChecklistItem(r, k) == RemovePart(r, "checklist_item", k)

-----------------------------------------------------------------------------
(* enroll_task: with two initial states the lookup of the one fails.       *)
Enroll(r, v, t) ==
    /\ LiveFlow(v) /\ db.flow[v].flow_status = "active" /\ <<v, t>> \notin Stored("task_state")
    /\ \E s \in InitialOf(v) :
          InitialOf(v) = {s} /\ Stage(r, {Insert("task_state", <<v, t>>, [current |-> s])})

-----------------------------------------------------------------------------
(* The routes, by router.                                                  *)

WorkflowRoutes(r) ==
    \E v \in Flows :
       \/ \E p \in Projects : CreateWorkflow(r, v, p)
       \/ UpdateWorkflow(r, v) \/ ArchiveWorkflow(r, v) \/ RestoreWorkflow(r, v) \/ DeleteWorkflow(r, v)

StateRoutes(r) ==
    \E s \in States :
       \/ \E n \in StateNames :
             \/ RenameState(r, s, n)
             \/ \E v \in Flows, initial \in BOOLEAN : CreateState(r, s, v, n, initial)
       \/ SetInitial(r, s) \/ SetFinal(r, s) \/ SetHidden(r, s) \/ SetStateArchived(r, s)
       \/ SetMappedTaskStatus(r, s) \/ ReorderState(r, s) \/ DeleteState(r, s)

TransitionRoutes(r) ==
    \E x \in Transitions :
       \/ \E v \in Flows, from, to \in States : CreateTransition(r, x, v, from, to)
       \/ RenameTransition(r, x) \/ EnableTransition(r, x) \/ DisableTransition(r, x)
       \/ SetAutomatic(r, x) \/ DeleteTransition(r, x)
       \/ \E k \in Parts :
             \/ AddRule(r, k, x) \/ AddAction(r, k, x) \/ AddCondition(r, k, x) \/ AddChecklistItem(r, k, x)
             \/ RemoveRule(r, k) \/ RemoveAction(r, k) \/ RemoveCondition(r, k) \/ RemoveChecklistItem(r, k)

Next ==
    \E r \in Requests :
       \/ WorkspaceRoutes(r) \/ ProjectRoutes(r) \/ MembershipRoutes(r) \/ TemplateRoutes(r)
       \/ WorkflowRoutes(r) \/ StateRoutes(r) \/ TransitionRoutes(r)
       \/ \E v \in Flows, t \in Enrolled : Enroll(r, v, t)
       \/ Reload(r, {"member"}) \/ CommitUnder(r, Constraints(Outcome(r))) \/ Abort(r)

-----------------------------------------------------------------------------
(* Properties.  The operators named X_Y are changed forms of X, each as a  *)
(* bug in that code would change it: the runs tell them from X.            *)

(* The types and the constraints; a workflow has the date of its archiving *)
(* exactly while it is archived and one initial state at most, without     *)
(* which nobody could enrol (get_initial expects one row): unless requests *)
(* that change the same columns overlapped.                                *)
DesignsAreSound ==
    /\ HasSchema(db, Schema) /\ Constraints(db)
    /\ Undisturbed({"flow_status", "flow_archived_at"}, {"flow_status", "flow_archived_at"}) =>
          \A v \in Stored("flow") : db.flow[v].flow_archived_at <=> db.flow[v].flow_status = "archived"
    /\ Undisturbed({"state", "initial"}, {"state", "initial"}) =>
          \A v \in Flows : \A s, t \in InitialOf(v) : s = t

-----------------------------------------------------------------------------
(* From any sound database, whatever overlapped before.                    *)
Start ==
    /\ req = [r \in Requests |-> Fresh]
    /\ ProjectsAreSound /\ ProjectsKeepAnOwner /\ DesignsAreSound

Spec == Start /\ [][Next]_txns

=============================================================================
