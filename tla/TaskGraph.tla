------------------------------- MODULE TaskGraph -------------------------------
(***************************************************************************)
(* The tasks context: the status of a task under its project's workflow,   *)
(* dates, archive and soft delete, the hierarchy and the dependencies of   *)
(* tasks, related tasks, assignments and labels, each changed by requests  *)
(* that overlap.  Title, description, priority and position are columns    *)
(* that no guard reads: the calls that write them only touch the row.      *)
(***************************************************************************)
EXTENDS Transactions, Integers

CONSTANTS
    Tasks,       \* ids of tasks
    Users,       \* active members of the project
    Labels,      \* ids of labels
    Names,       \* names of labels
    Days,        \* dates
    Workflows    \* transition tables a project may choose

Statuses == {"backlog", "todo", "in_progress", "review", "testing", "blocked", "done", "cancelled"}

DefaultWorkflow ==
    [s \in Statuses |->
        CASE s = "backlog"     -> {"todo", "cancelled"}
          [] s = "todo"        -> {"in_progress", "backlog", "cancelled"}
          [] s = "in_progress" -> {"review", "blocked", "todo", "cancelled"}
          [] s = "review"      -> {"testing", "in_progress", "blocked"}
          [] s = "testing"     -> {"done", "in_progress", "blocked"}
          [] s = "blocked"     -> {"in_progress", "todo", "cancelled"}
          [] s = "done"        -> {"in_progress"}
          [] s = "cancelled"   -> {"backlog", "todo"}]

ASSUME DaysAssumption == Days \subseteq Int
ASSUME WorkflowsAssumption == Workflows \subseteq [Statuses -> SUBSET Statuses]

(* The tables.                                                             *)
Task == [status : Statuses, completed : BOOLEAN, parent : Tasks \cup {None},
         start : Days \cup {None}, due : Days \cup {None}, archived : BOOLEAN, deleted : BOOLEAN]
Assignment == [primary : BOOLEAN, id : Requests \cup {None}]
Link == [id : Requests \cup {None}]
Label == [name : Names, id : Requests \cup {None}]
ProjectWorkflow == [transitions : Workflows]

Schema ==
    [task       |-> Table(Tasks, Task),
     assignment |-> Volatile(Tasks \X Users, Assignment),
     label      |-> Volatile(Labels, Label),
     labelled   |-> Volatile(Tasks \X Labels, Link),
     dependency |-> Volatile(Tasks \X Tasks, Link),
     relation   |-> Volatile(Tasks \X Tasks, Link),
     workflow   |-> Table({"project"}, ProjectWorkflow)]

(* The walk of set_parent or of add_dependency.                            *)
Walk == [kind : {"parent", "dependency"}, task : Tasks, target : Tasks \cup {None}, row : Task \cup {None},
         frontier : SUBSET Tasks, visited : SUBSET Tasks]

ASSUME NoneAssumption == None \notin Tasks \cup Walk \cup UNION {Schema[table].rows : table \in DOMAIN Schema}

(* The foreign keys, unique names and checks of the schema; the unique     *)
(* pairs are the keys of their tables.                                     *)
Constraints(d) ==
    /\ \A t \in Rows(d, "task") : d.task[t].parent # None => d.task[t].parent \in Rows(d, "task")
    /\ \A k \in Rows(d, "assignment") : k[1] \in Rows(d, "task")
    /\ \A k \in Rows(d, "labelled") : k[1] \in Rows(d, "task") /\ k[2] \in Rows(d, "label")
    /\ \A k \in Rows(d, "dependency") \cup Rows(d, "relation") :
          k[1] \in Rows(d, "task") /\ k[2] \in Rows(d, "task") /\ k[1] # k[2]
    /\ \A l, m \in Rows(d, "label") : l # m => d.label[l].name # d.label[m].name

-----------------------------------------------------------------------------
(* What the repositories read.                                             *)

Live(t) == db.task[t] # None /\ ~db.task[t].deleted
AssigneesOf(t) == {u \in Users : <<t, u>> \in Stored("assignment")}
PrimariesOf(t) == {u \in AssigneesOf(t) : db.assignment[<<t, u>>].primary}
DependenciesOf(t) == {d \in Tasks : <<t, d>> \in Stored("dependency")}
LabelNamed(n) == {l \in Stored("label") : db.label[l].name = n}

(* resolve_workflow_for_project, is_valid_transition.                      *)
Workflow == IF db.workflow["project"] = None THEN DefaultWorkflow ELSE db.workflow["project"].transitions
IsValidTransition(from, to) == from = to \/ to \in Workflow[from]

-----------------------------------------------------------------------------
(* Tasks and their life.                                                   *)

(* _assert_date_order *)
InOrder(start, due) == None \notin {start, due} => start <= due

NewTask(parent, start, due) ==
    [status |-> "backlog", completed |-> FALSE, parent |-> parent, start |-> start, due |-> due,
     archived |-> FALSE, deleted |-> FALSE]

(* The parent of a new task is not looked up: the foreign key holds it.    *)
CreateTask(r, t, parent) ==
    /\ IsNew("task", t)
    /\ \E start, due \in Days \cup {None} :
          InOrder(start, due) /\ Stage(r, {Insert("task", t, NewTask(parent, start, due))})

DuplicateFrom(s) == NewTask(db.task[s].parent, None, None)

Duplicate(r, t, source) ==
    /\ Live(source) /\ IsNew("task", t)
    /\ Stage(r, {Insert("task", t, DuplicateFrom(source))})

UpdateTask(r, t) == Live(t) /\ Save(r, "task", t, db.task[t])
ChangePriority(r, t) == Live(t) /\ Save(r, "task", t, db.task[t])
MoveTask(r, t) == Live(t) /\ Save(r, "task", t, db.task[t])

ArchiveTask(r, t) ==
    /\ Live(t) /\ ~db.task[t].archived
    /\ Save(r, "task", t, [db.task[t] EXCEPT !.archived = TRUE])

RestoreTask(r, t) ==
    /\ Live(t) /\ db.task[t].archived
    /\ Save(r, "task", t, [db.task[t] EXCEPT !.archived = FALSE])

DeleteTask(r, t) == Live(t) /\ Save(r, "task", t, [db.task[t] EXCEPT !.deleted = TRUE])

(* A date that is left out keeps its value.                                *)
Dated(row, start, due) ==
    {new \in {[row EXCEPT !.start = IF start # None THEN start ELSE @,
                          !.due = IF due # None THEN due ELSE @]} : InOrder(new.start, new.due)}

SetDates(r, t) ==
    /\ Live(t)
    /\ \E start, due \in Days \cup {None} : \E row \in Dated(db.task[t], start, due) : Save(r, "task", t, row)

Moved_KeepsCompletion(row, status) ==
    IF row.status = status THEN row
    ELSE [row EXCEPT !.status = status, !.completed = @ \/ status = "done"]

Moved(row, status) ==
    IF row.status = status THEN row
    ELSE [row EXCEPT !.status = status, !.completed = status = "done"]

ChangeStatus_AnyTarget(r, t, status) ==
    /\ Live(t) /\ \E s \in Statuses : status \in Workflow[s]
    /\ Save(r, "task", t, Moved(db.task[t], status))

ChangeStatus(r, t, status) ==
    /\ Live(t) /\ IsValidTransition(db.task[t].status, status)
    /\ Save(r, "task", t, Moved(db.task[t], status))

ReplaceWorkflow(r, w) ==
    LET row == [transitions |-> w]
    IN  Stage(r, IF db.workflow["project"] = None THEN {Insert("workflow", "project", row)}
                                                  ELSE {Update("workflow", "project", row)})

-----------------------------------------------------------------------------
(* The hierarchy: set_parent walks up from the new parent, one query per   *)
(* ancestor; a deleted ancestor is not found and ends the walk.            *)

ParentOf(t) == IF Live(t) THEN db.task[t].parent ELSE None

SetParent(r, t, parent) ==
    /\ req[r].pc = "new" /\ Live(t) /\ parent # t
    /\ req' = [req EXCEPT ![r].pc = "walk",
                          ![r].walk = [kind |-> "parent", task |-> t, target |-> parent, row |-> db.task[t],
                                       frontier |-> {parent} \ {None}, visited |-> {}]]
    /\ UNCHANGED <<db, raced>>

WalkUp_FirstOnly(r, cursor) ==
    LET w == req[r].walk
    IN  /\ req[r].pc = "walk" /\ w.kind = "parent" /\ cursor \in w.frontier
        /\ cursor # w.task
        /\ req' = [req EXCEPT ![r].walk.frontier = {}, ![r].walk.visited = @ \cup {cursor}]
        /\ UNCHANGED <<db, raced>>

WalkUp(r, cursor) ==
    LET w == req[r].walk
    IN  /\ req[r].pc = "walk" /\ w.kind = "parent" /\ cursor \in w.frontier
        /\ cursor # w.task
        /\ req' = [req EXCEPT ![r].walk.frontier = {ParentOf(cursor)} \ (w.visited \cup {cursor, None}),
                              ![r].walk.visited = @ \cup {cursor}]
        /\ UNCHANGED <<db, raced>>

(* The walk has met its end and not the task: update() finds the row as it *)
(* was loaded, or raises the conflict.                                     *)
ParentFound(r) ==
    LET w == req[r].walk
    IN  /\ req[r].pc = "walk" /\ w.kind = "parent" /\ w.frontier = {}
        /\ db.task[w.task] = w.row
        /\ req' = [req EXCEPT ![r].pc = "staged", ![r].walk = None,
                              ![r].writes = {Update("task", w.task, [w.row EXCEPT !.parent = w.target])}]
        /\ UNCHANGED <<db, raced>>

-----------------------------------------------------------------------------
(* Dependencies: add_dependency searches from the new dependency along the *)
(* edges it reads, one query per task, in any order here.                  *)

AddDependency(r, t, on) ==
    /\ req[r].pc = "new" /\ Live(t) /\ t # on /\ Live(on) /\ on \notin DependenciesOf(t)
    /\ req' = [req EXCEPT ![r].pc = "walk",
                          ![r].walk = [kind |-> "dependency", task |-> t, target |-> on, row |-> None,
                                       frontier |-> {on}, visited |-> {}]]
    /\ UNCHANGED <<db, raced>>

Search(r, current) ==
    LET w == req[r].walk
    IN  /\ req[r].pc = "walk" /\ w.kind = "dependency" /\ current \in w.frontier
        /\ current # w.task
        /\ req' = [req EXCEPT ![r].walk.frontier = (@ \cup DependenciesOf(current)) \ (w.visited \cup {current}),
                              ![r].walk.visited = @ \cup {current}]
        /\ UNCHANGED <<db, raced>>

NoPathFound(r) ==
    LET w == req[r].walk
    IN  /\ req[r].pc = "walk" /\ w.kind = "dependency" /\ w.frontier = {}
        /\ req' = [req EXCEPT ![r].pc = "staged", ![r].walk = None,
                              ![r].writes = {Insert("dependency", <<w.task, w.target>>, [id |-> r])}]
        /\ UNCHANGED <<db, raced>>

RemoveDependency(r, t, on) ==
    /\ Live(t) /\ on \in DependenciesOf(t)
    /\ Stage(r, {Delete("dependency", <<t, on>>)})

(* A walk that meets its own task: TaskParentCycleError and                *)
(* TaskDependencyCycleError.                                               *)
CycleFound(r) ==
    /\ req[r].pc = "walk" /\ req[r].walk.task \in req[r].walk.frontier
    /\ req' = [req EXCEPT ![r] = Closed]
    /\ UNCHANGED <<db, raced>>

-----------------------------------------------------------------------------
(* Related tasks, one row for both directions.                             *)

IsRelated(t, u) == {<<t, u>>, <<u, t>>} \cap Stored("relation") # {}

AddRelated(r, t, u) ==
    /\ Live(t) /\ Live(u) /\ ~IsRelated(t, u)
    /\ Stage(r, {Insert("relation", <<t, u>>, [id |-> r])})

(* The row of the given direction first, else the other one.               *)
RemoveRelated(r, t, u) ==
    /\ Live(t) /\ IsRelated(t, u)
    /\ Stage(r, {Delete("relation", IF <<t, u>> \in Stored("relation") THEN <<t, u>> ELSE <<u, t>>)})

-----------------------------------------------------------------------------
(* Assignments.                                                            *)

(* _clear_existing_primary, of the primaries that are still there.         *)
Cleared_None(t, users) == {}
Cleared(t, users) ==
    {Update("assignment", <<t, u>>, [db.assignment[<<t, u>>] EXCEPT !.primary = FALSE]) : u \in users}

Removed(t, users) == {Delete("assignment", <<t, u>>) : u \in users}

Assign(r, t, u, primary) ==
    /\ Live(t) /\ u \notin AssigneesOf(t)
    /\ Stage(r, (IF primary THEN Cleared(t, PrimariesOf(t)) ELSE {})
                \cup {Insert("assignment", <<t, u>>, [primary |-> primary, id |-> r])})

Unassign(r, t, u) ==
    /\ Live(t) /\ u \in AssigneesOf(t)
    /\ Stage(r, {Delete("assignment", <<t, u>>)})

(* Without a user to replace, the primary is replaced.  When the user is   *)
(* replaced by itself (marked "itself") no primary is cleared, and as the  *)
(* flush inserts before it deletes, the row that is there stops it; if it  *)
(* is gone by then, the delete finds nothing and the insert is all.        *)
(* Another primary that is to replace a user would be cleared and inserted *)
(* again: a conflict, always.                                              *)
Reassign(r, t, from, to) ==
    /\ Live(t)
    /\ \E previous \in IF from # None THEN {from}
                       ELSE IF PrimariesOf(t) = {} THEN {None} ELSE PrimariesOf(t) :
          LET removed == Removed(t, AssigneesOf(t) \cap {previous})
              added == {Insert("assignment", <<t, to>>, [primary |-> TRUE, id |-> r])}
          IN  IF previous = to THEN StageMarked(r, added, {"itself"})
              ELSE to \notin PrimariesOf(t) /\ Stage(r, removed \cup Cleared(t, PrimariesOf(t) \ {previous}) \cup added)

-----------------------------------------------------------------------------
(* Labels.                                                                 *)

CreateLabel(r, l, n) ==
    /\ IsNew("label", l) /\ LabelNamed(n) = {}
    /\ Stage(r, {Insert("label", l, [name |-> n, id |-> r])})

(* A new name is not looked up: the unique constraint decides.             *)
UpdateLabel(r, l, n) ==
    /\ l \in Stored("label")
    /\ Save(r, "label", l, [db.label[l] EXCEPT !.name = n])

(* The rows of tasks that carry the label stay, and hold it.               *)
DeleteLabel(r, l) == l \in Stored("label") /\ Stage(r, {Delete("label", l)})

AttachLabel(r, t, l) ==
    /\ Live(t) /\ l \in Stored("label") /\ <<t, l>> \notin Stored("labelled")
    /\ Stage(r, {Insert("labelled", <<t, l>>, [id |-> r])})

DetachLabel(r, t, l) ==
    /\ Live(t) /\ <<t, l>> \in Stored("labelled")
    /\ Stage(r, {Delete("labelled", <<t, l>>)})

-----------------------------------------------------------------------------
(* The routes, by router.                                                  *)

TaskRoutes(r) ==
    \E t \in Tasks :
       \/ \E parent \in Stored("task") \cup {None} : CreateTask(r, t, parent)
       \/ \E source \in Tasks : Duplicate(r, t, source)
       \/ UpdateTask(r, t) \/ ChangePriority(r, t) \/ SetDates(r, t)
       \/ ArchiveTask(r, t) \/ RestoreTask(r, t) \/ DeleteTask(r, t)
       \/ \E status \in Statuses : ChangeStatus(r, t, status)

OrderingRoutes(r) == \E t \in Tasks : MoveTask(r, t)

WorkflowRoutes(r) == \E w \in Workflows : ReplaceWorkflow(r, w)

RelationshipRoutes(r) ==
    \E t \in Tasks :
       \/ \E parent \in Stored("task") \cup {None} : SetParent(r, t, parent)
       \/ \E u \in Tasks : AddDependency(r, t, u) \/ RemoveDependency(r, t, u)
                           \/ AddRelated(r, t, u) \/ RemoveRelated(r, t, u)

AssignmentRoutes(r) ==
    \E t \in Tasks, u \in Users :
       \/ \E primary \in BOOLEAN : Assign(r, t, u, primary)
       \/ Unassign(r, t, u)
       \/ \E from \in Users \cup {None} : Reassign(r, t, from, u)

LabelRoutes(r) ==
    \E l \in Labels :
       \/ \E n \in Names : CreateLabel(r, l, n) \/ UpdateLabel(r, l, n)
       \/ DeleteLabel(r, l)
       \/ \E t \in Tasks : AttachLabel(r, t, l) \/ DetachLabel(r, t, l)

Progress(r) ==
    \/ ParentFound(r) \/ NoPathFound(r) \/ CycleFound(r)
    \/ \E t \in Tasks : WalkUp(r, t) \/ Search(r, t)
    \/ CommitUnder(r, Constraints(Outcome(r)))
    \/ Abort(r)

Next ==
    \E r \in Requests :
       \/ TaskRoutes(r) \/ OrderingRoutes(r) \/ WorkflowRoutes(r) \/ RelationshipRoutes(r)
       \/ AssignmentRoutes(r) \/ LabelRoutes(r)
       \/ Progress(r)

-----------------------------------------------------------------------------
(* Properties.  The operators named X_Y are changed forms of X, each as a  *)
(* bug in that code would change it: the runs tell them from X.            *)

(* The types, what the database promises whatever the requests do, and     *)
(* what each call keeps together: status and completion date, start and    *)
(* due date.  Only the columns that differ are written, so two overlapping *)
(* calls may store half of each; nothing else parts them.                  *)
TasksAreSound ==
    /\ HasSchema(db, Schema) /\ RequestsAreSound /\ Constraints(db)
    /\ \A t \in Stored("task") :
          /\ Undisturbed({"status", "completed"}, {"status", "completed"}) =>
                (db.task[t].completed <=> db.task[t].status = "done")
          /\ Undisturbed({"start", "due"}, {"start", "due"}) => InOrder(db.task[t].start, db.task[t].due)

(* No tasks lead to each other round and round.                            *)
Acyclic(edges) == \A S \in SUBSET Tasks : (\A t \in S : \E u \in S : <<t, u>> \in edges) => S = {}

Parents == {k \in Tasks \X Tasks : Live(k[1]) /\ Live(k[2]) /\ db.task[k[1]].parent = k[2]}

(* The hierarchy of the tasks that are not deleted, and the dependencies   *)
(* of all tasks, have no cycle, as set_parent and add_dependency check;    *)
(* two requests that read the same graph before either commits may close   *)
(* one, and nothing else does (a delete, a duplicate or a removal cannot). *)
GraphsAreAcyclic ==
    /\ Undisturbed({"parent"}, {"parent"}) => Acyclic(Parents)
    /\ Undisturbed({"dependency"}, {"dependency"}) => Acyclic(Stored("dependency"))

(* Two tasks are related by one row at most (TaskRelationOrmModel: "one    *)
(* directed row per unordered pair") and a task has one primary assignee   *)
(* at most, as the calls check and clear what they see: unless two of them *)
(* overlapped, or a user who was not assigned was reassigned to itself.    *)
LinksAreUnique ==
    /\ Undisturbed({"relation"}, {"relation"}) =>
          \A t, u \in Tasks : ~({<<t, u>>, <<u, t>>} \subseteq Stored("relation"))
    /\ Undisturbed({"assignment", "primary"}, {"assignment", "primary", "itself"}) =>
          \A t \in Tasks : \A u, v \in PrimariesOf(t) : u = v

(* A status moves along a transition of the workflow that is in force when *)
(* the move is committed, unless the task or the workflow was changed      *)
(* between the check and the commit.                                       *)
MovesFollowTheTable ==
    [][\A t \in Stored("task") :
          \/ ~Undisturbed({"status"}, {"status", "workflow", "transitions"})'
          \/ IsValidTransition(db.task[t].status, db'.task[t].status)]_txns

-----------------------------------------------------------------------------
(* From any sound database, whatever overlapped before.                    *)
Start ==
    /\ req = [r \in Requests |-> Fresh]
    /\ TasksAreSound /\ GraphsAreAcyclic /\ LinksAreUnique

Spec == Start /\ [][Next]_txns

=============================================================================
