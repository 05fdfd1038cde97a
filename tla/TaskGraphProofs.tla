---------------------------- MODULE TaskGraphProofs ----------------------------
(***************************************************************************)
(* TaskGraph for any tasks, users, labels, days and workflows and any      *)
(* number of concurrent requests, from any sound database.                 *)
(*                                                                         *)
(* The inductive invariant adds to the three invariants of the runs that   *)
(* reads are current, that the writes of a request are justified by what   *)
(* its guards saw (as far as no commit since has touched it), and what the *)
(* walks along parents and dependencies have established: the visited tasks *)
(* are closed under the edges but for the frontier.  A walk that has ended *)
(* leaves a closed set that holds the other end of the new edge and not the *)
(* task, and such an edge closes no cycle (OneMoreEdge).                   *)
(***************************************************************************)
EXTENDS TaskGraph, TransactionsProofs

(* What the guards of a request have made sure of and overlapping commits  *)
(* have left alone.                                                        *)

ClosedUp(V) == V \subseteq Stored("task") /\ \A v \in V : ParentOf(v) \in V \cup {None}
ClosedAlong(V) == \A v \in V : DependenciesOf(v) \subseteq V

(* A set of tasks holds all that the walk can reach, and not its end.      *)
NoWayUp(from, t) == \E V \in SUBSET Tasks : from \in V /\ t \notin V /\ ClosedUp(V)
NoWayAlong(from, t) == \E V \in SUBSET Tasks : from \in V /\ t \notin V /\ ClosedAlong(V)

TaskIsJustified(c, since) ==
    c.table = "task" =>
       /\ c.old = None => c.new.parent \in Stored("task") \cup {None}
       /\ c.old # None => (c.old.deleted => c.new.deleted)
       /\ Undisturbed({"status", "completed"}, {"status", "completed"}) =>
             (c.new.completed <=> c.new.status = "done")
       /\ Undisturbed({"start", "due"}, {"start", "due"}) => InOrder(c.new.start, c.new.due)
       /\ c.old # None /\ c.new.parent # c.old.parent /\ "parent" \notin since =>
             c.new.parent = None \/ NoWayUp(c.new.parent, c.key)
       /\ c.old # None /\ c.new.status # c.old.status /\ since \cap {"status", "workflow", "transitions"} = {} =>
             IsValidTransition(c.old.status, c.new.status)

LinkIsJustified(c, since) ==
    /\ c.table = "dependency" /\ c.old = None /\ "dependency" \notin since => NoWayAlong(c.key[2], c.key[1])
    /\ c.table = "relation" /\ c.old = None /\ "relation" \notin since =>
          {c.key, <<c.key[2], c.key[1]>>} \cap Stored("relation") = {}

(* The primaries a request makes, and those it has seen.                   *)
MakesPrimary(c) == c.table = "assignment" /\ c.new # None /\ c.new.primary
ClearsPrimary(writes, t, u) ==
    \E c \in writes : c.table = "assignment" /\ c.key = <<t, u>> /\ (c.new = None \/ ~c.new.primary)

PrimariesAreJustified(writes, since) ==
    /\ \A c, e \in writes : MakesPrimary(c) /\ MakesPrimary(e) => c = e
    /\ \A c \in writes : MakesPrimary(c) =>
          /\ c.old = None
          /\ since \cap {"assignment", "primary", "itself"} = {} =>
                \A u \in PrimariesOf(c.key[1]) : ClearsPrimary(writes, c.key[1], u)

AreJustified(writes, since) ==
    /\ \A c \in writes : c.table # "assignment" => writes = {c}
    /\ \A c \in writes : TaskIsJustified(c, since) /\ LinkIsJustified(c, since)
    /\ PrimariesAreJustified(writes, since)

RequestsAreJustified == \A r \in Requests : AreJustified(req[r].writes, req[r].since)

(* The walks.                                                              *)
IsWalkingUp(w, since) ==
    w.kind = "parent" =>
       /\ w.row \in Task
       /\ \A x, y \in w.frontier : x = y
       /\ "parent" \notin since =>
             /\ w.task \notin w.visited
             /\ w.visited \cup w.frontier \subseteq Stored("task")
             /\ w.target \in w.visited \cup w.frontier \cup {None}
             /\ \A v \in w.visited : ParentOf(v) \in w.visited \cup w.frontier \cup {None}

IsSearching(w, since) ==
    w.kind = "dependency" =>
       /\ w.target \in Tasks
       /\ "dependency" \notin since =>
             /\ w.task \notin w.visited
             /\ w.target \in w.visited \cup w.frontier
             /\ \A v \in w.visited : DependenciesOf(v) \subseteq w.visited \cup w.frontier

WalksAreSound ==
    \A r \in Requests :
       req[r].pc = "walk" =>
          req[r].walk \in Walk /\ IsWalkingUp(req[r].walk, req[r].since) /\ IsSearching(req[r].walk, req[r].since)

(* The inductive invariant.                                                *)
IInv ==
    /\ Shared(Schema) /\ ReadsAreCurrent(Schema)
    /\ TasksAreSound /\ GraphsAreAcyclic /\ LinksAreUnique
    /\ WalksAreSound /\ RequestsAreJustified

-----------------------------------------------------------------------------
Mix(row, old, new) == [f \in DOMAIN row |-> IF f \in {g \in DOMAIN new : new[g] # old[g]} THEN new[f] ELSE row[f]]

LEMMA SchemaTables ==
    /\ DOMAIN Schema = {"task", "assignment", "label", "labelled", "dependency", "relation", "workflow"}
    /\ Schema["task"].rows = Task /\ Schema["task"].keys = Tasks /\ Schema["task"].kept
    /\ Schema["assignment"].rows = Assignment /\ Schema["assignment"].keys = Tasks \X Users
    /\ Schema["label"].rows = Label /\ Schema["label"].keys = Labels
    /\ Schema["labelled"].rows = Link /\ Schema["labelled"].keys = Tasks \X Labels
    /\ Schema["dependency"].rows = Link /\ Schema["dependency"].keys = Tasks \X Tasks
    /\ Schema["relation"].rows = Link /\ Schema["relation"].keys = Tasks \X Tasks
    /\ Schema["workflow"].rows = ProjectWorkflow /\ Schema["workflow"].keys = {"project"} /\ Schema["workflow"].kept
    /\ \A table \in {"assignment", "label", "labelled", "dependency", "relation"} : Schema[table].kept = FALSE
  BY DEF Schema, Table, Volatile

LEMMA SchemaIsSound == IsSchema(Schema)
<1>1. ASSUME NEW table \in DOMAIN Schema PROVE None \notin Schema[table].rows
  BY <1>1, NoneAssumption
<1>2. ASSUME NEW row \in Task, NEW old \in Task, NEW new \in Task
      PROVE  DOMAIN row = DOMAIN new /\ Mix(row, old, new) \in Task
  BY <1>2 DEF Task, Mix
<1>3. ASSUME NEW row \in Assignment, NEW old \in Assignment, NEW new \in Assignment
      PROVE  DOMAIN row = DOMAIN new /\ Mix(row, old, new) \in Assignment
  BY <1>3 DEF Assignment, Mix
<1>4. ASSUME NEW row \in Label, NEW old \in Label, NEW new \in Label
      PROVE  DOMAIN row = DOMAIN new /\ Mix(row, old, new) \in Label
  BY <1>4 DEF Label, Mix
<1>5. ASSUME NEW row \in Link, NEW old \in Link, NEW new \in Link
      PROVE  DOMAIN row = DOMAIN new /\ Mix(row, old, new) \in Link
  BY <1>5 DEF Link, Mix
<1>6. ASSUME NEW row \in ProjectWorkflow, NEW old \in ProjectWorkflow, NEW new \in ProjectWorkflow
      PROVE  DOMAIN row = DOMAIN new /\ Mix(row, old, new) \in ProjectWorkflow
  BY <1>6 DEF ProjectWorkflow, Mix
<1>7. ASSUME NEW table \in DOMAIN Schema
      PROVE  \A row, old, new \in Schema[table].rows :
                DOMAIN row = DOMAIN new /\ Mix(row, old, new) \in Schema[table].rows
  BY <1>2, <1>3, <1>4, <1>5, <1>6, <1>7, SchemaTables
<1>8. \A table \in DOMAIN Schema : \A row, new \in Schema[table].rows : DOMAIN row = DOMAIN new
  BY <1>7
<1>9. QED
  BY <1>1, <1>7, <1>8 DEF IsSchema, Mix

LEMMA StartIsSound == Start => IInv
<1> SUFFICES ASSUME Start PROVE IInv
  OBVIOUS
<1>1. Shared(Schema)
  BY SchemaIsSound DEF Start, Shared, TasksAreSound, RequestsTyped, WritesTyped, AreChanges, Fresh
<1>2. ReadsAreCurrent(Schema) /\ WalksAreSound /\ RequestsAreJustified
  BY DEF Start, Fresh, ReadsAreCurrent, WalksAreSound, RequestsAreJustified, AreJustified, PrimariesAreJustified
<1>3. QED
  BY <1>1, <1>2 DEF Start, IInv

LEMMA OneRequest ==
    ASSUME IInv, NEW r \in Requests, Only(r),
           DOMAIN req'[r] = {"pc", "writes", "since", "walk"},
           req'[r].pc \in {"new", "walk", "staged", "done"},
           req'[r].pc # "staged" => req'[r].writes = {},
           req'[r].pc \in {"new", "done"} => req'[r] \in {Fresh, Closed},
           req'[r].pc = "walk" =>
              /\ req'[r].walk \in Walk /\ req'[r].walk # None
              /\ IsWalkingUp(req'[r].walk, req'[r].since) /\ IsSearching(req'[r].walk, req'[r].since),
           AreChanges(req'[r].writes, Schema),
           \A c \in req'[r].writes : IsCurrent(c, req'[r].since, Schema),
           AreJustified(req'[r].writes, req'[r].since)
    PROVE  IInv'
<1> USE DEF Only
<1>1. Shared(Schema)'
  BY DEF IInv, Shared, RequestsTyped, WritesTyped, HasSchema
<1>2. ReadsAreCurrent(Schema)'
  BY DEF IInv, ReadsAreCurrent, IsCurrent
<1>3. RequestsAreSound'
  BY DEF IInv, TasksAreSound, RequestsAreSound, AreChanges
<1>0. /\ \A A, B : Undisturbed(A, B)' <=> Undisturbed(A, B)
      /\ \A table : Stored(table)' = Stored(table)
      /\ Parents' = Parents
      /\ \A t : PrimariesOf(t)' = PrimariesOf(t)
      /\ \A t, u : NoWayUp(t, u)' <=> NoWayUp(t, u)
      /\ \A t, u : NoWayAlong(t, u)' <=> NoWayAlong(t, u)
      /\ \A from, to : IsValidTransition(from, to)' <=> IsValidTransition(from, to)
  <2>1. \A A, B : Undisturbed(A, B)' <=> Undisturbed(A, B)
    BY DEF Undisturbed
  <2>2. \A table : Stored(table)' = Stored(table)
    BY DEF Stored, Rows
  <2>3. Parents' = Parents
    BY DEF Parents, Live
  <2>4. \A t : PrimariesOf(t)' = PrimariesOf(t)
    BY <2>2 DEF PrimariesOf, AssigneesOf
  <2>5. \A t, u : NoWayUp(t, u)' <=> NoWayUp(t, u)
    BY <2>2 DEF NoWayUp, ClosedUp, ParentOf, Live
  <2>6. \A t, u : NoWayAlong(t, u)' <=> NoWayAlong(t, u)
    BY <2>2 DEF NoWayAlong, ClosedAlong, DependenciesOf
  <2>7. \A from, to : IsValidTransition(from, to)' <=> IsValidTransition(from, to)
    BY DEF IsValidTransition, Workflow
  <2>8. QED
    BY <2>1, <2>2, <2>3, <2>4, <2>5, <2>6, <2>7
<1>4. (GraphsAreAcyclic /\ LinksAreUnique)'
  BY <1>0 DEF IInv, GraphsAreAcyclic, LinksAreUnique, Acyclic
<1>5. TasksAreSound'
  BY <1>3 DEF IInv, TasksAreSound, Undisturbed, Stored, HasSchema
<1>6. WalksAreSound'
  BY DEF IInv, WalksAreSound, IsWalkingUp, IsSearching, ParentOf, Live, DependenciesOf, Stored
<1>7. RequestsAreJustified'
  <2>1. ASSUME NEW s \in Requests PROVE AreJustified(req'[s].writes, req'[s].since)
    BY <2>1 DEF IInv, RequestsAreJustified
  <2>2. ASSUME NEW writes, NEW since, AreJustified(writes, since) PROVE AreJustified(writes, since)'
    <3>1. ASSUME NEW c, NEW b, TaskIsJustified(c, b) PROVE TaskIsJustified(c, b)'
      BY <3>1, <1>0 DEF TaskIsJustified
    <3>2. ASSUME NEW c, NEW b, LinkIsJustified(c, b) PROVE LinkIsJustified(c, b)'
      BY <3>2, <1>0 DEF LinkIsJustified
    <3>3. PrimariesAreJustified(writes, since)'
      BY <2>2, <1>0 DEF AreJustified, PrimariesAreJustified
    <3>4. QED
      BY <2>2, <3>1, <3>2, <3>3 DEF AreJustified
  <2>3. QED
    BY <2>1, <2>2 DEF RequestsAreJustified
<1>8. QED
  BY <1>1, <1>2, <1>4, <1>5, <1>6, <1>7 DEF IInv

(* A request that stages its writes has just read the rows they change.    *)
LEMMA Staging ==
    ASSUME IInv, NEW r \in Requests, NEW writes, NEW marks, StageMarked(r, writes, marks),
           AreChanges(writes, Schema), \A c \in writes : Reads(c), AreJustified(writes, marks)
    PROVE  IInv'
<1>1. req[r].pc = "new" /\ DOMAIN req = Requests /\ DOMAIN req[r] = {"pc", "writes", "since", "walk"}
  BY DEF IInv, Shared, RequestsTyped, StageMarked
<1>2. Only(r) /\ DOMAIN req'[r] = DOMAIN req[r] /\ req'[r].pc = "staged" /\ req'[r].writes = writes /\ req'[r].since = marks
  BY <1>1 DEF StageMarked, Only
<1>3. \A c \in writes : IsCurrent(c, marks, Schema)
  BY DEF Reads, IsCurrent, SameRow
<1>4. QED
  BY <1>1, <1>2, <1>3, OneRequest

(* The tables, one by one.                                                 *)
LEMMA Typed ==
    ASSUME IInv
    PROVE  /\ \A t \in Tasks : db["task"][t] \in Task \cup {None}
           /\ \A k \in Tasks \X Users : db["assignment"][k] \in Assignment \cup {None}
           /\ \A l \in Labels : db["label"][l] \in Label \cup {None}
           /\ \A k \in Tasks \X Labels : db["labelled"][k] \in Link \cup {None}
           /\ \A k \in Tasks \X Tasks : db["dependency"][k] \in Link \cup {None} /\ db["relation"][k] \in Link \cup {None}
           /\ db["workflow"]["project"] \in ProjectWorkflow \cup {None}
           /\ Stored("task") = {t \in Tasks : db["task"][t] # None}
           /\ Stored("assignment") = {k \in Tasks \X Users : db["assignment"][k] # None}
           /\ Stored("label") = {l \in Labels : db["label"][l] # None}
           /\ Stored("labelled") = {k \in Tasks \X Labels : db["labelled"][k] # None}
           /\ Stored("dependency") = {k \in Tasks \X Tasks : db["dependency"][k] # None}
           /\ Stored("relation") = {k \in Tasks \X Tasks : db["relation"][k] # None}
<1>1. HasSchema(db, Schema)
  BY DEF IInv, Shared
<1>2. /\ db["task"] \in [Tasks -> Task \cup {None}] /\ db["assignment"] \in [Tasks \X Users -> Assignment \cup {None}]
      /\ db["label"] \in [Labels -> Label \cup {None}] /\ db["labelled"] \in [Tasks \X Labels -> Link \cup {None}]
      /\ db["dependency"] \in [Tasks \X Tasks -> Link \cup {None}] /\ db["relation"] \in [Tasks \X Tasks -> Link \cup {None}]
      /\ db["workflow"] \in [{"project"} -> ProjectWorkflow \cup {None}]
  BY <1>1, SchemaTables DEF HasSchema
<1>3. QED
  BY <1>2 DEF Stored, Rows

LEMMA NoneIsNoRow ==
    None \notin Task /\ None \notin Assignment /\ None \notin Label /\ None \notin Link /\ None \notin ProjectWorkflow
    /\ None \notin Tasks /\ None \notin Walk
  BY NoneAssumption, SchemaTables

-----------------------------------------------------------------------------
(* The routes stage sound writes.                                          *)

LEMMA SaveTask ==
    ASSUME IInv, NEW r \in Requests, NEW t \in Tasks, Live(t), NEW row \in Task, Save(r, "task", t, row),
           row.parent = db.task[t].parent,
           \/ row.completed = db.task[t].completed /\ row.status = db.task[t].status
           \/ (row.completed <=> row.status = "done") /\ IsValidTransition(db.task[t].status, row.status),
           \/ row.start = db.task[t].start /\ row.due = db.task[t].due
           \/ InOrder(row.start, row.due)
    PROVE  IInv'
<1> DEFINE c == Update("task", t, row)
           old == db.task[t]
<1>1. old \in Task /\ t \in Stored("task") /\ old.deleted = FALSE
  BY Typed DEF Live, Task
<1>2. c.table = "task" /\ c.key = t /\ c.old = old /\ c.new = row /\ DOMAIN c = {"table", "key", "old", "new"}
  BY DEF Update
<1>3. AreChanges({c}, Schema)
  <2>1. "id" \notin DOMAIN old
    BY <1>1 DEF Task
  <2>2. QED
    BY <1>1, <1>2, <2>1, SchemaTables, NoneIsNoRow DEF AreChanges, IsChange
<1>4. TaskIsJustified(c, {})
  BY <1>1, <1>2, NoneIsNoRow DEF TaskIsJustified, IInv, TasksAreSound, IsValidTransition
<1>5. AreJustified({c}, {})
  BY <1>2, <1>4 DEF AreJustified, LinkIsJustified, PrimariesAreJustified, MakesPrimary
<1>6. Reads(c)
  BY <1>2 DEF Reads
<1>7. QED
  BY <1>3, <1>5, <1>6, Staging DEF Save, Stage

LEMMA SaveTaskRoutes ==
    ASSUME IInv, NEW r \in Requests, NEW t \in Tasks,
           \/ UpdateTask(r, t) \/ ChangePriority(r, t) \/ MoveTask(r, t) \/ SetDates(r, t)
           \/ ArchiveTask(r, t) \/ RestoreTask(r, t) \/ DeleteTask(r, t)
           \/ \E status \in Statuses : ChangeStatus(r, t, status)
    PROVE  IInv'
<1> DEFINE old == db.task[t]
<1>1. Live(t) => old \in Task
  BY Typed DEF Live
<1>2. CASE UpdateTask(r, t) \/ ChangePriority(r, t) \/ MoveTask(r, t)
  <2>1. Live(t) /\ Save(r, "task", t, old)
    BY <1>2 DEF UpdateTask, ChangePriority, MoveTask
  <2>2. old \in Task
    BY <2>1, <1>1
  <2>3. QED
    BY <2>1, <2>2, SaveTask
<1>3. CASE SetDates(r, t)
  <2>1. PICK start \in Days \cup {None}, due \in Days \cup {None} :
           \E row \in Dated(old, start, due) : Save(r, "task", t, row)
    BY <1>3 DEF SetDates
  <2>2. PICK row \in Dated(old, start, due) : Save(r, "task", t, row)
    BY <2>1
  <2>3. row \in Task /\ row.parent = old.parent /\ row.completed = old.completed /\ row.status = old.status
        /\ InOrder(row.start, row.due)
    BY <1>1, <1>3, <2>2 DEF SetDates, Dated, Task
  <2>4. QED
    BY <1>3, <2>2, <2>3, SaveTask DEF SetDates
<1>4. CASE ArchiveTask(r, t) \/ RestoreTask(r, t)
  <2>1. PICK archived \in BOOLEAN : Live(t) /\ Save(r, "task", t, [old EXCEPT !.archived = archived])
    BY <1>4 DEF ArchiveTask, RestoreTask
  <2>2. QED
    BY <1>1, <2>1, SaveTask DEF Task
<1>5. CASE DeleteTask(r, t)
  BY <1>1, <1>5, SaveTask DEF DeleteTask, Task
<1>6. ASSUME NEW status \in Statuses, ChangeStatus(r, t, status) PROVE IInv'
  <2>1. CASE old.status = status
    BY <1>1, <1>6, <2>1, SaveTask DEF ChangeStatus, Moved
  <2>2. CASE old.status # status
    BY <1>1, <1>6, <2>2, SaveTask DEF ChangeStatus, Moved, Task
  <2>3. QED
    BY <2>1, <2>2
<1>7. QED
  BY <1>2, <1>3, <1>4, <1>5, <1>6

LEMMA InsertTask ==
    ASSUME IInv, NEW r \in Requests, NEW t \in Tasks, NEW parent \in Stored("task") \cup {None},
           NEW start \in Days \cup {None}, NEW due \in Days \cup {None}, InOrder(start, due),
           Stage(r, {Insert("task", t, NewTask(parent, start, due))})
    PROVE  IInv'
<1> DEFINE row == NewTask(parent, start, due)
           c == Insert("task", t, row)
<1>1. row \in Task /\ row.parent = parent /\ row.completed = FALSE /\ row.status = "backlog"
      /\ row.start = start /\ row.due = due
  BY Typed DEF NewTask, Task, Statuses
<1>2. c.table = "task" /\ c.key = t /\ c.old = None /\ c.new = row /\ DOMAIN c = {"table", "key", "old", "new"}
  BY DEF Insert
<1>3. AreChanges({c}, Schema)
  BY <1>1, <1>2, SchemaTables, NoneIsNoRow DEF AreChanges, IsChange
<1>4. AreJustified({c}, {})
  BY <1>1, <1>2 DEF AreJustified, TaskIsJustified, LinkIsJustified, PrimariesAreJustified, MakesPrimary
<1>5. QED
  BY <1>2, <1>3, <1>4, Staging DEF Reads, Stage

LEMMA InsertTaskRoutes ==
    ASSUME IInv, NEW r \in Requests, NEW t \in Tasks,
           \/ \E parent \in Stored("task") \cup {None} : CreateTask(r, t, parent)
           \/ \E source \in Tasks : Duplicate(r, t, source)
    PROVE  IInv'
<1>1. ASSUME NEW parent \in Stored("task") \cup {None}, CreateTask(r, t, parent) PROVE IInv'
  BY <1>1, InsertTask DEF CreateTask
<1>2. ASSUME NEW source \in Tasks, Duplicate(r, t, source) PROVE IInv'
  <2>1. source \in Stored("task") /\ Constraints(db)
    BY <1>2, Typed DEF Duplicate, Live, IInv, TasksAreSound
  <2>2. db.task[source].parent \in Stored("task") \cup {None}
    BY <2>1 DEF Constraints, Stored
  <2>3. QED
    BY <1>2, <2>2, InsertTask DEF Duplicate, DuplicateFrom, InOrder
<1>3. QED
  BY <1>1, <1>2

(* Changes that no guard of another request relies on.                     *)
LEMMA PlainChange ==
    ASSUME IInv, NEW r \in Requests, NEW c, Stage(r, {c}), IsChange(c, Schema), Reads(c),
           c.table \in {"label", "labelled", "workflow"} \/ (c.new = None /\ c.table # "task")
    PROVE  IInv'
<1>1. c.new = None => c.old # None
  BY DEF IsChange
<1>2. AreChanges({c}, Schema)
  BY DEF AreChanges
<1>3. AreJustified({c}, {})
  BY <1>1 DEF AreJustified, TaskIsJustified, LinkIsJustified, PrimariesAreJustified, MakesPrimary
<1>4. QED
  BY <1>2, <1>3, Staging DEF Stage

LEMMA DeleteLink ==
    ASSUME IInv, NEW r \in Requests, NEW table \in {"assignment", "labelled", "dependency", "relation", "label"},
           NEW k \in Stored(table), Stage(r, {Delete(table, k)})
    PROVE  IInv'
<1> DEFINE c == Delete(table, k)
<1>1. /\ c.table = table /\ c.key = k /\ c.old = db[table][k] /\ c.new = None
      /\ DOMAIN c = {"table", "key", "old", "new"}
  BY DEF Delete
<1>2. k \in Schema[table].keys /\ db[table][k] \in Schema[table].rows /\ db[table][k] # None
  BY Typed, SchemaTables
<1>3. IsChange(c, Schema)
  BY <1>1, <1>2, SchemaTables DEF IsChange
<1>4. QED
  BY <1>1, <1>3, PlainChange DEF Reads

LEMMA WorkflowRoutesAreSound ==
    ASSUME IInv, NEW r \in Requests, WorkflowRoutes(r)
    PROVE  IInv'
<1>1. PICK w \in Workflows : ReplaceWorkflow(r, w)
  BY DEF WorkflowRoutes
<1> DEFINE row == [transitions |-> w]
<1>2. row \in ProjectWorkflow /\ row # None
  BY NoneIsNoRow DEF ProjectWorkflow
<1>3. CASE db.workflow["project"] = None
  <2> DEFINE c == Insert("workflow", "project", row)
  <2>1. /\ c.table = "workflow" /\ c.key = "project" /\ c.old = None /\ c.new = row
        /\ DOMAIN c = {"table", "key", "old", "new"}
    BY DEF Insert
  <2>2. IsChange(c, Schema)
    BY <1>2, <2>1, SchemaTables DEF IsChange
  <2>3. QED
    BY <1>1, <1>3, <2>1, <2>2, PlainChange DEF ReplaceWorkflow, Reads
<1>4. CASE db.workflow["project"] # None
  <2> DEFINE c == Update("workflow", "project", row)
  <2>1. /\ c.table = "workflow" /\ c.key = "project" /\ c.old = db["workflow"]["project"] /\ c.new = row
        /\ DOMAIN c = {"table", "key", "old", "new"}
    BY DEF Update
  <2>2. c.old \in ProjectWorkflow /\ "id" \notin DOMAIN c.old
    BY <1>4, <2>1, Typed DEF ProjectWorkflow
  <2>3. IsChange(c, Schema)
    BY <1>2, <2>1, <2>2, SchemaTables DEF IsChange
  <2>4. QED
    BY <1>1, <1>4, <2>1, <2>3, PlainChange DEF ReplaceWorkflow, Reads
<1>5. QED
  BY <1>3, <1>4

LEMMA LabelRoutesAreSound ==
    ASSUME IInv, NEW r \in Requests, LabelRoutes(r)
    PROVE  IInv'
<1>1. PICK l \in Labels :
         \/ \E n \in Names : CreateLabel(r, l, n) \/ UpdateLabel(r, l, n)
         \/ DeleteLabel(r, l)
         \/ \E t \in Tasks : AttachLabel(r, t, l) \/ DetachLabel(r, t, l)
  BY DEF LabelRoutes
<1>2. ASSUME NEW n \in Names, CreateLabel(r, l, n) PROVE IInv'
  <2> DEFINE row == [name |-> n, id |-> r]
             c == Insert("label", l, row)
  <2>1. row \in Label /\ row # None
    BY NoneIsNoRow DEF Label
  <2>2. /\ c.table = "label" /\ c.key = l /\ c.old = None /\ c.new = row
        /\ DOMAIN c = {"table", "key", "old", "new"}
    BY DEF Insert
  <2>3. IsChange(c, Schema)
    BY <2>1, <2>2, SchemaTables DEF IsChange
  <2>4. QED
    BY <1>2, <2>2, <2>3, PlainChange DEF CreateLabel, Reads
<1>3. ASSUME NEW n \in Names, UpdateLabel(r, l, n) PROVE IInv'
  <2> DEFINE old == db["label"][l]
             row == [old EXCEPT !.name = n]
             c == Update("label", l, row)
  <2>1. old \in Label /\ row \in Label /\ row # None /\ row.id = old.id
    BY <1>3, Typed, NoneIsNoRow DEF UpdateLabel, Label
  <2>2. /\ c.table = "label" /\ c.key = l /\ c.old = old /\ c.new = row
        /\ DOMAIN c = {"table", "key", "old", "new"}
    BY DEF Update
  <2>3. IsChange(c, Schema)
    BY <2>1, <2>2, SchemaTables DEF IsChange
  <2>4. QED
    BY <1>3, <2>2, <2>3, PlainChange DEF UpdateLabel, Save, Reads
<1>4. CASE DeleteLabel(r, l)
  BY <1>4, DeleteLink DEF DeleteLabel
<1>5. ASSUME NEW t \in Tasks, AttachLabel(r, t, l) PROVE IInv'
  <2> DEFINE c == Insert("labelled", <<t, l>>, [id |-> r])
  <2>1. [id |-> r] \in Link /\ [id |-> r] # None
    BY NoneIsNoRow DEF Link
  <2>2. /\ c.table = "labelled" /\ c.key = <<t, l>> /\ c.old = None /\ c.new = [id |-> r]
        /\ DOMAIN c = {"table", "key", "old", "new"}
    BY DEF Insert
  <2>3. IsChange(c, Schema)
    BY <2>1, <2>2, SchemaTables DEF IsChange
  <2>4. QED
    BY <1>5, <2>2, <2>3, PlainChange DEF AttachLabel, Reads
<1>6. ASSUME NEW t \in Tasks, DetachLabel(r, t, l) PROVE IInv'
  BY <1>6, DeleteLink DEF DetachLabel
<1>7. QED
  BY <1>1, <1>2, <1>3, <1>4, <1>5, <1>6

LEMMA RelatedRoutes ==
    ASSUME IInv, NEW r \in Requests, NEW t \in Tasks, NEW u \in Tasks,
           AddRelated(r, t, u) \/ RemoveRelated(r, t, u) \/ RemoveDependency(r, t, u)
    PROVE  IInv'
<1>1. CASE AddRelated(r, t, u)
  <2> DEFINE c == Insert("relation", <<t, u>>, [id |-> r])
  <2>1. [id |-> r] \in Link /\ [id |-> r] # None
    BY NoneIsNoRow DEF Link
  <2>2. /\ c.table = "relation" /\ c.key = <<t, u>> /\ c.old = None /\ c.new = [id |-> r]
        /\ DOMAIN c = {"table", "key", "old", "new"}
    BY DEF Insert
  <2>3. AreChanges({c}, Schema)
    BY <2>1, <2>2, SchemaTables DEF AreChanges, IsChange
  <2>4. {<<t, u>>, <<u, t>>} \cap Stored("relation") = {}
    BY <1>1 DEF AddRelated, IsRelated
  <2>5. AreJustified({c}, {})
    BY <2>2, <2>4 DEF AreJustified, TaskIsJustified, LinkIsJustified, PrimariesAreJustified, MakesPrimary
  <2>6. QED
    BY <1>1, <2>2, <2>3, <2>5, Staging DEF AddRelated, Stage, Reads
<1>2. CASE RemoveRelated(r, t, u)
  <2>1. PICK k \in Stored("relation") : Stage(r, {Delete("relation", k)})
    BY <1>2 DEF RemoveRelated, IsRelated
  <2>2. QED
    BY <2>1, DeleteLink
<1>3. CASE RemoveDependency(r, t, u)
  BY <1>3, DeleteLink DEF RemoveDependency, DependenciesOf
<1>4. QED
  BY <1>1, <1>2, <1>3

-----------------------------------------------------------------------------
(* A new assignment, beside changes of other assignments of the task.      *)
LEMMA InsertAssignment ==
    ASSUME IInv, NEW r \in Requests, NEW t \in Tasks, NEW u \in Users, NEW primary \in BOOLEAN,
           NEW removed \in SUBSET AssigneesOf(t), NEW cleared \in SUBSET PrimariesOf(t), NEW marks \in SUBSET {"itself"}, NEW writes,
           u \notin removed \cup cleared, removed \cap cleared = {},
           writes = Removed(t, removed) \cup Cleared(t, cleared)
                       \cup {Insert("assignment", <<t, u>>, [primary |-> primary, id |-> r])},
           StageMarked(r, writes, marks),
           primary => marks = {"itself"} \/ PrimariesOf(t) \subseteq removed \cup cleared
    PROVE  IInv'
<1> DEFINE Gone(v) == Delete("assignment", <<t, v>>)
           Off(v) == Update("assignment", <<t, v>>, [db.assignment[<<t, v>>] EXCEPT !.primary = FALSE])
           row == [primary |-> primary, id |-> r]
           new == Insert("assignment", <<t, u>>, row)
           At(v) == IF v = u THEN new ELSE IF v \in removed THEN Gone(v) ELSE Off(v)
<1>1. writes = {Gone(v) : v \in removed} \cup {Off(v) : v \in cleared} \cup {new}
  BY DEF Cleared, Removed
<1>2. ASSUME NEW v \in removed
      PROVE  /\ v \in Users /\ db["assignment"][<<t, v>>] \in Assignment
             /\ Gone(v).table = "assignment" /\ Gone(v).key = <<t, v>> /\ Gone(v).old = db["assignment"][<<t, v>>]
             /\ Gone(v).new = None /\ DOMAIN Gone(v) = {"table", "key", "old", "new"}
  BY Typed DEF Delete, AssigneesOf
<1>3. ASSUME NEW v \in cleared
      PROVE  /\ v \in Users /\ db["assignment"][<<t, v>>] \in Assignment
             /\ Off(v).table = "assignment" /\ Off(v).key = <<t, v>> /\ Off(v).old = db["assignment"][<<t, v>>]
             /\ Off(v).new \in Assignment /\ Off(v).new.primary = FALSE /\ Off(v).new.id = Off(v).old.id
             /\ DOMAIN Off(v) = {"table", "key", "old", "new"}
  <2>1. v \in Users /\ db["assignment"][<<t, v>>] \in Assignment
    BY Typed DEF PrimariesOf, AssigneesOf
  <2>2. QED
    BY <2>1 DEF Update, Assignment
<1>4. /\ new.table = "assignment" /\ new.key = <<t, u>> /\ new.old = None /\ new.new = row
      /\ DOMAIN new = {"table", "key", "old", "new"} /\ row \in Assignment /\ row.primary = primary
  BY DEF Insert, Assignment
<1>5. ASSUME NEW c \in writes
      PROVE  /\ IsChange(c, Schema) /\ Reads(c) /\ c.table = "assignment"
             /\ \E v \in removed \cup cleared \cup {u} : c.key = <<t, v>> /\ c = At(v)
             /\ MakesPrimary(c) => c = new /\ primary
  <2> HIDE DEF Gone, Off, row, new, At
  <2>0. /\ "assignment" \in DOMAIN Schema /\ Schema["assignment"].rows = Assignment
        /\ Schema["assignment"].keys = Tasks \X Users /\ ~Schema["assignment"].kept /\ None \notin Assignment
        /\ \A v \in Users : <<t, v>> \in Tasks \X Users
    BY SchemaTables, NoneIsNoRow
  <2>1. CASE c = new
    <3>1. IsChange(c, Schema) /\ Reads(c) /\ c.table = "assignment" /\ c.key = <<t, u>>
      BY <1>4, <2>0, <2>1 DEF IsChange, Reads
    <3>2. MakesPrimary(c) => primary
      BY <1>4, <2>1 DEF MakesPrimary
    <3>3. QED
      BY <2>1, <3>1, <3>2 DEF At
  <2>2. ASSUME NEW v \in removed, c = Gone(v)
        PROVE  IsChange(c, Schema) /\ Reads(c) /\ c.table = "assignment" /\ c.key = <<t, v>> /\ ~MakesPrimary(c)
    <3>1. IsChange(c, Schema) /\ Reads(c)
      BY <1>2, <2>0, <2>2 DEF IsChange, Reads
    <3>2. QED
      BY <1>2, <2>2, <3>1 DEF MakesPrimary
  <2>3. ASSUME NEW v \in cleared, c = Off(v)
        PROVE  IsChange(c, Schema) /\ Reads(c) /\ c.table = "assignment" /\ c.key = <<t, v>> /\ ~MakesPrimary(c)
    <3>1. Off(v).table = "assignment" /\ Off(v).new \in Assignment /\ Off(v).old \in Assignment
      BY <1>3
    <3>2. c.old \in Assignment /\ c.new \in Assignment /\ c.old # None /\ c.new # None
      BY <2>0, <2>3, <3>1
    <3>3. /\ c.table = "assignment" /\ c.key = <<t, v>> /\ c.old = db["assignment"][<<t, v>>]
          /\ DOMAIN c = {"table", "key", "old", "new"} /\ c.new["id"] = c.old["id"]
      BY <1>3, <2>3
    <3>4. c.key \in Schema["assignment"].keys
      BY <1>3, <2>0, <3>3
    <3>5. Reads(c)
      BY <3>3 DEF Reads
    <3>6. IsChange(c, Schema)
      BY <2>0, <3>2, <3>3, <3>4 DEF IsChange
    <3>7. IsChange(c, Schema) /\ Reads(c)
      BY <3>5, <3>6
    <3>8. QED
      BY <1>3, <2>3, <3>3, <3>7 DEF MakesPrimary
  <2>4. CASE \E v \in removed : c = Gone(v)
    BY <2>2, <2>4 DEF At
  <2>5. CASE \E v \in cleared : c = Off(v)
    BY <2>3, <2>5 DEF At
  <2>6. QED
    BY <1>1, <1>4, <2>1, <2>4, <2>5 DEF At
<1>7. ASSUME primary, NEW v \in PrimariesOf(t), marks \cap {"itself"} = {}
      PROVE  ClearsPrimary(writes, t, v)
  <2>1. v \in removed \cup cleared
    BY <1>7
  <2> HIDE DEF new, row, Gone, Off, At
  <2>2. CASE v \in removed
    BY <1>1, <1>2, <2>2 DEF ClearsPrimary
  <2>3. CASE v \in cleared
    BY <1>1, <1>3, <2>3 DEF ClearsPrimary
  <2>4. QED
    BY <2>1, <2>2, <2>3
<1> HIDE DEF new, row, Gone, Off, At
<1>6. AreChanges(writes, Schema)
  <2>1. ASSUME NEW c \in writes, NEW e \in writes, c.key = e.key PROVE c = e
    <3>1. PICK v : c.key = <<t, v>> /\ c = At(v)
      BY <1>5
    <3>2. PICK w : e.key = <<t, w>> /\ e = At(w)
      BY <1>5
    <3>3. <<t, v>> = <<t, w>>
      BY <2>1, <3>1, <3>2
    <3>4. v = w
      BY <3>3
    <3>5. QED
      BY <3>1, <3>2, <3>4
  <2>2. QED
    BY <1>5, <2>1 DEF AreChanges
<1>8. AreJustified(writes, marks)
  <2>1. \A c \in writes : TaskIsJustified(c, marks) /\ LinkIsJustified(c, marks)
    BY <1>5 DEF TaskIsJustified, LinkIsJustified
  <2>2. PrimariesAreJustified(writes, marks)
    <3>1. \A c, e \in writes : MakesPrimary(c) /\ MakesPrimary(e) => c = e
      BY <1>5
    <3>2. ASSUME NEW c \in writes, MakesPrimary(c)
          PROVE  /\ c.old = None
                 /\ marks \cap {"assignment", "primary", "itself"} = {} =>
                       \A v \in PrimariesOf(c.key[1]) : ClearsPrimary(writes, c.key[1], v)
      <4>1. c = new /\ primary /\ c.key[1] = t
        BY <1>4, <1>5, <3>2
      <4>2. QED
        BY <1>4, <1>7, <4>1
    <3>3. QED
      BY <3>1, <3>2 DEF PrimariesAreJustified
  <2>3. QED
    BY <1>5, <2>1, <2>2 DEF AreJustified
<1>9. QED
  BY <1>5, <1>6, <1>8, Staging

LEMMA AssignmentRoutesAreSound ==
    ASSUME IInv, NEW r \in Requests, AssignmentRoutes(r)
    PROVE  IInv'
<1>1. PICK t \in Tasks, u \in Users :
         \/ \E primary \in BOOLEAN : Assign(r, t, u, primary)
         \/ Unassign(r, t, u)
         \/ \E from \in Users \cup {None} : Reassign(r, t, from, u)
  BY DEF AssignmentRoutes
<1>2. ASSUME NEW primary \in BOOLEAN, Assign(r, t, u, primary) PROVE IInv'
  <2> DEFINE cleared == IF primary THEN PrimariesOf(t) ELSE {}
  <2>1. cleared \subseteq PrimariesOf(t) /\ PrimariesOf(t) \subseteq AssigneesOf(t) /\ u \notin cleared
    BY <1>2 DEF PrimariesOf, Assign
  <2> DEFINE writes == Removed(t, {}) \cup Cleared(t, cleared)
                       \cup {Insert("assignment", <<t, u>>, [primary |-> primary, id |-> r])}
  <2>2. StageMarked(r, writes, {})
    BY <1>2 DEF Assign, Stage, Cleared, Removed
  <2>3. QED
    BY <2>1, <2>2, InsertAssignment
<1>3. CASE Unassign(r, t, u)
  BY <1>3, DeleteLink DEF Unassign, AssigneesOf
<1>4. ASSUME NEW from \in Users \cup {None}, Reassign(r, t, from, u) PROVE IInv'
  <2>0. PICK primary \in BOOLEAN : primary = TRUE
    OBVIOUS
  <2>1. PICK previous \in IF from # None THEN {from}
                          ELSE IF PrimariesOf(t) = {} THEN {None} ELSE PrimariesOf(t) :
           LET removed == Removed(t, AssigneesOf(t) \cap {previous})
               added == {Insert("assignment", <<t, u>>, [primary |-> TRUE, id |-> r])}
           IN  IF previous = u THEN StageMarked(r, added, {"itself"})
               ELSE u \notin PrimariesOf(t) /\ Stage(r, removed \cup Cleared(t, PrimariesOf(t) \ {previous}) \cup added)
    BY <1>4 DEF Reassign
  <2>2. CASE previous = u
    <3> DEFINE writes == Removed(t, {}) \cup Cleared(t, {})
                         \cup {Insert("assignment", <<t, u>>, [primary |-> primary, id |-> r])}
    <3>1. StageMarked(r, writes, {"itself"})
      BY <2>0, <2>1, <2>2 DEF Cleared, Removed
    <3>2. QED
      BY <3>1, InsertAssignment
  <2>3. CASE previous # u
    <3> DEFINE removed == AssigneesOf(t) \cap {previous}
               cleared == PrimariesOf(t) \ {previous}
               writes == Removed(t, removed) \cup Cleared(t, cleared)
                         \cup {Insert("assignment", <<t, u>>, [primary |-> primary, id |-> r])}
    <3>1. StageMarked(r, writes, {})
      BY <2>0, <2>1, <2>3 DEF Stage
    <3>2. u \notin removed \cup cleared /\ PrimariesOf(t) \subseteq removed \cup cleared /\ removed \cap cleared = {}
      BY <2>1, <2>3 DEF PrimariesOf
    <3>3. removed \in SUBSET AssigneesOf(t) /\ cleared \in SUBSET PrimariesOf(t)
      OBVIOUS
    <3>4. AssigneesOf(t) \in SUBSET Users
      BY DEF AssigneesOf
    <3>5. primary => {} = {"itself"} \/ PrimariesOf(t) \subseteq removed \cup cleared
      BY <3>2
    <3>6. writes = Removed(t, removed) \cup Cleared(t, cleared)
                         \cup {Insert("assignment", <<t, u>>, [primary |-> primary, id |-> r])}
      OBVIOUS
    <3> HIDE DEF writes, removed, cleared
    <3>7. QED
      BY <3>1, <3>2, <3>3, <3>5, <3>6, InsertAssignment
  <2>4. QED
    BY <2>2, <2>3
<1>5. QED
  BY <1>1, <1>2, <1>3, <1>4

-----------------------------------------------------------------------------
(* The walks keep what they know.                                          *)

(* A request that ends.                                                    *)
LEMMA Closing ==
    ASSUME IInv, NEW r \in Requests, req' = [req EXCEPT ![r] = Closed], UNCHANGED <<db, raced>>
    PROVE  IInv'
<1>1. DOMAIN req = Requests
  BY DEF IInv, Shared, RequestsTyped
<1>2. Only(r) /\ req'[r] = Closed
  BY <1>1 DEF Only
<1>3. DOMAIN Closed = {"pc", "writes", "since", "walk"} /\ Closed.pc = "done" /\ Closed.writes = {} /\ Closed.since = {}
  BY DEF Closed, Fresh
<1>4. AreChanges({}, Schema) /\ AreJustified({}, {})
  BY DEF AreChanges, AreJustified, PrimariesAreJustified
<1>5. QED
  BY <1>2, <1>3, <1>4, OneRequest

(* A request that walks on.                                                *)
LEMMA Walking ==
    ASSUME IInv, NEW r \in Requests, Only(r), NEW w \in Walk, w # None,
           DOMAIN req'[r] = {"pc", "writes", "since", "walk"}, req'[r].pc = "walk", req'[r].writes = {}, req'[r].walk = w,
           IsWalkingUp(w, req'[r].since), IsSearching(w, req'[r].since)
    PROVE  IInv'
<1>1. AreChanges({}, Schema) /\ AreJustified({}, req'[r].since)
  BY DEF AreChanges, AreJustified, PrimariesAreJustified
<1>2. QED
  BY <1>1, OneRequest

LEMMA StartOfWalk ==
    ASSUME IInv, NEW r \in Requests, NEW t \in Tasks,
           \/ \E parent \in Stored("task") \cup {None} : SetParent(r, t, parent)
           \/ \E u \in Tasks : AddDependency(r, t, u)
    PROVE  IInv'
<1>1. DOMAIN req = Requests /\ DOMAIN req[r] = {"pc", "writes", "since", "walk"}
  BY DEF IInv, Shared, RequestsTyped
<1>2. req[r].pc = "new" => req[r].writes = {} /\ req[r].since = {}
  BY DEF IInv, TasksAreSound, RequestsAreSound, Fresh, Closed
<1>3. ASSUME NEW parent \in Stored("task") \cup {None}, SetParent(r, t, parent) PROVE IInv'
  <2> DEFINE w == [kind |-> "parent", task |-> t, target |-> parent, row |-> db.task[t],
                   frontier |-> {parent} \ {None}, visited |-> {}]
  <2>1. db.task[t] \in Task /\ Stored("task") \subseteq Tasks
    BY <1>3, Typed DEF SetParent, Live
  <2>2. w \in Walk /\ w # None
    BY <2>1, <1>3, NoneIsNoRow DEF Walk, SetParent
  <2>3. IsWalkingUp(w, {}) /\ IsSearching(w, {})
    BY <2>1 DEF IsWalkingUp, IsSearching
  <2>4. Only(r) /\ DOMAIN req'[r] = DOMAIN req[r] /\ req'[r].pc = "walk" /\ req'[r].walk = w
        /\ req'[r].writes = {} /\ req'[r].since = {}
    BY <1>1, <1>2, <1>3 DEF SetParent, Only
  <2>5. QED
    BY <1>1, <2>2, <2>3, <2>4, Walking
<1>4. ASSUME NEW u \in Tasks, AddDependency(r, t, u) PROVE IInv'
  <2> DEFINE w == [kind |-> "dependency", task |-> t, target |-> u, row |-> None, frontier |-> {u}, visited |-> {}]
  <2>1. w \in Walk /\ w # None
    BY <1>4, NoneIsNoRow DEF Walk, AddDependency
  <2>2. IsWalkingUp(w, {}) /\ IsSearching(w, {})
    BY DEF IsWalkingUp, IsSearching
  <2>3. Only(r) /\ DOMAIN req'[r] = DOMAIN req[r] /\ req'[r].pc = "walk" /\ req'[r].walk = w
        /\ req'[r].writes = {} /\ req'[r].since = {}
    BY <1>1, <1>2, <1>4 DEF AddDependency, Only
  <2>4. QED
    BY <1>1, <2>1, <2>2, <2>3, Walking
<1>5. QED
  BY <1>3, <1>4

LEMMA StepOfWalk ==
    ASSUME IInv, NEW r \in Requests, NEW t \in Tasks, WalkUp(r, t) \/ Search(r, t)
    PROVE  IInv'
<1> DEFINE w == req[r].walk
<1>1. /\ DOMAIN req = Requests /\ DOMAIN req[r] = {"pc", "writes", "since", "walk"}
      /\ req[r].pc = "walk" /\ req[r].writes = {} /\ t \in w.frontier /\ t # w.task
  BY DEF IInv, Shared, RequestsTyped, WalkUp, Search
<1>2. w \in Walk /\ IsWalkingUp(w, req[r].since) /\ IsSearching(w, req[r].since)
  BY <1>1 DEF IInv, WalksAreSound
<1>3. ASSUME NEW frontier \in SUBSET Tasks,
             req' = [req EXCEPT ![r].walk.frontier = frontier, ![r].walk.visited = @ \cup {t}],
             UNCHANGED <<db, raced>>,
             w.kind = "parent" => \A x, y \in frontier : x = y,
             w.kind = "parent" /\ "parent" \notin req[r].since =>
                /\ frontier \subseteq Stored("task") /\ w.frontier \subseteq {t} \cup frontier
                /\ ParentOf(t) \in w.visited \cup frontier \cup {t, None},
             w.kind = "dependency" =>
                w.frontier \cup DependenciesOf(t) \subseteq w.visited \cup frontier \cup {t}
      PROVE  IInv'
  <2> DEFINE new == [w EXCEPT !.frontier = frontier, !.visited = @ \cup {t}]
  <2>1. new \in Walk /\ new # None /\ new.kind = w.kind /\ new.task = w.task /\ new.target = w.target /\ new.row = w.row
        /\ new.frontier = frontier /\ new.visited = w.visited \cup {t}
    <3>1. w.visited \cup {t} \in SUBSET Tasks
      BY <1>2 DEF Walk
    <3>2. new \in Walk
      BY <1>2, <3>1 DEF Walk
    <3>3. QED
      BY <1>2, <3>2, NoneIsNoRow DEF Walk
  <2>2. Only(r) /\ DOMAIN req'[r] = DOMAIN req[r] /\ req'[r].pc = "walk" /\ req'[r].walk = new
        /\ req'[r].writes = {} /\ req'[r].since = req[r].since
    BY <1>1, <1>2, <1>3 DEF Only, Walk
  <2>3. IsWalkingUp(new, req[r].since)
    BY <1>1, <1>2, <1>3, <2>1 DEF IsWalkingUp
  <2>4. IsSearching(new, req[r].since)
    BY <1>1, <1>2, <1>3, <2>1 DEF IsSearching
  <2>5. QED
    BY <1>1, <2>1, <2>2, <2>3, <2>4, Walking
<1>4. CASE WalkUp(r, t)
  <2> DEFINE frontier == {ParentOf(t)} \ (w.visited \cup {t, None})
  <2>1. ParentOf(t) \in Stored("task") \cup {None}
    <3>1. CASE Live(t)
      <4>1. t \in Stored("task") /\ Constraints(db)
        BY <3>1, Typed DEF Live, IInv, TasksAreSound
      <4>2. QED
        BY <3>1, <4>1 DEF Constraints, Stored, ParentOf
    <3>2. CASE ~Live(t)
      BY <3>2 DEF ParentOf
    <3>3. QED
      BY <3>1, <3>2
  <2>2. frontier \in SUBSET Tasks /\ frontier \subseteq Stored("task")
    BY <2>1, Typed
  <2>3. w.kind = "parent" /\ req' = [req EXCEPT ![r].walk.frontier = frontier, ![r].walk.visited = @ \cup {t}]
    BY <1>4 DEF WalkUp
  <2>4. w.frontier \subseteq {t}
    BY <1>1, <1>2, <2>3 DEF IsWalkingUp
  <2>5. QED
    BY <1>3, <1>4, <2>2, <2>3, <2>4 DEF WalkUp
<1>5. CASE Search(r, t)
  <2> DEFINE frontier == (w.frontier \cup DependenciesOf(t)) \ (w.visited \cup {t})
  <2>1. frontier \in SUBSET Tasks /\ w.kind = "dependency"
    BY <1>2, <1>5 DEF Walk, DependenciesOf, Search
  <2>2. req' = [req EXCEPT ![r].walk.frontier = frontier, ![r].walk.visited = @ \cup {t}]
    BY <1>5 DEF Search
  <2>3. QED
    BY <1>3, <1>5, <2>1, <2>2 DEF Search
<1>6. QED
  BY <1>4, <1>5

(* What the end of a walk has found.                                       *)
LEMMA EndOfWalk ==
    ASSUME IInv, NEW r \in Requests, ParentFound(r) \/ NoPathFound(r)
    PROVE  IInv'
<1> DEFINE w == req[r].walk
           since == req[r].since
<1>1. /\ DOMAIN req = Requests /\ DOMAIN req[r] = {"pc", "writes", "since", "walk"}
      /\ req[r].pc = "walk" /\ w.frontier = {}
  BY DEF IInv, Shared, RequestsTyped, ParentFound, NoPathFound
<1>2. w \in Walk /\ IsWalkingUp(w, since) /\ IsSearching(w, since)
  BY <1>1 DEF IInv, WalksAreSound
<1>3. ASSUME NEW c, req' = [req EXCEPT ![r].pc = "staged", ![r].walk = None, ![r].writes = {c}],
             UNCHANGED <<db, raced>>, IsChange(c, Schema), Reads(c), AreJustified({c}, since)
      PROVE  IInv'
  <2>1. Only(r) /\ DOMAIN req'[r] = DOMAIN req[r] /\ req'[r].pc = "staged" /\ req'[r].writes = {c} /\ req'[r].since = since
    BY <1>1, <1>3 DEF Only
  <2>2. AreChanges({c}, Schema) /\ IsCurrent(c, since, Schema)
    <3>1. c.old # None => SameRow(db[c.table][c.key], c.old)
      BY <1>3 DEF Reads, SameRow
    <3>2. QED
      BY <1>3, <3>1 DEF AreChanges, IsCurrent, Reads
  <2>3. QED
    BY <1>1, <1>3, <2>1, <2>2, OneRequest
<1>4. CASE ParentFound(r)
  <2> DEFINE t == w.task
             old == db.task[t]
             row == [w.row EXCEPT !.parent = w.target]
             c == Update("task", t, row)
  <2>1. t \in Tasks /\ old = w.row /\ old \in Task /\ w.kind = "parent"
    BY <1>2, <1>4 DEF ParentFound, Walk, IsWalkingUp
  <2>2. old # None /\ row \in Task /\ "id" \notin DOMAIN old
    BY <2>1, <1>2, NoneIsNoRow DEF Walk, Task
  <2>3. row.parent = w.target /\ row.status = old.status /\ row.completed = old.completed /\ row.deleted = old.deleted
        /\ row.start = old.start /\ row.due = old.due
    BY <2>1 DEF Task
  <2>4. c.table = "task" /\ c.key = t /\ c.old = old /\ c.new = row /\ DOMAIN c = {"table", "key", "old", "new"}
    BY DEF Update
  <2>5. IsChange(c, Schema)
    <3> HIDE DEF c, row, old
    <3>1. old # None /\ row # None
      BY <2>1, <2>2, NoneIsNoRow
    <3>2. QED
      BY <2>1, <2>2, <2>4, <3>1, SchemaTables DEF IsChange
  <2>6. "parent" \notin since => w.target = None \/ NoWayUp(w.target, t)
    <3>1. SUFFICES ASSUME "parent" \notin since, w.target # None PROVE NoWayUp(w.target, t)
      OBVIOUS
    <3>2. w.visited \in SUBSET Tasks /\ w.target \in w.visited /\ t \notin w.visited /\ ClosedUp(w.visited)
      BY <1>1, <1>2, <2>1, <3>1 DEF IsWalkingUp, ClosedUp, Walk
    <3>3. QED
      BY <3>2 DEF NoWayUp
  <2>7. t \in Stored("task")
    BY <2>1, <2>2, Typed
  <2>8. TaskIsJustified(c, since)
    <3>1. /\ Undisturbed({"status", "completed"}, {"status", "completed"}) => (old.completed <=> old.status = "done")
          /\ Undisturbed({"start", "due"}, {"start", "due"}) => InOrder(old.start, old.due)
      BY <2>7 DEF IInv, TasksAreSound
    <3>2. row.completed = old.completed /\ row.status = old.status
      BY <2>3
    <3> HIDE DEF row, old, c
    <3>3. QED
      BY <2>2, <2>3, <2>4, <2>6, <3>1, <3>2 DEF TaskIsJustified
  <2>9. AreJustified({c}, since)
    BY <2>4, <2>8 DEF AreJustified, LinkIsJustified, PrimariesAreJustified, MakesPrimary
  <2>10. req' = [req EXCEPT ![r].pc = "staged", ![r].walk = None, ![r].writes = {c}] /\ UNCHANGED <<db, raced>>
    BY <1>4 DEF ParentFound
  <2>11. QED
    BY <1>3, <2>4, <2>5, <2>9, <2>10 DEF Reads
<1>5. CASE NoPathFound(r)
  <2> DEFINE c == Insert("dependency", <<w.task, w.target>>, [id |-> r])
  <2>1. w.kind = "dependency" /\ w.task \in Tasks /\ w.target \in Tasks /\ [id |-> r] \in Link
    BY <1>2, <1>5 DEF NoPathFound, Walk, IsSearching, Link
  <2>2. /\ c.table = "dependency" /\ c.key = <<w.task, w.target>> /\ c.old = None /\ c.new = [id |-> r]
        /\ DOMAIN c = {"table", "key", "old", "new"}
    BY DEF Insert
  <2>3. IsChange(c, Schema)
    BY <2>1, <2>2, SchemaTables, NoneIsNoRow DEF IsChange
  <2>4. "dependency" \notin since => NoWayAlong(w.target, w.task)
    <3>1. SUFFICES ASSUME "dependency" \notin since PROVE NoWayAlong(w.target, w.task)
      OBVIOUS
    <3>2. w.visited \in SUBSET Tasks /\ w.target \in w.visited /\ w.task \notin w.visited /\ ClosedAlong(w.visited)
      BY <1>1, <1>2, <2>1, <3>1 DEF IsSearching, ClosedAlong, Walk
    <3>3. QED
      BY <3>2 DEF NoWayAlong
  <2>5. c.key[1] = w.task /\ c.key[2] = w.target
    BY <2>2
  <2>6. AreJustified({c}, since)
    BY <2>2, <2>4, <2>5 DEF AreJustified, TaskIsJustified, LinkIsJustified, PrimariesAreJustified, MakesPrimary
  <2>7. req' = [req EXCEPT ![r].pc = "staged", ![r].walk = None, ![r].writes = {c}] /\ UNCHANGED <<db, raced>>
    BY <1>5 DEF NoPathFound
  <2>8. QED
    BY <1>3, <2>2, <2>3, <2>6, <2>7 DEF Reads
<1>6. QED
  BY <1>4, <1>5

-----------------------------------------------------------------------------
(* What a commit leaves of the tasks.                                      *)

TaskColumns == {"status", "completed", "parent", "start", "due", "archived", "deleted"}

(* A task that is another one after the commit was written by a change of  *)
(* the request, in the columns in which the change differs from its row.   *)
WrittenBy(c, t, since) ==
    /\ c.table = "task" /\ c.key = t /\ c.new \in Task /\ TaskIsJustified(c, since)
    /\ c.old = None => db["task"][t] = None /\ db'["task"][t] = c.new
    /\ c.old # None =>
          /\ c.old \in Task /\ db["task"][t] \in Task
          /\ \A f \in TaskColumns :
                /\ db'["task"][t][f] # db["task"][t][f] => c.new[f] # c.old[f] /\ db'["task"][t][f] = c.new[f]
                /\ f \notin since => db'["task"][t][f] = c.new[f] /\ db["task"][t][f] = c.old[f]

LEMMA CommitTask ==
    ASSUME IInv, NEW r \in Requests, NEW admitted, CommitUnder(r, admitted), NEW t \in Tasks
    PROVE  /\ db'["task"][t] \in Task \cup {None}
           /\ db["task"][t] # None => db'["task"][t] # None
           /\ db["task"][t] # None => \A f \in TaskColumns \ TouchedBy(r) : db'["task"][t][f] = db["task"][t][f]
           /\ db'["task"][t] # db["task"][t] => \E c \in req[r].writes : WrittenBy(c, t, req[r].since)
<1>0. Shared(Schema) /\ CommitTo(r, admitted, Closed)
  BY DEF IInv, CommitUnder
<1>1. /\ db'["task"][t] \in Task \cup {None}
      /\ db["task"][t] # None => db'["task"][t] # None
      /\ Leaves(db'["task"][t], db["task"][t], "task", TouchedBy(r))
  BY <1>0, SchemaTables, CommitRow
<1>2. \A row \in Task : DOMAIN row = TaskColumns
  BY DEF Task, TaskColumns
<1>3. db["task"][t] \in Task \cup {None} /\ None \notin Task
  BY Typed, NoneIsNoRow
<1>4. db["task"][t] # None => \A f \in TaskColumns \ TouchedBy(r) : db'["task"][t][f] = db["task"][t][f]
  BY <1>1, <1>2, <1>3 DEF Leaves
<1>5. ASSUME db'["task"][t] # db["task"][t] PROVE \E c \in req[r].writes : WrittenBy(c, t, req[r].since)
  <2>1. PICK c \in req[r].writes : c.table = "task" /\ c.key = t
    BY <1>0, <1>5, SchemaTables, CommitLeaves
  <2>2. db'["task"][t] = Written(db["task"][t], c) /\ ~Fails(db["task"][t], c)
    BY <1>0, <2>1, CommitWrites
  <2>3. IsChange(c, Schema) /\ TaskIsJustified(c, req[r].since) /\ IsCurrent(c, req[r].since, Schema)
    BY DEF IInv, Shared, WritesTyped, AreChanges, RequestsAreJustified, AreJustified, ReadsAreCurrent
  <2>4. c.new \in Task /\ c.new # None /\ c.old \in Task \cup {None}
    BY <2>1, <2>3, SchemaTables DEF IsChange
  <2>5. CASE c.old = None
    BY <2>1, <2>2, <2>3, <2>4, <2>5 DEF WrittenBy, Written, Fails
  <2>6. CASE c.old # None
    <3>1. db["task"][t] \in Task /\ c.old \in Task
      BY <1>3, <2>2, <2>4, <2>6 DEF Fails, SameRow
    <3>2. db'["task"][t] = [f \in TaskColumns |-> IF c.new[f] # c.old[f] THEN c.new[f] ELSE db["task"][t][f]]
      BY <1>2, <2>2, <2>4, <2>6, <3>1 DEF Written, Updated, Touched
    <3>3. \A f \in TaskColumns : f \notin req[r].since => db["task"][t][f] = c.old[f]
      BY <1>2, <2>1, <2>3, <2>6, <3>1, SchemaTables DEF IsCurrent
    <3>4. \A f \in TaskColumns :
             /\ db'["task"][t][f] # db["task"][t][f] => c.new[f] # c.old[f] /\ db'["task"][t][f] = c.new[f]
             /\ f \notin req[r].since => db'["task"][t][f] = c.new[f] /\ db["task"][t][f] = c.old[f]
      BY <3>2, <3>3
    <3>5. QED
      BY <2>1, <2>3, <2>4, <2>6, <3>1, <3>4 DEF WrittenBy
  <2>7. QED
    BY <2>5, <2>6
<1>6. QED
  BY <1>1, <1>4, <1>5

(* The task that was there, and its life.                                  *)
LEMMA CommitLife ==
    ASSUME IInv, NEW r \in Requests, NEW admitted, CommitUnder(r, admitted)
    PROVE  /\ Stored("task") \subseteq Stored("task")'
           /\ \A t \in Stored("task") :
                 /\ db["task"][t].deleted => db'["task"][t].deleted
                 /\ Live(t)' => Live(t)
                 /\ "parent" \notin TouchedBy(r) => db'["task"][t].parent = db["task"][t].parent
           /\ Stored("task")' = {t \in Tasks : db'["task"][t] # None}
           /\ \A t \in Stored("task")' \ Stored("task") :
                 \E c \in req[r].writes : /\ c.table = "task" /\ c.key = t /\ c.old = None /\ c.new = db'["task"][t]
                                          /\ c.new \in Task /\ TaskIsJustified(c, req[r].since)
<1>1. Stored("task") = {t \in Tasks : db["task"][t] # None} /\ \A t \in Tasks : db["task"][t] \in Task \cup {None}
  BY Typed
<1>2. Stored("task")' = {t \in Tasks : db'["task"][t] # None}
  <2>1. HasSchema(db, Schema)'
    BY CommitKeepsSchema DEF IInv, CommitUnder
  <2>2. QED
    BY <2>1, SchemaTables DEF HasSchema, Stored, Rows
<1>3. Stored("task") \subseteq Stored("task")'
  BY <1>1, <1>2, CommitTask
<1>4. ASSUME NEW t \in Stored("task"), db["task"][t].deleted PROVE db'["task"][t].deleted
  <2>1. db["task"][t] \in Task /\ db'["task"][t] \in Task
    BY <1>1, <1>2, <1>3, CommitTask
  <2>2. SUFFICES ASSUME ~db'["task"][t].deleted PROVE FALSE
    OBVIOUS
  <2>3. PICK c \in req[r].writes : WrittenBy(c, t, req[r].since)
    BY <1>1, <1>4, <2>2, CommitTask
  <2>4. db["task"][t].deleted = TRUE /\ db'["task"][t].deleted = FALSE
    BY <1>4, <2>1, <2>2 DEF Task
  <2>5. c.new.deleted # c.old.deleted /\ c.new.deleted = FALSE /\ c.old \in Task /\ c.table = "task" /\ TaskIsJustified(c, req[r].since)
    BY <1>1, <2>3, <2>4 DEF WrittenBy, TaskColumns
  <2>6. c.old.deleted = TRUE
    BY <2>5 DEF Task
  <2>7. QED
    BY <2>5, <2>6, NoneIsNoRow DEF TaskIsJustified
<1>5. ASSUME NEW t \in Stored("task"), Live(t)' PROVE Live(t)
  BY <1>1, <1>4, <1>5 DEF Live
<1>6. ASSUME NEW t \in Stored("task"), "parent" \notin TouchedBy(r) PROVE db'["task"][t].parent = db["task"][t].parent
  BY <1>1, <1>6, CommitTask DEF TaskColumns
<1>7. ASSUME NEW t \in Stored("task")' \ Stored("task")
      PROVE  \E c \in req[r].writes : /\ c.table = "task" /\ c.key = t /\ c.old = None /\ c.new = db'["task"][t]
                                      /\ c.new \in Task /\ TaskIsJustified(c, req[r].since)
  <2>1. t \in Tasks /\ db["task"][t] = None /\ db'["task"][t] # None
    BY <1>1, <1>2
  <2>2. PICK c \in req[r].writes : WrittenBy(c, t, req[r].since)
    BY <2>1, CommitTask
  <2>3. QED
    BY <2>1, <2>2, NoneIsNoRow DEF WrittenBy
<1>8. QED
  BY <1>2, <1>3, <1>4, <1>5, <1>6, <1>7

(* Every row keeps its columns' promise: the change that was not overtaken *)
(* wrote all of what it had read.                                          *)
LEMMA CommitKeepsTasksSound ==
    ASSUME IInv, NEW r \in Requests, CommitUnder(r, Constraints(Outcome(r)))
    PROVE  TasksAreSound'
<1>0. Shared(Schema) /\ CommitTo(r, Constraints(Outcome(r)), Closed) /\ TasksAreSound
  BY DEF IInv, CommitUnder
<1>1. HasSchema(db, Schema)'
  BY <1>0, CommitKeepsSchema
<1>2. Constraints(db)'
  BY <1>0 DEF CommitTo, Constraints, Rows
<1>3. RequestsAreSound'
  <2>1. DOMAIN req' = Requests /\ req'[r] = Closed
        /\ \A s \in Requests \ {r} :
              /\ req'[s].pc = req[s].pc /\ req'[s].writes = req[s].writes /\ req'[s].walk = req[s].walk
              /\ req[s].pc \in {"new", "done"} => req'[s] = req[s]
    BY <1>0, CommitRequests
  <2>2. Closed.pc = "done" /\ Closed.writes = {}
    BY DEF Closed, Fresh
  <2>3. QED
    BY <1>0, <2>1, <2>2 DEF TasksAreSound, RequestsAreSound
<1>4. ASSUME NEW t \in Stored("task")', NEW A, A \in {{"status", "completed"}, {"start", "due"}}, Undisturbed(A, A)'
      PROVE  \/ t \in Stored("task") /\ Undisturbed(A, A) /\ \A f \in A : db'["task"][t][f] = db["task"][t][f]
             \/ \E c : c.table = "task" /\ TaskIsJustified(c, req[r].since) /\ \A f \in A : db'["task"][t][f] = c.new[f]
  <2>0. A \subseteq TaskColumns
    BY <1>4 DEF TaskColumns
  <2>1. Undisturbed(A, A) /\ (TouchedBy(r) \cap A = {} \/ req[r].since \cap A = {})
    BY <1>0, <1>4, CommitRaces
  <2>2. CASE t \notin Stored("task")
    BY <2>2, CommitLife
  <2>3. CASE t \in Stored("task") /\ TouchedBy(r) \cap A = {}
    BY <2>0, <2>1, <2>3, Typed, CommitTask
  <2>4. CASE t \in Stored("task") /\ req[r].since \cap A = {}
    <3>1. CASE db'["task"][t] = db["task"][t]
      BY <2>1, <2>4, <3>1
    <3>2. CASE db'["task"][t] # db["task"][t]
      <4>1. PICK c \in req[r].writes : WrittenBy(c, t, req[r].since)
        BY <2>4, <3>2, Typed, CommitTask
      <4>2. \A f \in A : db'["task"][t][f] = c.new[f]
        BY <2>0, <2>4, <4>1 DEF WrittenBy
      <4>3. QED
        BY <4>1, <4>2 DEF WrittenBy
    <3>3. QED
      BY <3>1, <3>2
  <2>5. QED
    BY <2>1, <2>2, <2>3, <2>4
<1>5. ASSUME NEW t \in Stored("task")', Undisturbed({"status", "completed"}, {"status", "completed"})'
      PROVE  db'["task"][t].completed <=> db'["task"][t].status = "done"
  <2> DEFINE A == {"status", "completed"}
  <2>1. CASE t \in Stored("task") /\ Undisturbed(A, A) /\ \A f \in A : db'["task"][t][f] = db["task"][t][f]
    BY <1>0, <2>1 DEF TasksAreSound
  <2>2. ASSUME NEW c, c.table = "task", TaskIsJustified(c, req[r].since), \A f \in A : db'["task"][t][f] = c.new[f]
        PROVE  db'["task"][t].completed <=> db'["task"][t].status = "done"
    <3>1. Undisturbed(A, A)
      BY <1>0, <1>5, CommitRaces
    <3>2. QED
      BY <2>2, <3>1 DEF TaskIsJustified
  <2>3. QED
    BY <1>4, <1>5, <2>1, <2>2
<1>6. ASSUME NEW t \in Stored("task")', Undisturbed({"start", "due"}, {"start", "due"})'
      PROVE  InOrder(db'["task"][t].start, db'["task"][t].due)
  <2> DEFINE A == {"start", "due"}
  <2>1. CASE t \in Stored("task") /\ Undisturbed(A, A) /\ \A f \in A : db'["task"][t][f] = db["task"][t][f]
    BY <1>0, <2>1 DEF TasksAreSound
  <2>2. ASSUME NEW c, c.table = "task", TaskIsJustified(c, req[r].since), \A f \in A : db'["task"][t][f] = c.new[f]
        PROVE  InOrder(db'["task"][t].start, db'["task"][t].due)
    <3>1. Undisturbed(A, A)
      BY <1>0, <1>6, CommitRaces
    <3>2. QED
      BY <2>2, <3>1 DEF TaskIsJustified
  <2>3. QED
    BY <1>4, <1>6, <2>1, <2>2
<1>7. QED
  BY <1>1, <1>2, <1>3, <1>5, <1>6 DEF TasksAreSound

-----------------------------------------------------------------------------
(* The graphs stay acyclic.                                                *)

LEMMA FewerEdges ==
    ASSUME NEW edges, NEW fewer, Acyclic(edges), \A t, u \in Tasks : <<t, u>> \in fewer => <<t, u>> \in edges
    PROVE  Acyclic(fewer)
  BY DEF Acyclic

(* An edge to a set of tasks that no edge leaves closes no cycle from      *)
(* outside the set.                                                        *)
LEMMA OneMoreEdge ==
    ASSUME NEW edges, NEW more, NEW a, NEW b, NEW V \in SUBSET Tasks, Acyclic(edges),
           \A t, u \in Tasks : <<t, u>> \in more => <<t, u>> \in edges \/ (t = a /\ u = b),
           \A t \in V, u \in Tasks : <<t, u>> \in edges => u \in V,
           b \in V, a \notin V
    PROVE  Acyclic(more)
<1>1. SUFFICES ASSUME NEW S \in SUBSET Tasks, \A t \in S : \E u \in S : <<t, u>> \in more PROVE S = {}
  BY DEF Acyclic
<1>2. CASE b \notin S
  <2>1. ASSUME NEW t \in S PROVE \E u \in S : <<t, u>> \in edges
    <3>1. PICK u \in S : <<t, u>> \in more
      BY <1>1
    <3>2. QED
      BY <1>2, <3>1
  <2>2. QED
    BY <2>1 DEF Acyclic
<1>3. CASE b \in S
  <2> DEFINE W == S \cap V
  <2>1. ASSUME NEW t \in W PROVE \E u \in W : <<t, u>> \in edges
    <3>1. PICK u \in S : <<t, u>> \in more
      BY <1>1
    <3>2. <<t, u>> \in edges
      BY <3>1
    <3>3. u \in W
      BY <3>2
    <3>4. QED
      BY <3>2, <3>3
  <2>2. W = {}
    BY <2>1 DEF Acyclic
  <2>3. QED
    BY <1>3, <2>2
<1>4. QED
  BY <1>2, <1>3

(* Names of tables and of columns are told apart.                          *)
LEMMA TouchedNames ==
    ASSUME IInv, NEW r \in Requests, NEW c \in req[r].writes
    PROVE  /\ \A table \in {"dependency", "relation", "assignment"} :
                 table \in Touched(c) => c.table = table /\ (c.old = None \/ c.new = None)
           /\ \A f \in TaskColumns :
                 f \in Touched(c) =>
                    /\ c.table = "task" /\ c.old # None /\ c.new # None /\ c.new[f] # c.old[f]
                    /\ IsChange(c, Schema) /\ IsCurrent(c, req[r].since, Schema) /\ req[r].writes = {c}
           /\ "primary" \in Touched(c) => c.table = "assignment"
           /\ \A f \in {"workflow", "transitions"} : f \in Touched(c) => c.table = "workflow"
<1>1. IsChange(c, Schema) /\ IsCurrent(c, req[r].since, Schema) /\ (c.table # "assignment" => req[r].writes = {c})
  BY DEF IInv, Shared, WritesTyped, AreChanges, ReadsAreCurrent, RequestsAreJustified, AreJustified
<1>2. CASE None \in {c.old, c.new}
  BY <1>1, <1>2, SchemaTables DEF Touched, IsChange, TaskColumns
<1>3. CASE None \notin {c.old, c.new}
  <2>1. Touched(c) = {f \in DOMAIN c.new : c.new[f] # c.old[f]}
    BY <1>3 DEF Touched
  <2>2. c.new \in Schema[c.table].rows /\ c.table \in DOMAIN Schema
    BY <1>1, <1>3 DEF IsChange
  <2>3. CASE c.table = "task"
    BY <1>1, <1>3, <2>1, <2>2, <2>3, SchemaTables DEF Task, TaskColumns
  <2>4. CASE c.table = "assignment"
    BY <2>1, <2>2, <2>4, SchemaTables DEF Assignment, TaskColumns
  <2>5. CASE c.table = "label"
    BY <2>1, <2>2, <2>5, SchemaTables DEF Label, TaskColumns
  <2>6. CASE c.table \in {"labelled", "dependency", "relation"}
    <3>1. c.new \in Link
      BY <2>2, <2>6, SchemaTables
    <3>2. Touched(c) \subseteq {"id"}
      BY <2>1, <3>1 DEF Link
    <3>3. QED
      BY <3>2 DEF TaskColumns
  <2>7. CASE c.table = "workflow"
    BY <2>1, <2>2, <2>7, SchemaTables DEF ProjectWorkflow, TaskColumns
  <2>8. QED
    BY <2>2, <2>3, <2>4, <2>5, <2>6, <2>7, SchemaTables
<1>4. QED
  BY <1>2, <1>3

LEMMA CommitKeepsParentsAcyclic ==
    ASSUME IInv, NEW r \in Requests, NEW admitted, CommitUnder(r, admitted), Undisturbed({"parent"}, {"parent"})'
    PROVE  Acyclic(Parents)'
<1>0. /\ Acyclic(Parents) /\ Constraints(db)
      /\ "parent" \in TouchedBy(r) => "parent" \notin req[r].since
  <2>1. Undisturbed({"parent"}, {"parent"}) /\ (TouchedBy(r) \cap {"parent"} = {} \/ req[r].since \cap {"parent"} = {})
    BY CommitRaces DEF CommitUnder
  <2>2. QED
    BY <2>1 DEF IInv, GraphsAreAcyclic, TasksAreSound
<1>1. /\ \A t \in Stored("task") : /\ Live(t)' => Live(t)
                                   /\ "parent" \notin TouchedBy(r) => db'["task"][t].parent = db["task"][t].parent
      /\ \A t \in Tasks : Live(t)' => t \in Stored("task")'
  BY CommitLife DEF Live
<1>2. CASE "parent" \notin TouchedBy(r)
  <2>1. SUFFICES ASSUME NEW S \in SUBSET Tasks, \A t \in S : \E u \in S : <<t, u>> \in Parents' PROVE S = {}
    BY DEF Acyclic
  <2>2. ASSUME NEW t \in S PROVE Live(t)' /\ db'["task"][t].parent \in S
    BY <2>1 DEF Parents
  <2>3. ASSUME NEW t \in S PROVE db'["task"][t].parent \in Stored("task")
    <3>1. CASE t \in Stored("task")
      <4>1. db["task"][t].parent \in S
        BY <1>1, <1>2, <2>2, <3>1
      <4>2. QED
        BY <1>0, <1>1, <1>2, <3>1, <4>1, NoneIsNoRow DEF Constraints, Stored
    <3>2. CASE t \notin Stored("task")
      <4>1. PICK c : c.table = "task" /\ c.old = None /\ c.new = db'["task"][t] /\ TaskIsJustified(c, req[r].since)
        BY <1>1, <2>2, <3>2, CommitLife
      <4>2. QED
        BY <2>2, <4>1, NoneIsNoRow DEF TaskIsJustified
    <3>3. QED
      BY <3>1, <3>2
  <2> DEFINE W == S \cap Stored("task")
  <2>4. ASSUME NEW t \in W PROVE \E u \in W : <<t, u>> \in Parents
    <3>1. db["task"][t].parent \in W /\ Live(t)
      BY <1>1, <1>2, <2>2, <2>3
    <3>2. Live(db["task"][t].parent)
      BY <1>1, <2>2, <3>1
    <3>3. QED
      BY <3>1, <3>2 DEF Parents
  <2>5. W = {}
    BY <1>0, <2>4 DEF Acyclic
  <2>6. QED
    BY <2>2, <2>3, <2>5
<1>3. CASE "parent" \in TouchedBy(r)
  <2>1. PICK c \in req[r].writes : "parent" \in Touched(c)
    BY <1>3 DEF TouchedBy
  <2>2. /\ c.table = "task" /\ c.old # None /\ c.new # None /\ c.new.parent # c.old.parent
        /\ IsChange(c, Schema) /\ req[r].writes = {c}
    BY <2>1, TouchedNames DEF TaskColumns
  <2> DEFINE k == c.key
  <2>3. k \in Tasks /\ TaskIsJustified(c, req[r].since)
    BY <2>2, SchemaTables DEF IsChange, IInv, RequestsAreJustified, AreJustified
  <2>4. c.new.parent = None \/ NoWayUp(c.new.parent, k)
    BY <1>0, <1>3, <2>2, <2>3 DEF TaskIsJustified
  <2>5. ASSUME NEW t \in Tasks, NEW u \in Tasks, <<t, u>> \in Parents'
        PROVE  <<t, u>> \in Parents \/ (t = k /\ u = c.new.parent)
    <3>1. Live(t)' /\ Live(u)' /\ db'["task"][t].parent = u
      BY <2>5 DEF Parents
    <3>2. t \in Stored("task") /\ u \in Stored("task")
      BY <1>1, <2>2, <3>1, CommitLife
    <3>3. CASE t = k
      <4>1. CASE db'["task"][t] = db["task"][t]
        BY <1>1, <3>1, <3>2, <4>1 DEF Parents
      <4>2. CASE db'["task"][t] # db["task"][t]
        <5>1. WrittenBy(c, t, req[r].since)
          BY <2>2, <4>2, CommitTask
        <5>2. db'["task"][t].parent = c.new.parent
          BY <1>0, <1>3, <2>2, <5>1 DEF WrittenBy, TaskColumns
        <5>3. QED
          BY <3>1, <3>3, <5>2
      <4>3. QED
        BY <4>1, <4>2
    <3>4. CASE t # k
      <4>1. db'["task"][t] = db["task"][t]
        BY <2>2, <3>4, CommitTask DEF WrittenBy
      <4>2. QED
        BY <1>1, <3>1, <3>2, <4>1 DEF Parents
    <3>5. QED
      BY <3>3, <3>4
  <2>6. CASE c.new.parent = None
    BY <1>0, <2>5, <2>6, FewerEdges, NoneIsNoRow
  <2>7. CASE NoWayUp(c.new.parent, k)
    <3>1. PICK V \in SUBSET Tasks : c.new.parent \in V /\ k \notin V /\ ClosedUp(V)
      BY <2>7 DEF NoWayUp
    <3>2. \A t \in V, u \in Tasks : <<t, u>> \in Parents => u \in V
      BY <3>1, NoneIsNoRow DEF ClosedUp, ParentOf, Parents
    <3>3. QED
      BY <1>0, <2>5, <3>1, <3>2, OneMoreEdge
  <2>8. QED
    BY <2>4, <2>6, <2>7
<1>4. QED
  BY <1>2, <1>3

(* What a commit leaves of the links.                                      *)
LEMMA CommitLinks ==
    ASSUME IInv, NEW r \in Requests, NEW admitted, CommitUnder(r, admitted), NEW table \in {"dependency", "relation"}
    PROVE  /\ Stored(table)' \subseteq Tasks \X Tasks
           /\ table \notin TouchedBy(r) => Stored(table)' = Stored(table)
           /\ table \in TouchedBy(r) =>
                 \E c \in req[r].writes :
                    /\ c.table = table /\ LinkIsJustified(c, req[r].since) /\ req[r].writes = {c}
                    /\ \/ c.new = None /\ Stored(table)' \subseteq Stored(table)
                       \/ c.old = None /\ c.key \in Tasks \X Tasks /\ Stored(table)' \subseteq Stored(table) \cup {c.key}
<1>0. Shared(Schema) /\ CommitTo(r, admitted, Closed)
  BY DEF IInv, CommitUnder
<1>1. Stored(table) = {k \in Tasks \X Tasks : db[table][k] # None}
  BY Typed
<1>2. Stored(table)' = {k \in Tasks \X Tasks : db'[table][k] # None}
  <2>1. HasSchema(db, Schema)'
    BY <1>0, CommitKeepsSchema
  <2>2. QED
    BY <2>1, SchemaTables DEF HasSchema, Stored, Rows
<1>3. ASSUME table \notin TouchedBy(r) PROVE Stored(table)' = Stored(table)
  <2>1. \A k \in Tasks \X Tasks : db'[table][k] = None <=> db[table][k] = None
    BY <1>0, <1>3, SchemaTables, CommitRow DEF Leaves
  <2>2. QED
    BY <1>1, <1>2, <2>1
<1>4. ASSUME table \in TouchedBy(r)
      PROVE  \E c \in req[r].writes :
                    /\ c.table = table /\ LinkIsJustified(c, req[r].since) /\ req[r].writes = {c}
                    /\ \/ c.new = None /\ Stored(table)' \subseteq Stored(table)
                       \/ c.old = None /\ c.key \in Tasks \X Tasks /\ Stored(table)' \subseteq Stored(table) \cup {c.key}
  <2>1. PICK c \in req[r].writes : table \in Touched(c)
    BY <1>4 DEF TouchedBy
  <2>2. c.table = table /\ (c.old = None \/ c.new = None)
    BY <2>1, TouchedNames
  <2>3. LinkIsJustified(c, req[r].since) /\ req[r].writes = {c} /\ IsChange(c, Schema)
    BY <2>2 DEF IInv, RequestsAreJustified, AreJustified, Shared, WritesTyped, AreChanges
  <2>4. \A k \in Tasks \X Tasks : k # c.key => db'[table][k] = db[table][k]
    BY <1>0, <2>3, SchemaTables, CommitLeaves
  <2>5. c.key \in Tasks \X Tasks
    BY <2>2, <2>3, SchemaTables DEF IsChange
  <2>6. CASE c.old = None
    BY <1>1, <1>2, <2>2, <2>3, <2>4, <2>5, <2>6
  <2>7. CASE c.old # None /\ c.new = None
    <3>1. db'[table][c.key] = Written(db[table][c.key], c)
      BY <1>0, <2>2, CommitWrites
    <3>2. db'[table][c.key] \in {None, db[table][c.key]}
      BY <2>7, <3>1 DEF Written
    <3>3. QED
      BY <1>1, <1>2, <2>2, <2>3, <2>4, <2>7, <3>2
  <2>8. QED
    BY <2>2, <2>6, <2>7
<1>5. QED
  BY <1>2, <1>3, <1>4

LEMMA CommitKeepsDependenciesAcyclic ==
    ASSUME IInv, NEW r \in Requests, NEW admitted, CommitUnder(r, admitted), Undisturbed({"dependency"}, {"dependency"})'
    PROVE  Acyclic(Stored("dependency"))'
<1>0. /\ Acyclic(Stored("dependency"))
      /\ "dependency" \in TouchedBy(r) => "dependency" \notin req[r].since
  <2>1. /\ Undisturbed({"dependency"}, {"dependency"})
        /\ TouchedBy(r) \cap {"dependency"} = {} \/ req[r].since \cap {"dependency"} = {}
    BY CommitRaces DEF CommitUnder
  <2>2. QED
    BY <2>1 DEF IInv, GraphsAreAcyclic
<1>1. Acyclic(Stored("dependency"))' <=> Acyclic(Stored("dependency")')
  BY DEF Acyclic
<1>2. CASE "dependency" \notin TouchedBy(r)
  <2>1. Stored("dependency")' = Stored("dependency")
    BY <1>2, CommitLinks
  <2>2. QED
    BY <1>0, <1>1, <2>1
<1>3. CASE "dependency" \in TouchedBy(r)
  <2>1. PICK c \in req[r].writes :
           /\ c.table = "dependency" /\ LinkIsJustified(c, req[r].since)
           /\ \/ c.new = None /\ Stored("dependency")' \subseteq Stored("dependency")
              \/ c.old = None /\ c.key \in Tasks \X Tasks /\ Stored("dependency")' \subseteq Stored("dependency") \cup {c.key}
    BY <1>3, CommitLinks
  <2>2. CASE Stored("dependency")' \subseteq Stored("dependency")
    BY <1>0, <1>1, <2>2, FewerEdges
  <2>3. CASE c.old = None /\ c.key \in Tasks \X Tasks /\ Stored("dependency")' \subseteq Stored("dependency") \cup {c.key}
    <3>1. NoWayAlong(c.key[2], c.key[1])
      BY <1>0, <1>3, <2>1, <2>3 DEF LinkIsJustified
    <3>2. PICK V \in SUBSET Tasks : c.key[2] \in V /\ c.key[1] \notin V /\ ClosedAlong(V)
      BY <3>1 DEF NoWayAlong
    <3>3. \A t \in V, u \in Tasks : <<t, u>> \in Stored("dependency") => u \in V
      BY <3>2 DEF ClosedAlong, DependenciesOf
    <3>4. ASSUME NEW t \in Tasks, NEW u \in Tasks, <<t, u>> \in Stored("dependency")'
          PROVE  <<t, u>> \in Stored("dependency") \/ (t = c.key[1] /\ u = c.key[2])
      BY <2>3, <3>4
    <3>5. QED
      BY <1>0, <1>1, <3>2, <3>3, <3>4, OneMoreEdge
  <2>4. QED
    BY <2>1, <2>2, <2>3
<1>4. QED
  BY <1>2, <1>3

(* A pair that was free in both directions is taken in one.                *)
LEMMA CommitKeepsRelationsUnique ==
    ASSUME IInv, NEW r \in Requests, NEW admitted, CommitUnder(r, admitted), Constraints(db)',
           Undisturbed({"relation"}, {"relation"})', NEW t \in Tasks, NEW u \in Tasks
    PROVE  ~({<<t, u>>, <<u, t>>} \subseteq Stored("relation")')
<1>0. /\ ~({<<t, u>>, <<u, t>>} \subseteq Stored("relation"))
      /\ "relation" \in TouchedBy(r) => "relation" \notin req[r].since
  <2>1. /\ Undisturbed({"relation"}, {"relation"})
        /\ TouchedBy(r) \cap {"relation"} = {} \/ req[r].since \cap {"relation"} = {}
    BY CommitRaces DEF CommitUnder
  <2>2. QED
    BY <2>1 DEF IInv, LinksAreUnique
<1>1. CASE "relation" \notin TouchedBy(r)
  <2>1. Stored("relation")' = Stored("relation")
    BY <1>1, CommitLinks
  <2>2. QED
    BY <1>0, <2>1
<1>2. CASE "relation" \in TouchedBy(r)
  <2>1. PICK c \in req[r].writes :
           /\ c.table = "relation" /\ LinkIsJustified(c, req[r].since)
           /\ \/ c.new = None /\ Stored("relation")' \subseteq Stored("relation")
              \/ c.old = None /\ c.key \in Tasks \X Tasks /\ Stored("relation")' \subseteq Stored("relation") \cup {c.key}
    BY <1>2, CommitLinks
  <2>2. CASE Stored("relation")' \subseteq Stored("relation")
    BY <1>0, <2>2
  <2>3. CASE c.old = None /\ c.key \in Tasks \X Tasks /\ Stored("relation")' \subseteq Stored("relation") \cup {c.key}
    <3>1. c.key \notin Stored("relation") /\ <<c.key[2], c.key[1]>> \notin Stored("relation")
      BY <1>0, <1>2, <2>1, <2>3 DEF LinkIsJustified
    <3>2. SUFFICES ASSUME <<t, u>> \in Stored("relation")', <<u, t>> \in Stored("relation")' PROVE FALSE
      OBVIOUS
    <3>3. t # u
      <4>1. <<t, u>>[1] # <<t, u>>[2]
        BY <3>2 DEF Constraints, Stored
      <4>2. QED
        BY <4>1
    <3>4. CASE c.key = <<t, u>>
      <4>1. <<u, t>> \notin Stored("relation") /\ <<u, t>> # <<t, u>>
        BY <3>1, <3>3, <3>4
      <4>2. QED
        BY <2>3, <3>2, <3>4, <4>1
    <3>5. CASE c.key = <<u, t>>
      <4>1. <<t, u>> \notin Stored("relation") /\ <<u, t>> # <<t, u>>
        BY <3>1, <3>3, <3>5
      <4>2. QED
        BY <2>3, <3>2, <3>5, <4>1
    <3>6. QED
      BY <1>0, <2>3, <3>2, <3>4, <3>5
  <2>4. QED
    BY <2>1, <2>2, <2>3
<1>3. QED
  BY <1>1, <1>2

(* A request that has seen every primary clears all but the one it makes.  *)
LEMMA CommitAssignments ==
    ASSUME IInv, NEW r \in Requests, NEW admitted, CommitUnder(r, admitted), NEW t \in Tasks
    PROVE  /\ TouchedBy(r) \cap {"assignment", "primary"} = {} => PrimariesOf(t)' = PrimariesOf(t)
           /\ req[r].since \cap {"assignment", "primary"} = {} =>
                 \A u \in PrimariesOf(t)' :
                    \/ \E c \in req[r].writes : MakesPrimary(c) /\ c.key = <<t, u>>
                    \/ u \in PrimariesOf(t) /\ ~ClearsPrimary(req[r].writes, t, u)
<1>0. Shared(Schema) /\ CommitTo(r, admitted, Closed)
  BY DEF IInv, CommitUnder
<1>1. /\ Stored("assignment") = {k \in Tasks \X Users : db["assignment"][k] # None}
      /\ \A k \in Tasks \X Users : db["assignment"][k] \in Assignment \cup {None}
  BY Typed
<1>2. Stored("assignment")' = {k \in Tasks \X Users : db'["assignment"][k] # None}
  <2>1. HasSchema(db, Schema)'
    BY <1>0, CommitKeepsSchema
  <2>2. QED
    BY <2>1, SchemaTables DEF HasSchema, Stored, Rows
<1> DEFINE row(u) == db["assignment"][<<t, u>>]
           new(u) == db'["assignment"][<<t, u>>]
<1>3. PrimariesOf(t) = {u \in Users : row(u) # None /\ row(u).primary}
  BY <1>1 DEF PrimariesOf, AssigneesOf
<1>4. PrimariesOf(t)' = {u \in Users : new(u) # None /\ new(u).primary}
  BY <1>2 DEF PrimariesOf, AssigneesOf
<1>5. ASSUME TouchedBy(r) \cap {"assignment", "primary"} = {} PROVE PrimariesOf(t)' = PrimariesOf(t)
  <2>1. ASSUME NEW u \in Users
        PROVE  (new(u) = None <=> row(u) = None) /\ (row(u) # None => new(u).primary = row(u).primary)
    <3>1. Leaves(new(u), row(u), "assignment", TouchedBy(r)) /\ row(u) \in Assignment \cup {None}
      BY <1>0, <1>1, SchemaTables, CommitRow
    <3>2. \A a \in Assignment : "primary" \in DOMAIN a
      BY DEF Assignment
    <3>3. QED
      BY <1>5, <3>1, <3>2 DEF Leaves
  <2>2. QED
    BY <1>3, <1>4, <2>1
<1>6. ASSUME req[r].since \cap {"assignment", "primary"} = {}, NEW u \in PrimariesOf(t)'
      PROVE  \/ \E c \in req[r].writes : MakesPrimary(c) /\ c.key = <<t, u>>
             \/ u \in PrimariesOf(t) /\ ~ClearsPrimary(req[r].writes, t, u)
  <2>1. u \in Users /\ new(u) # None /\ new(u).primary
    BY <1>4, <1>6
  <2>2. CASE ~\E c \in req[r].writes : c.table = "assignment" /\ c.key = <<t, u>>
    <3>1. new(u) = row(u)
      BY <1>0, <2>1, <2>2, SchemaTables, CommitLeaves
    <3>2. QED
      BY <1>3, <2>1, <2>2, <3>1 DEF ClearsPrimary
  <2>3. ASSUME NEW c \in req[r].writes, c.table = "assignment", c.key = <<t, u>> PROVE MakesPrimary(c)
    <3>1. new(u) = Written(row(u), c)
      BY <1>0, <2>3, CommitWrites
    <3>2. IsChange(c, Schema) /\ IsCurrent(c, req[r].since, Schema)
      BY DEF IInv, Shared, WritesTyped, AreChanges, ReadsAreCurrent
    <3>3. CASE c.old = None
      BY <2>1, <2>3, <3>1, <3>2, <3>3 DEF Written, MakesPrimary, IsChange
    <3>4. CASE c.old # None /\ c.new = None
      <4>1. SameRow(row(u), c.old)
        BY <1>6, <2>3, <3>2, <3>4 DEF IsCurrent
      <4>2. new(u) = None
        BY <3>1, <3>4, <4>1 DEF Written
      <4>3. QED
        BY <2>1, <4>2
    <3>5. CASE c.old # None /\ c.new # None
      <4>1. c.new \in Assignment
        BY <2>3, <3>2, <3>5, SchemaTables DEF IsChange
      <4>2. "primary" \in DOMAIN c.new /\ "primary" \notin req[r].since /\ c.table \notin req[r].since
        BY <1>6, <2>3, <4>1 DEF Assignment
      <4>3. new(u).primary = c.new.primary
        BY <1>0, <2>3, <3>2, <3>5, <4>2, CleanColumn
      <4>4. QED
        BY <2>1, <2>3, <3>5, <4>3 DEF MakesPrimary
    <3>6. QED
      BY <3>3, <3>4, <3>5
  <2>4. QED
    BY <2>2, <2>3
<1>7. QED
  BY <1>5, <1>6

LEMMA CommitKeepsOnePrimary ==
    ASSUME IInv, NEW r \in Requests, NEW admitted, CommitUnder(r, admitted), NEW t \in Tasks,
           Undisturbed({"assignment", "primary"}, {"assignment", "primary", "itself"})',
           NEW u \in PrimariesOf(t)', NEW v \in PrimariesOf(t)'
    PROVE  u = v
<1>1. /\ \A x, y \in PrimariesOf(t) : x = y
      /\ \/ TouchedBy(r) \cap {"assignment", "primary"} = {}
         \/ req[r].since \cap {"assignment", "primary", "itself"} = {}
  <2>1. /\ Undisturbed({"assignment", "primary"}, {"assignment", "primary", "itself"})
        /\ \/ TouchedBy(r) \cap {"assignment", "primary"} = {}
           \/ req[r].since \cap {"assignment", "primary", "itself"} = {}
    BY CommitRaces DEF CommitUnder
  <2>2. QED
    BY <2>1 DEF IInv, LinksAreUnique
<1>2. CASE TouchedBy(r) \cap {"assignment", "primary"} = {}
  <2>1. PrimariesOf(t)' = PrimariesOf(t)
    BY <1>2, CommitAssignments
  <2>2. QED
    BY <1>1, <2>1
<1>3. CASE req[r].since \cap {"assignment", "primary", "itself"} = {}
  <2> DEFINE writes == req[r].writes
             Made(x) == \E c \in writes : MakesPrimary(c) /\ c.key = <<t, x>>
             Left(x) == x \in PrimariesOf(t) /\ ~ClearsPrimary(writes, t, x)
  <2>1. \A x \in PrimariesOf(t)' : Made(x) \/ Left(x)
    BY <1>3, CommitAssignments
  <2>2. /\ \A c, e \in writes : MakesPrimary(c) /\ MakesPrimary(e) => c = e
        /\ \A c \in writes : MakesPrimary(c) => \A x \in PrimariesOf(c.key[1]) : ClearsPrimary(writes, c.key[1], x)
    BY <1>3 DEF IInv, RequestsAreJustified, AreJustified, PrimariesAreJustified
  <2>3. ASSUME NEW x, NEW y, Made(x), Made(y) PROVE x = y
    <3>1. <<t, x>> = <<t, y>>
      BY <2>2, <2>3
    <3>2. QED
      BY <3>1
  <2>4. ASSUME NEW x, NEW y, Made(x), Left(y) PROVE FALSE
    <3>1. PICK c \in writes : MakesPrimary(c) /\ c.key = <<t, x>>
      BY <2>4
    <3>2. c.key[1] = t
      BY <3>1
    <3>3. QED
      BY <2>2, <2>4, <3>1, <3>2
  <2>5. QED
    BY <1>1, <2>1, <2>3, <2>4
<1>4. QED
  BY <1>1, <1>2, <1>3

-----------------------------------------------------------------------------
(* What a commit leaves of what the other requests know.                   *)

LEMMA CommitKeepsKnowledge ==
    ASSUME IInv, NEW r \in Requests, NEW admitted, CommitUnder(r, admitted)
    PROVE  /\ "parent" \notin TouchedBy(r) => \A v \in Stored("task") : ParentOf(v)' \in {ParentOf(v), None}
           /\ "dependency" \notin TouchedBy(r) => \A v \in Tasks : DependenciesOf(v)' = DependenciesOf(v)
           /\ TouchedBy(r) \cap {"workflow", "transitions"} = {} => Workflow' = Workflow
<1>1. ASSUME "parent" \notin TouchedBy(r), NEW v \in Stored("task") PROVE ParentOf(v)' \in {ParentOf(v), None}
  BY <1>1, CommitLife DEF ParentOf
<1>2. ASSUME "dependency" \notin TouchedBy(r), NEW v \in Tasks PROVE DependenciesOf(v)' = DependenciesOf(v)
  <2>1. Stored("dependency")' = Stored("dependency")
    BY <1>2, CommitLinks
  <2>2. QED
    BY <2>1 DEF DependenciesOf
<1>3. ASSUME TouchedBy(r) \cap {"workflow", "transitions"} = {} PROVE Workflow' = Workflow
  <2> DEFINE row == db["workflow"]["project"]
             new == db'["workflow"]["project"]
  <2>1. /\ new \in ProjectWorkflow \cup {None} /\ Leaves(new, row, "workflow", TouchedBy(r))
    BY SchemaTables, CommitRow DEF IInv, CommitUnder
  <2>2. row \in ProjectWorkflow \cup {None} /\ \A w \in ProjectWorkflow : "transitions" \in DOMAIN w
    BY Typed DEF ProjectWorkflow
  <2>3. (new = None <=> row = None) /\ (row # None => new.transitions = row.transitions)
    BY <1>3, <2>1, <2>2 DEF Leaves
  <2>4. QED
    BY <2>3 DEF Workflow
<1>4. QED
  BY <1>1, <1>2, <1>3

LEMMA CommitKeepsJustified ==
    ASSUME IInv, NEW r \in Requests, NEW admitted, CommitUnder(r, admitted),
           NEW writes, NEW since, AreJustified(writes, since), AreChanges(writes, Schema),
           NEW later, later = since \cup TouchedBy(r)
    PROVE  AreJustified(writes, later)'
<1>0. CommitTo(r, admitted, Closed)
  BY DEF CommitUnder
<1>1. ASSUME NEW c \in writes PROVE TaskIsJustified(c, later)'
  <2>1. SUFFICES ASSUME c.table = "task" PROVE TaskIsJustified(c, later)'
    BY DEF TaskIsJustified
  <2>2. TaskIsJustified(c, since) /\ c.new \in Task
    BY <2>1, SchemaTables DEF AreJustified, AreChanges, IsChange
  <2>3. c.old = None => c.new.parent \in Stored("task")' \cup {None}
    BY <2>1, <2>2, CommitLife DEF TaskIsJustified
  <2>4. \A A : Undisturbed(A, A)' => Undisturbed(A, A)
    BY <1>0, CommitRaces
  <2>5. c.old # None /\ c.new.parent # c.old.parent /\ "parent" \notin later =>
           c.new.parent = None \/ NoWayUp(c.new.parent, c.key)'
    <3>1. SUFFICES ASSUME c.old # None, c.new.parent # c.old.parent, "parent" \notin later, c.new.parent # None
                   PROVE  NoWayUp(c.new.parent, c.key)'
      OBVIOUS
    <3>2. PICK V \in SUBSET Tasks : c.new.parent \in V /\ c.key \notin V /\ ClosedUp(V)
      BY <2>1, <2>2, <3>1 DEF TaskIsJustified, NoWayUp
    <3>3. V \subseteq Stored("task")' /\ \A v \in V : ParentOf(v)' \in V \cup {None}
      BY <3>1, <3>2, CommitLife, CommitKeepsKnowledge DEF ClosedUp
    <3>4. ClosedUp(V)'
      BY <3>3 DEF ClosedUp
    <3>5. QED
      BY <3>2, <3>4 DEF NoWayUp
  <2>6. c.old # None /\ c.new.status # c.old.status /\ later \cap {"status", "workflow", "transitions"} = {} =>
           IsValidTransition(c.old.status, c.new.status)'
    <3>1. SUFFICES ASSUME c.old # None, c.new.status # c.old.status, later \cap {"status", "workflow", "transitions"} = {}
                   PROVE  IsValidTransition(c.old.status, c.new.status)'
      OBVIOUS
    <3>2. IsValidTransition(c.old.status, c.new.status)
      BY <2>1, <2>2, <3>1 DEF TaskIsJustified
    <3>3. Workflow' = Workflow
      BY <3>1, CommitKeepsKnowledge
    <3>4. QED
      BY <3>2, <3>3 DEF IsValidTransition
  <2>7. QED
    BY <2>1, <2>2, <2>3, <2>4, <2>5, <2>6 DEF TaskIsJustified
<1>2. ASSUME NEW c \in writes PROVE LinkIsJustified(c, later)'
  <2>1. LinkIsJustified(c, since)
    BY DEF AreJustified
  <2>2. ASSUME c.table = "dependency", c.old = None, "dependency" \notin later PROVE NoWayAlong(c.key[2], c.key[1])'
    <3>1. PICK V \in SUBSET Tasks : c.key[2] \in V /\ c.key[1] \notin V /\ ClosedAlong(V)
      BY <2>1, <2>2 DEF LinkIsJustified, NoWayAlong
    <3>2. ClosedAlong(V)'
      BY <2>2, <3>1, CommitKeepsKnowledge DEF ClosedAlong
    <3>3. QED
      BY <3>1, <3>2 DEF NoWayAlong
  <2>3. ASSUME c.table = "relation", c.old = None, "relation" \notin later
        PROVE  {c.key, <<c.key[2], c.key[1]>>} \cap Stored("relation")' = {}
    <3>1. Stored("relation")' = Stored("relation")
      BY <2>3, CommitLinks
    <3>2. QED
      BY <2>1, <2>3, <3>1 DEF LinkIsJustified
  <2>4. QED
    BY <2>2, <2>3 DEF LinkIsJustified
<1>3. PrimariesAreJustified(writes, later)'
  <2>1. PrimariesAreJustified(writes, since)
    BY DEF AreJustified
  <2>2. ASSUME NEW c \in writes, MakesPrimary(c), later \cap {"assignment", "primary", "itself"} = {}
        PROVE  \A u \in PrimariesOf(c.key[1])' : ClearsPrimary(writes, c.key[1], u)
    <3>1. c.key[1] \in Tasks
      BY <2>2, SchemaTables DEF MakesPrimary, AreChanges, IsChange
    <3>2. PrimariesOf(c.key[1])' = PrimariesOf(c.key[1])
      BY <2>2, <3>1, CommitAssignments
    <3>3. QED
      BY <2>1, <2>2, <3>2 DEF PrimariesAreJustified
  <2>3. QED
    BY <2>1, <2>2 DEF PrimariesAreJustified
<1>4. QED
  BY <1>1, <1>2, <1>3 DEF AreJustified

LEMMA CommitKeepsWalks ==
    ASSUME IInv, NEW r \in Requests, NEW admitted, CommitUnder(r, admitted),
           NEW w \in Walk, NEW since, IsWalkingUp(w, since), IsSearching(w, since),
           NEW later, later = since \cup TouchedBy(r)
    PROVE  (IsWalkingUp(w, later) /\ IsSearching(w, later))'
<1>1. w.visited \in SUBSET Tasks
  BY DEF Walk
<1>2. IsWalkingUp(w, later)'
  <2>1. SUFFICES ASSUME w.kind = "parent", "parent" \notin later
                 PROVE  /\ w.visited \cup w.frontier \subseteq Stored("task")'
                        /\ \A v \in w.visited : ParentOf(v)' \in w.visited \cup w.frontier \cup {None}
    BY DEF IsWalkingUp
  <2>2. QED
    BY <2>1, CommitLife, CommitKeepsKnowledge DEF IsWalkingUp
<1>3. IsSearching(w, later)'
  <2>1. SUFFICES ASSUME w.kind = "dependency", "dependency" \notin later
                 PROVE  \A v \in w.visited : DependenciesOf(v)' \subseteq w.visited \cup w.frontier
    BY DEF IsSearching
  <2>2. QED
    BY <1>1, <2>1, CommitKeepsKnowledge DEF IsSearching
<1>4. QED
  BY <1>2, <1>3

-----------------------------------------------------------------------------
(* A commit keeps all of it.                                               *)
LEMMA Committing ==
    ASSUME IInv, NEW r \in Requests, CommitUnder(r, Constraints(Outcome(r)))
    PROVE  IInv'
<1> DEFINE admitted == Constraints(Outcome(r))
<1>0. Shared(Schema) /\ CommitTo(r, admitted, Closed) /\ CommitUnder(r, admitted)
  BY DEF IInv, CommitUnder
<1>1. DOMAIN Closed = {"pc", "writes", "since", "walk"} /\ Closed.pc = "done" /\ Closed.writes = {}
  BY DEF Closed, Fresh
<1>2. /\ req'[r] = Closed
      /\ \A s \in Requests \ {r} :
            /\ req'[s].pc = req[s].pc /\ req'[s].writes = req[s].writes /\ req'[s].walk = req[s].walk
            /\ req[s].pc \in {"walk", "staged"} => req'[s].since = req[s].since \cup TouchedBy(r)
            /\ req[s].pc \notin {"walk", "staged"} => req[s].writes = {}
  BY <1>0, CommitRequests DEF Shared, RequestsTyped
<1> HIDE DEF admitted
<1>3. Shared(Schema)'
  BY <1>0, <1>1, CommitKeepsShared DEF AreChanges
<1>4. ReadsAreCurrent(Schema)'
  <2>1. ASSUME NEW s \in Requests, NEW c \in req'[s].writes PROVE IsCurrent(c, req[s].since, Schema)'
    <3>1. s # r /\ c \in req[s].writes
      BY <1>1, <1>2, <2>1
    <3>2. IsCurrent(c, req[s].since, Schema)
      BY <3>1 DEF IInv, ReadsAreCurrent
    <3>3. QED
      BY <1>0, <3>1, <3>2, CommitKeepsReadsCurrent
  <2>2. QED
    BY <2>1 DEF ReadsAreCurrent
<1>5. TasksAreSound'
  BY <1>0, CommitKeepsTasksSound DEF admitted
<1>6. GraphsAreAcyclic'
  BY <1>0, CommitKeepsParentsAcyclic, CommitKeepsDependenciesAcyclic DEF GraphsAreAcyclic
<1>7. LinksAreUnique'
  <2>1. Constraints(db)'
    BY <1>5 DEF TasksAreSound
  <2>2. QED
    BY <1>0, <2>1, CommitKeepsRelationsUnique, CommitKeepsOnePrimary DEF LinksAreUnique
<1>8. WalksAreSound'
  <2>1. ASSUME NEW s \in Requests, req'[s].pc = "walk", NEW w, w = req'[s].walk, NEW since, since = req'[s].since
        PROVE  w \in Walk /\ (IsWalkingUp(w, since) /\ IsSearching(w, since))'
    <3>1. s # r /\ req[s].pc = "walk" /\ w = req[s].walk /\ since = req[s].since \cup TouchedBy(r)
      BY <1>1, <1>2, <2>1
    <3>2. w \in Walk /\ IsWalkingUp(w, req[s].since) /\ IsSearching(w, req[s].since)
      BY <3>1 DEF IInv, WalksAreSound
    <3>3. QED
      BY <1>0, <3>1, <3>2, CommitKeepsWalks
  <2>2. QED
    BY <2>1 DEF WalksAreSound
<1>9. RequestsAreJustified'
  <2>1. ASSUME NEW s \in Requests, NEW writes, writes = req'[s].writes, NEW since, since = req'[s].since
        PROVE  AreJustified(writes, since)'
    <3>1. CASE writes = {}
      BY <3>1 DEF AreJustified, PrimariesAreJustified
    <3>2. CASE writes # {}
      <4>1. s # r /\ writes = req[s].writes /\ since = req[s].since \cup TouchedBy(r)
        BY <1>1, <1>2, <2>1, <3>2
      <4>2. AreJustified(writes, req[s].since) /\ AreChanges(writes, Schema)
        BY <4>1 DEF IInv, RequestsAreJustified, Shared, WritesTyped
      <4>3. QED
        BY <1>0, <4>1, <4>2, CommitKeepsJustified
    <3>3. QED
      BY <3>1, <3>2
  <2>2. QED
    BY <2>1 DEF RequestsAreJustified
<1>10. QED
  BY <1>3, <1>4, <1>5, <1>6, <1>7, <1>8, <1>9 DEF IInv

(* Every other step keeps what it leaves alone.                            *)
LEMMA Requesting ==
    ASSUME IInv, NEW r \in Requests,
           \/ TaskRoutes(r) \/ OrderingRoutes(r) \/ WorkflowRoutes(r) \/ RelationshipRoutes(r)
           \/ AssignmentRoutes(r) \/ LabelRoutes(r)
    PROVE  IInv'
<1>1. CASE TaskRoutes(r)
  <2>1. PICK t \in Tasks :
           \/ \E parent \in Stored("task") \cup {None} : CreateTask(r, t, parent)
           \/ \E source \in Tasks : Duplicate(r, t, source)
           \/ UpdateTask(r, t) \/ ChangePriority(r, t) \/ SetDates(r, t)
           \/ ArchiveTask(r, t) \/ RestoreTask(r, t) \/ DeleteTask(r, t)
           \/ \E status \in Statuses : ChangeStatus(r, t, status)
    BY <1>1 DEF TaskRoutes
  <2>2. QED
    BY <2>1, SaveTaskRoutes, InsertTaskRoutes
<1>2. CASE OrderingRoutes(r)
  BY <1>2, SaveTaskRoutes DEF OrderingRoutes
<1>3. CASE RelationshipRoutes(r)
  <2>1. PICK t \in Tasks :
           \/ \E parent \in Stored("task") \cup {None} : SetParent(r, t, parent)
           \/ \E u \in Tasks : AddDependency(r, t, u) \/ RemoveDependency(r, t, u)
                               \/ AddRelated(r, t, u) \/ RemoveRelated(r, t, u)
    BY <1>3 DEF RelationshipRoutes
  <2>2. QED
    BY <2>1, StartOfWalk, RelatedRoutes
<1>4. QED
  BY <1>1, <1>2, <1>3, WorkflowRoutesAreSound, AssignmentRoutesAreSound, LabelRoutesAreSound

LEMMA Progressing ==
    ASSUME IInv, NEW r \in Requests, Progress(r)
    PROVE  IInv'
<1>1. CASE ParentFound(r) \/ NoPathFound(r)
  BY <1>1, EndOfWalk
<1>2. CASE CycleFound(r) \/ Abort(r)
  BY <1>2, Closing DEF CycleFound, Abort
<1>3. CASE \E t \in Tasks : WalkUp(r, t) \/ Search(r, t)
  BY <1>3, StepOfWalk
<1>4. CASE CommitUnder(r, Constraints(Outcome(r)))
  BY <1>4, Committing
<1>5. QED
  BY <1>1, <1>2, <1>3, <1>4 DEF Progress

LEMMA Stuttering ==
    ASSUME IInv, UNCHANGED txns
    PROVE  IInv'
<1>0. db' = db /\ req' = req /\ raced' = raced
  BY DEF txns
<1>1. CASE \E r \in Requests : TRUE
  <2>1. PICK r \in Requests : TRUE
    BY <1>1
  <2>2. Only(r) /\ req'[r] = req[r]
    BY <1>0 DEF Only, IInv, Shared, RequestsTyped
  <2>3. /\ DOMAIN req[r] = {"pc", "writes", "since", "walk"} /\ req[r].pc \in {"new", "walk", "staged", "done"}
        /\ req[r].pc # "staged" => req[r].writes = {}
        /\ req[r].pc \in {"new", "done"} => req[r] \in {Fresh, Closed}
        /\ AreChanges(req[r].writes, Schema)
        /\ \A c \in req[r].writes : IsCurrent(c, req[r].since, Schema)
        /\ AreJustified(req[r].writes, req[r].since)
    BY DEF IInv, Shared, RequestsTyped, WritesTyped, ReadsAreCurrent, RequestsAreJustified, TasksAreSound, RequestsAreSound
  <2>4. req[r].pc = "walk" =>
           /\ req[r].walk \in Walk /\ req[r].walk # None
           /\ IsWalkingUp(req[r].walk, req[r].since) /\ IsSearching(req[r].walk, req[r].since)
    BY NoneIsNoRow DEF IInv, WalksAreSound
  <2>5. QED
    BY <2>2, <2>3, <2>4, OneRequest
<1>2. CASE ~\E r \in Requests : TRUE
  <2>1. Shared(Schema)'
    BY <1>0, <1>2 DEF IInv, Shared, HasSchema, RequestsTyped, WritesTyped
  <2>2. TasksAreSound'
    BY <1>0, <1>2 DEF IInv, TasksAreSound, HasSchema, RequestsAreSound, Constraints, Stored, Rows, Undisturbed
  <2>3. GraphsAreAcyclic'
    BY <1>0 DEF IInv, GraphsAreAcyclic, Acyclic, Parents, Live, Stored, Rows, Undisturbed
  <2>4. LinksAreUnique'
    BY <1>0 DEF IInv, LinksAreUnique, PrimariesOf, AssigneesOf, Stored, Rows, Undisturbed
  <2>5. (ReadsAreCurrent(Schema) /\ WalksAreSound /\ RequestsAreJustified)'
    BY <1>2 DEF ReadsAreCurrent, WalksAreSound, RequestsAreJustified
  <2>6. QED
    BY <2>1, <2>2, <2>3, <2>4, <2>5 DEF IInv
<1>3. QED
  BY <1>1, <1>2

(* The inductive invariant holds in every sound start, and no route, step  *)
(* of a walk, commit or abort breaks it, whatever overlaps.                *)
THEOREM TaskGraphInductive == Spec => []IInv
<1>1. ASSUME IInv, [Next]_txns PROVE IInv'
  <2>1. CASE UNCHANGED txns
    BY <1>1, <2>1, Stuttering
  <2>2. CASE Next
    BY <1>1, <2>2, Requesting, Progressing DEF Next
  <2>3. QED
    BY <1>1, <2>1, <2>2
<1>2. QED
  BY <1>1, StartIsSound, PTL DEF Spec

(* Tasks keep their types and constraints; the date of completion goes     *)
(* with the status (Task.change_status) and no task is due before it       *)
(* starts (Task.set_dates), unless requests that write the same columns    *)
(* overlapped.                                                             *)
THEOREM TasksStaySound == Spec => []TasksAreSound
<1>1. IInv => TasksAreSound
  BY DEF IInv
<1>2. QED
  BY <1>1, TaskGraphInductive, PTL

(* No task is its own ancestor (set_parent) and none depends               *)
(* on itself along dependencies (add_dependency), unless changes of the    *)
(* same graph overlapped.                                                  *)
THEOREM GraphsStayAcyclic == Spec => []GraphsAreAcyclic
<1>1. IInv => GraphsAreAcyclic
  BY DEF IInv
<1>2. QED
  BY <1>1, TaskGraphInductive, PTL

(* Two tasks are related once, whichever way (add_related_task), and a     *)
(* task has one primary assignee at most (_clear_existing_primary), unless *)
(* changes of the same links overlapped.                                   *)
THEOREM LinksStayUnique == Spec => []LinksAreUnique
<1>1. IInv => LinksAreUnique
  BY DEF IInv
<1>2. QED
  BY <1>1, TaskGraphInductive, PTL

(* Only a commit writes to the database.                                   *)
LEMMA OnlyCommitsWrite ==
    ASSUME NEW r \in Requests,
           \/ TaskRoutes(r) \/ OrderingRoutes(r) \/ WorkflowRoutes(r) \/ RelationshipRoutes(r)
           \/ AssignmentRoutes(r) \/ LabelRoutes(r) \/ Progress(r)
    PROVE  db' = db \/ CommitUnder(r, Constraints(Outcome(r)))
<1>0. /\ \A writes, marks : StageMarked(r, writes, marks) => db' = db
      /\ \A writes : Stage(r, writes) => db' = db
      /\ \A table, key, row : Save(r, table, key, row) => db' = db
  BY DEF Save, Stage, StageMarked
<1>1. CASE TaskRoutes(r) \/ OrderingRoutes(r)
  BY <1>0, <1>1 DEF TaskRoutes, OrderingRoutes, CreateTask, Duplicate, UpdateTask, ChangePriority, MoveTask, SetDates,
     ArchiveTask, RestoreTask, DeleteTask, ChangeStatus
<1>2. CASE RelationshipRoutes(r) \/ WorkflowRoutes(r)
  <2>1. \A t, u : SetParent(r, t, u) \/ AddDependency(r, t, u) => db' = db
    BY DEF SetParent, AddDependency
  <2>2. QED
    BY <1>0, <1>2, <2>1 DEF RelationshipRoutes, WorkflowRoutes, RemoveDependency, AddRelated, RemoveRelated, ReplaceWorkflow
<1>3. CASE AssignmentRoutes(r) \/ LabelRoutes(r)
  <2>1. CASE AssignmentRoutes(r)
    BY <1>0, <2>1 DEF AssignmentRoutes, Assign, Unassign, Reassign
  <2>2. CASE LabelRoutes(r)
    BY <1>0, <2>2 DEF LabelRoutes, CreateLabel, UpdateLabel, DeleteLabel, AttachLabel, DetachLabel
  <2>3. QED
    BY <1>3, <2>1, <2>2
<1>4. CASE Progress(r)
  <2>1. CASE ParentFound(r) \/ NoPathFound(r)
    BY <2>1 DEF ParentFound, NoPathFound
  <2>2. CASE CycleFound(r) \/ Abort(r)
    BY <2>2 DEF CycleFound, Abort
  <2>3. CASE \E t \in Tasks : WalkUp(r, t) \/ Search(r, t)
    BY <2>3 DEF WalkUp, Search
  <2>4. QED
    BY <1>4, <2>1, <2>2, <2>3 DEF Progress
<1>5. QED
  BY <1>1, <1>2, <1>3, <1>4

(* Every change of a task's status is one the project's workflow lists     *)
(* (change_status), unless the status or the workflow changed meanwhile.   *)
THEOREM MovesStayInTheTable == Spec => MovesFollowTheTable
<1>1. ASSUME IInv, [Next]_txns, NEW t \in Stored("task"),
             Undisturbed({"status"}, {"status", "workflow", "transitions"})'
      PROVE  IsValidTransition(db.task[t].status, db'.task[t].status)
  <2>1. CASE db' = db
    BY <2>1 DEF IsValidTransition
  <2>2. ASSUME NEW r \in Requests, CommitUnder(r, Constraints(Outcome(r)))
        PROVE  IsValidTransition(db.task[t].status, db'.task[t].status)
    <3>1. SUFFICES ASSUME db'["task"][t].status # db["task"][t].status
                   PROVE  IsValidTransition(db["task"][t].status, db'["task"][t].status)
      BY DEF IsValidTransition
    <3>2. t \in Tasks /\ db["task"][t] # None
      BY <1>1, Typed
    <3>3. PICK c \in req[r].writes : WrittenBy(c, t, req[r].since)
      BY <1>1, <2>2, <3>1, <3>2, CommitTask
    <3>4. c.old \in Task /\ c.new \in Task /\ c.old # None /\ c.new.status # c.old.status /\ c.table = "task"
      BY <3>1, <3>2, <3>3, NoneIsNoRow DEF WrittenBy, TaskColumns
    <3>5. "status" \in TouchedBy(r)
      <4>1. "status" \in Touched(c)
        BY <3>4, NoneIsNoRow DEF Touched, Task
      <4>2. QED
        BY <4>1 DEF TouchedBy
    <3>6. req[r].since \cap {"status", "workflow", "transitions"} = {}
      BY <1>1, <2>2, <3>5, CommitRaces DEF CommitUnder
    <3>7. IsValidTransition(c.old.status, c.new.status)
      BY <3>3, <3>4, <3>6 DEF WrittenBy, TaskIsJustified
    <3>8. db'["task"][t].status = c.new.status /\ db["task"][t].status = c.old.status
      BY <3>3, <3>4, <3>6 DEF WrittenBy, TaskColumns
    <3>9. QED
      BY <3>7, <3>8
  <2>3. QED
    BY <1>1, <2>1, <2>2, OnlyCommitsWrite DEF Next, txns
<1>2. IInv /\ [Next]_txns =>
         [\A t \in Stored("task") :
             \/ ~Undisturbed({"status"}, {"status", "workflow", "transitions"})'
             \/ IsValidTransition(db.task[t].status, db'.task[t].status)]_txns
  BY <1>1
<1>3. QED
  BY <1>2, TaskGraphInductive, PTL DEF Spec, MovesFollowTheTable
=============================================================================
