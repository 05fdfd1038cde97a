---------------------------- MODULE BoardFlowProofs ----------------------------
(***************************************************************************)
(* BoardFlow for any finite boards and tasks, any columns, swimlanes and   *)
(* sprints and any number of concurrent requests, from any sound database. *)
(*                                                                         *)
(* The inductive invariant adds to the invariants of the run that what a   *)
(* request has read is current but for what was committed since, and that  *)
(* each of its changes is justified by what its guards saw, as far as no   *)
(* commit since has touched it: a card enters a column alone and into      *)
(* room, a sprint that starts is the only active one, and a task that has  *)
(* not the status it was asked for has a request on its way to set it.     *)
(***************************************************************************)
EXTENDS BoardFlow, TransactionsProofs, FiniteSetTheorems

(* What a column's count and limit, the dates of a sprint and the status   *)
(* of a task depend on.                                                    *)
Counted == {"column_id", "card", "wip"}
Dates == {"start", "end"}
Status == {"task_status", "asked"}
StatusOrLoss == {"task_status", "asked", "unsynced"}

Enters(c, x) ==
    c.table = "card" /\ c.new # None /\ c.new.column_id = x /\ (c.old # None => c.old.column_id # x)

HasPlace(x) == x \in Stored("column") /\ db["column"][x].wip # None => CountFor(x) < db["column"][x].wip

CardIsJustified(c, writes, since) ==
    \A x \in Columns : Enters(c, x) /\ since \cap Counted = {} =>
       /\ \A e \in writes : (e.table = "card" => e = c) /\ e.table # "column"
       /\ HasPlace(x)

SprintIsJustified(c, writes, since) ==
    /\ Undisturbed(Dates, Dates) => InOrder(c.new.start, c.new.end)
    /\ c.old = None => c.new.status # "active"
    /\ c.old # None => c.new.board_id = c.old.board_id /\ c.new.board_id = db["sprint"][c.key].board_id
    /\ \A e \in writes : e.table = "sprint" => e = c
    /\ c.old # None /\ c.new.status = "active" /\ c.old.status # "active" /\ "status" \notin since =>
          ActiveOf(c.new.board_id) \subseteq {c.key}

(* Of a task a change by hand sets both columns, a move the one, and its   *)
(* sync the other.                                                         *)
TaskIsJustified(c, walk) ==
    /\ c.old # None
    /\ walk = None => c.new.task_status = c.new.asked
    /\ walk # None =>
          /\ c.key = walk.task
          /\ walk.moved => c.new.task_status = walk.status /\ c.new.asked = c.old.asked
          /\ ~walk.moved => c.new.asked = walk.status /\ c.new.task_status = c.old.task_status

IsJustified(c, q) ==
    /\ c.table = "card" => CardIsJustified(c, q.writes, q.since)
    /\ c.table = "sprint" => SprintIsJustified(c, q.writes, q.since)
    /\ c.table = "task" => TaskIsJustified(c, q.walk)

IsPending(q) == q.walk # None /\ q.walk.moved

WalkIsSound(q) ==
    q.walk # None =>
       /\ q.walk \in Walk /\ q.pc \in {"walk", "staged"}
       /\ ~q.walk.moved => q.pc = "staged"
       /\ q.pc = "staged" => \E c \in q.writes : c.table = "task"
       /\ q.walk.moved => \A c \in q.writes : c.table = "task"
       /\ q.walk.moved /\ q.since \cap Status = {} => db["task"][q.walk.task].asked = q.walk.status

RequestIsJustified(q) == WalkIsSound(q) /\ \A c \in q.writes : IsJustified(c, q)

RequestsAreJustified == \A r \in Requests : RequestIsJustified(req[r])

(* The request that will give a task the status it was asked for.          *)
WillSet(q, t) ==
    /\ IsPending(q) /\ q.walk.task = t /\ q.walk.status = db["task"][t].asked
    /\ \A c \in q.writes : c.new.task_status # c.old.task_status

TasksWillFollow ==
    Undisturbed(Status, StatusOrLoss) =>
        \A t \in Tasks : db["task"][t].task_status = db["task"][t].asked \/ \E r \in Requests : WillSet(req[r], t)

(* The inductive invariant.                                                *)
IInv ==
    /\ Shared(Schema) /\ ReadsAreCurrent(Schema)
    /\ BoardsAreSound /\ RequestsAreJustified /\ TasksWillFollow

-----------------------------------------------------------------------------
LEMMA SchemaTables ==
    /\ DOMAIN Schema = {"board", "column", "swimlane", "card", "sprint", "snapshot", "task"}
    /\ Schema["board"].rows = Board /\ Schema["board"].keys = Boards
    /\ Schema["column"].rows = Column /\ Schema["column"].keys = Columns
    /\ Schema["swimlane"].rows = Swimlane /\ Schema["swimlane"].keys = Swimlanes
    /\ Schema["card"].rows = Card /\ Schema["card"].keys = Boards \X Tasks
    /\ Schema["sprint"].rows = Sprint /\ Schema["sprint"].keys = Sprints
    /\ Schema["snapshot"].rows = Snapshot /\ Schema["snapshot"].keys = Sprints
    /\ Schema["task"].rows = Task /\ Schema["task"].keys = Tasks
    /\ \A table \in {"board", "sprint", "snapshot", "task"} : Schema[table].kept
    /\ \A table \in {"column", "swimlane", "card"} : ~Schema[table].kept
  BY DEF Schema, Table, Volatile

(* A row with the columns that a change of another one touches.            *)
Mix(row, old, new) ==
    [f \in DOMAIN row |-> IF f \in {g \in DOMAIN new : new[g] # old[g]} THEN new[f] ELSE row[f]]

Mixes(rows) == \A row, old, new \in rows : DOMAIN row = DOMAIN new /\ Mix(row, old, new) \in rows

LEMMA SchemaIsSound == IsSchema(Schema)
<1>1. ASSUME NEW table \in DOMAIN Schema PROVE None \notin Schema[table].rows
  BY <1>1, NoneAssumption
<1>2. Mixes(Board) /\ Mixes(Swimlane) /\ Mixes(Snapshot) /\ Mixes(Task)
  BY DEF Mixes, Mix, Board, Swimlane, Snapshot, Task
<1>3. Mixes(Column)
  BY DEF Mixes, Mix, Column
<1>4. Mixes(Card)
  BY DEF Mixes, Mix, Card
<1>5. Mixes(Sprint)
  BY DEF Mixes, Mix, Sprint
<1>6. ASSUME NEW table \in DOMAIN Schema PROVE Mixes(Schema[table].rows)
  BY <1>2, <1>3, <1>4, <1>5, SchemaTables
<1>7. \A table \in DOMAIN Schema : \A row, new \in Schema[table].rows : DOMAIN row = DOMAIN new
  BY <1>6 DEF Mixes
<1>8. \A table \in DOMAIN Schema : \A row, old, new \in Schema[table].rows : Mix(row, old, new) \in Schema[table].rows
  BY <1>6 DEF Mixes
<1>9. QED
  BY <1>1, <1>7, <1>8 DEF IsSchema, Mix

LEMMA NoneIsNoRow ==
    /\ None \notin Board /\ None \notin Column /\ None \notin Swimlane /\ None \notin Card /\ None \notin Sprint
    /\ None \notin Snapshot /\ None \notin Task
    /\ None \notin Columns /\ None \notin TaskStatuses /\ None \notin Days /\ None \notin Nat /\ None \notin Walk
  BY NoneAssumption, SchemaTables

(* The tables, one by one.                                                 *)
IsTableOf(table, keys, rows) ==
    /\ \A k \in keys : db[table][k] \in rows \cup {None}
    /\ Stored(table) = {k \in keys : db[table][k] # None}

TablesAreTyped ==
    /\ IsTableOf("board", Boards, Board) /\ IsTableOf("column", Columns, Column)
    /\ IsTableOf("swimlane", Swimlanes, Swimlane) /\ IsTableOf("card", Boards \X Tasks, Card)
    /\ IsTableOf("sprint", Sprints, Sprint) /\ IsTableOf("snapshot", Sprints, Snapshot)
    /\ IsTableOf("task", Tasks, Task)

LEMMA Typed ==
    ASSUME HasSchema(db, Schema)
    PROVE  TablesAreTyped
<1>1. ASSUME NEW table \in DOMAIN Schema PROVE IsTableOf(table, Schema[table].keys, Schema[table].rows)
  BY <1>1 DEF HasSchema, IsTableOf, Stored, Rows
<1>2. QED
  BY <1>1, SchemaTables DEF TablesAreTyped

LEMMA IsTyped == IInv => HasSchema(db, Schema) /\ IsSchema(Schema) /\ TablesAreTyped
  BY Typed DEF IInv, Shared

(* A column's cards are finitely many.                                     *)
LEMMA CardsAreFinite ==
    ASSUME HasSchema(db, Schema), NEW x
    PROVE  IsFiniteSet(CardsOf(x)) /\ CountFor(x) \in Nat
<1>1. IsFiniteSet(Boards \X Tasks)
  BY FinitenessAssumption, FS_Product
<1>2. CardsOf(x) \subseteq Boards \X Tasks
  BY Typed DEF TablesAreTyped, IsTableOf, CardsOf
<1>3. IsFiniteSet(CardsOf(x))
  BY <1>1, <1>2, FS_Subset
<1>4. QED
  BY <1>3, FS_CardinalityType DEF CountFor

LEMMA StartIsSound == Start => IInv
<1> SUFFICES ASSUME Start PROVE IInv
  OBVIOUS
<1>0. \A r \in Requests : req[r] = Fresh
  BY DEF Start
<1>1. Fresh.pc = "new" /\ Fresh.writes = {} /\ Fresh.since = {} /\ Fresh.walk = None
      /\ DOMAIN Fresh = {"pc", "writes", "since", "walk"}
  BY DEF Fresh
<1>2. Shared(Schema)
  BY <1>0, <1>1, SchemaIsSound DEF Start, Shared, BoardsAreSound, RequestsTyped, WritesTyped, AreChanges
<1>3. ReadsAreCurrent(Schema) /\ RequestsAreJustified
  BY <1>0, <1>1 DEF ReadsAreCurrent, RequestsAreJustified, RequestIsJustified, WalkIsSound
<1>4. TasksWillFollow
  BY <1>0, <1>1 DEF Start, StatusFollowsTheMove, SyncPending, TasksWillFollow, Status, StatusOrLoss
<1>5. QED
  BY <1>2, <1>3, <1>4 DEF Start, IInv

(* The status follows: what is pending is a sync.                          *)
LEMMA FollowsFromPending == IInv => StatusFollowsTheMove
<1> SUFFICES ASSUME IInv, NEW t \in Tasks, ~\E r \in Requests : SyncPending(r), Undisturbed(Status, StatusOrLoss)
             PROVE  db.task[t].task_status = db.task[t].asked
  BY DEF StatusFollowsTheMove, Status, StatusOrLoss
<1>1. \A r \in Requests : ~WillSet(req[r], t)
  BY DEF SyncPending, WillSet, IsPending
<1>2. QED
  BY <1>1 DEF IInv, TasksWillFollow

-----------------------------------------------------------------------------
(* Steps that change one request and no table.                             *)

LEMMA SameTables ==
    ASSUME UNCHANGED db
    PROVE  /\ \A table : Stored(table)' = Stored(table)
           /\ \A b : ActiveOf(b)' = ActiveOf(b)
           /\ \A x : CountFor(x)' = CountFor(x) /\ CardsOf(x)' = CardsOf(x)
           /\ \A x : HasPlace(x)' <=> HasPlace(x)
           /\ \A q, t : WillSet(q, t)' <=> WillSet(q, t)
<1>1. \A table : Stored(table)' = Stored(table)
  BY DEF Stored, Rows
<1>2. \A x : CardsOf(x)' = CardsOf(x)
  BY <1>1 DEF CardsOf
<1>3. \A x : CountFor(x)' = CountFor(x)
  BY <1>2 DEF CountFor
<1>4. \A b : ActiveOf(b)' = ActiveOf(b)
  BY <1>1 DEF ActiveOf
<1>5. QED
  BY <1>1, <1>2, <1>3, <1>4 DEF HasPlace, WillSet, IsPending

LEMMA SameTablesJustify ==
    ASSUME UNCHANGED db, NEW q, RequestIsJustified(q), Undisturbed(Dates, Dates)' => Undisturbed(Dates, Dates)
    PROVE  RequestIsJustified(q)'
<1>1. ASSUME NEW c \in q.writes, c.table = "card", CardIsJustified(c, q.writes, q.since)
      PROVE  CardIsJustified(c, q.writes, q.since)'
  BY <1>1, SameTables DEF CardIsJustified, Enters, Counted
<1>2. ASSUME NEW c \in q.writes, SprintIsJustified(c, q.writes, q.since)
      PROVE  SprintIsJustified(c, q.writes, q.since)'
  BY <1>2, SameTables DEF SprintIsJustified, Dates
<1>3. \A c \in q.writes : IsJustified(c, q)'
  BY <1>1, <1>2 DEF RequestIsJustified, IsJustified, TaskIsJustified
<1>4. QED
  BY <1>3 DEF RequestIsJustified, WalkIsSound

LEMMA OneRequest ==
    ASSUME IInv, NEW r \in Requests, UNCHANGED db, raced \subseteq raced', DOMAIN req' = Requests,
           \A s \in Requests \ {r} : req'[s] = req[s],
           NEW q, q = req'[r], DOMAIN q = {"pc", "writes", "since", "walk"},
           q.pc \in {"walk", "staged", "done"}, q.pc # "staged" => q.writes = {},
           q.pc = "walk" => q.walk # None, q.pc = "done" => q = Closed,
           AreChanges(q.writes, Schema), \A c \in q.writes : IsCurrent(c, q.since, Schema), RequestIsJustified(q),
           \A t \in Tasks : Undisturbed(Status, StatusOrLoss)' /\ WillSet(req[r], t) =>
                WillSet(q, t) \/ db["task"][t].task_status = db["task"][t].asked
    PROVE  IInv'
<1>0. \A A, B : Undisturbed(A, B)' => Undisturbed(A, B)
  BY DEF Undisturbed
<1>1. Shared(Schema)'
  BY DEF IInv, Shared, RequestsTyped, WritesTyped, HasSchema
<1>2. ReadsAreCurrent(Schema)'
  <2>1. ASSUME NEW s \in Requests, NEW c \in req'[s].writes PROVE IsCurrent(c, req'[s].since, Schema)
    BY <2>1 DEF IInv, ReadsAreCurrent
  <2>2. QED
    BY <2>1 DEF ReadsAreCurrent, IsCurrent
<1>3. RequestsAreSound'
  BY DEF IInv, BoardsAreSound, RequestsAreSound, AreChanges
<1>4. BoardsAreSound'
  <2>1. Constraints(db)' /\ HasSchema(db, Schema)' /\ Stored("task")' = Tasks
    BY SameTables DEF IInv, BoardsAreSound
  <2>2. QED
    BY <1>0, <1>3, <2>1, SameTables DEF IInv, BoardsAreSound
<1>5. RequestsAreJustified'
  <2>1. \A s \in Requests : RequestIsJustified(req'[s])
    BY DEF IInv, RequestsAreJustified
  <2>2. ASSUME NEW s \in Requests, NEW p, p = req'[s] PROVE RequestIsJustified(p)'
    BY <1>0, <2>1, <2>2, SameTablesJustify DEF Dates
  <2>3. ASSUME NEW s \in Requests PROVE RequestIsJustified(req[s])'
    BY <2>2
  <2>4. QED
    BY <2>3 DEF RequestsAreJustified
<1>6. TasksWillFollow'
  <2>1. SUFFICES ASSUME Undisturbed(Status, StatusOrLoss)', NEW t \in Tasks,
                        db["task"][t].task_status # db["task"][t].asked
                 PROVE  \E s \in Requests : WillSet(req[s], t)'
    BY DEF TasksWillFollow, Status, StatusOrLoss
  <2>2. PICK s \in Requests : WillSet(req[s], t)
    BY <1>0, <2>1 DEF IInv, TasksWillFollow
  <2>3. WillSet(req'[s], t)
    BY <2>1, <2>2
  <2>4. ASSUME NEW p, WillSet(p, t) PROVE WillSet(p, t)'
    BY <2>4, SameTables
  <2>5. QED
    BY <2>3, <2>4 DEF WillSet, IsPending
<1>7. QED
  BY <1>1, <1>2, <1>4, <1>5, <1>6 DEF IInv

-----------------------------------------------------------------------------
(* The routes stage changes of rows as they are.                           *)

Begun(writes) == [Fresh EXCEPT !.pc = "staged", !.writes = writes]

(* A change that has just been read, of a request that becomes q.          *)
Fits(c, q) == IsChange(c, Schema) /\ Reads(c) /\ IsJustified(c, q)

OfDifferentRows(writes) == \A c, e \in writes : c.table = e.table /\ c.key = e.key => c = e

LEMMA NewRequest ==
    ASSUME IInv, NEW r \in Requests, req[r].pc = "new"
    PROVE  req[r] = Fresh /\ DOMAIN req = Requests /\ DOMAIN Fresh = {"pc", "writes", "since", "walk"}
           /\ Fresh.pc = "new" /\ Fresh.writes = {} /\ Fresh.since = {} /\ Fresh.walk = None
<1>1. Fresh.pc = "new" /\ Closed.pc = "done"
  BY DEF Fresh, Closed
<1>2. req[r] = Fresh
  BY <1>1 DEF IInv, BoardsAreSound, RequestsAreSound
<1>3. QED
  BY <1>2 DEF IInv, Shared, RequestsTyped, Fresh

LEMMA Staging ==
    ASSUME IInv, NEW r \in Requests, Only(r), NEW q, q = req'[r], DOMAIN q = {"pc", "writes", "since", "walk"},
           q.pc = "staged", q.since = {}, \A c \in q.writes : Fits(c, q), OfDifferentRows(q.writes), WalkIsSound(q),
           ~IsPending(req[r])
    PROVE  IInv'
<1>1. AreChanges(q.writes, Schema)
  BY DEF Fits, OfDifferentRows, AreChanges
<1>2. \A c \in q.writes : IsCurrent(c, q.since, Schema)
  BY DEF Fits, Reads, IsCurrent, SameRow
<1>3. RequestIsJustified(q)
  BY DEF RequestIsJustified, Fits
<1>4. \A t \in Tasks : ~WillSet(req[r], t)
  BY DEF WillSet
<1>5. QED
  BY <1>1, <1>2, <1>3, <1>4, OneRequest DEF Only

LEMMA Staged ==
    ASSUME IInv, NEW r \in Requests, NEW writes, Stage(r, writes),
           \A c \in writes : Fits(c, Begun(writes)), OfDifferentRows(writes)
    PROVE  IInv'
<1>1. req[r].pc = "new" /\ req' = [req EXCEPT ![r].pc = "staged", ![r].writes = writes, ![r].since = {}]
      /\ UNCHANGED <<db, raced>>
  BY DEF Stage, StageMarked
<1> DEFINE q == req'[r]
<1>2. Only(r) /\ q = Begun(writes) /\ ~IsPending(req[r])
  BY <1>1, NewRequest DEF Only, Begun, IsPending, Fresh
<1>3. DOMAIN q = {"pc", "writes", "since", "walk"} /\ q.pc = "staged" /\ q.writes = writes /\ q.since = {} /\ q.walk = None
  BY <1>2 DEF Begun, Fresh
<1>4. WalkIsSound(q)
  BY <1>3 DEF WalkIsSound
<1> HIDE DEF q
<1>5. QED
  BY <1>2, <1>3, <1>4, Staging DEF q

(* The three kinds of change.                                              *)
LEMMA UpdateOfRow ==
    ASSUME IInv, NEW table \in DOMAIN Schema, NEW k \in Schema[table].keys, db[table][k] # None,
           NEW row \in Schema[table].rows, "id" \in DOMAIN row => row.id = db[table][k].id
    PROVE  LET c == Update(table, k, row)
           IN  IsChange(c, Schema) /\ Reads(c) /\ c.table = table /\ c.key = k /\ c.old = db[table][k] /\ c.new = row
               /\ c.old # None /\ c.new # None
<1> DEFINE c == Update(table, k, row)
<1>1. DOMAIN c = {"table", "key", "old", "new"} /\ c.table = table /\ c.key = k /\ c.old = db[table][k] /\ c.new = row
  BY DEF Update
<1>2. db[table][k] \in Schema[table].rows /\ row # None /\ DOMAIN row = DOMAIN db[table][k]
  BY IsTyped DEF HasSchema, IsSchema
<1>3. QED
  BY <1>1, <1>2 DEF IsChange, Reads

LEMMA InsertOfRow ==
    ASSUME IInv, NEW table \in DOMAIN Schema, NEW k \in Schema[table].keys, NEW row \in Schema[table].rows
    PROVE  LET c == Insert(table, k, row)
           IN  IsChange(c, Schema) /\ Reads(c) /\ c.table = table /\ c.key = k /\ c.old = None /\ c.new = row /\ c.new # None
<1> DEFINE c == Insert(table, k, row)
<1>1. DOMAIN c = {"table", "key", "old", "new"} /\ c.table = table /\ c.key = k /\ c.old = None /\ c.new = row
  BY DEF Insert
<1>2. row # None
  BY IsTyped DEF IsSchema
<1>3. QED
  BY <1>1, <1>2 DEF IsChange, Reads

LEMMA DeleteOfRow ==
    ASSUME IInv, NEW table \in DOMAIN Schema, NEW k \in Schema[table].keys, db[table][k] # None, ~Schema[table].kept
    PROVE  LET c == Delete(table, k)
           IN  IsChange(c, Schema) /\ Reads(c) /\ c.table = table /\ c.key = k /\ c.old = db[table][k] /\ c.new = None
<1> DEFINE c == Delete(table, k)
<1>1. DOMAIN c = {"table", "key", "old", "new"} /\ c.table = table /\ c.key = k /\ c.old = db[table][k] /\ c.new = None
  BY DEF Delete
<1>2. db[table][k] \in Schema[table].rows
  BY IsTyped DEF HasSchema
<1>3. QED
  BY <1>1, <1>2 DEF IsChange, Reads

Plain == {"board", "column", "swimlane", "snapshot"}

LEMMA PlainFits ==
    ASSUME NEW c, IsChange(c, Schema), Reads(c), c.table \in Plain, NEW q
    PROVE  Fits(c, q)
  BY DEF Fits, IsJustified, Plain

(* One plain row.                                                          *)
LEMMA SavesPlain ==
    ASSUME IInv, NEW r \in Requests, NEW table \in Plain \ {"snapshot"}, NEW k \in Stored(table),
           NEW row \in Schema[table].rows, "id" \in DOMAIN row => row.id = db[table][k].id, Save(r, table, k, row)
    PROVE  IInv'
<1> DEFINE c == Update(table, k, row)
<1>1. table \in DOMAIN Schema /\ k \in Schema[table].keys /\ db[table][k] # None
  BY IsTyped, SchemaTables DEF Plain, TablesAreTyped, IsTableOf
<1>2. IsChange(c, Schema) /\ Reads(c) /\ c.table = table
  BY <1>1, UpdateOfRow
<1> HIDE DEF c
<1>3. Stage(r, {c})
  BY DEF Save, c
<1>4. Fits(c, Begun({c}))
  BY <1>2, PlainFits DEF Plain
<1>5. QED
  BY <1>3, <1>4, Staged DEF OfDifferentRows

LEMMA InsertsPlain ==
    ASSUME IInv, NEW r \in Requests, NEW table \in Plain, NEW k \in Schema[table].keys, NEW row \in Schema[table].rows,
           Stage(r, {Insert(table, k, row)})
    PROVE  IInv'
<1> DEFINE c == Insert(table, k, row)
<1>1. IsChange(c, Schema) /\ Reads(c) /\ c.table = table
  BY InsertOfRow, SchemaTables DEF Plain
<1> HIDE DEF c
<1>2. Stage(r, {c})
  BY DEF c
<1>3. Fits(c, Begun({c}))
  BY <1>1, PlainFits
<1>4. QED
  BY <1>2, <1>3, Staged DEF OfDifferentRows

(* A card that enters no column.                                           *)
LEMMA StaysFits ==
    ASSUME NEW c, IsChange(c, Schema), Reads(c), c.table = "card",
           c.new # None => c.old # None /\ c.new.column_id \in {c.old.column_id, None}, NEW q
    PROVE  Fits(c, q)
<1>1. \A x \in Columns : ~Enters(c, x)
  BY NoneIsNoRow DEF Enters
<1>2. QED
  BY <1>1 DEF Fits, IsJustified, CardIsJustified

LEMMA SavesCard ==
    ASSUME IInv, NEW r \in Requests, NEW k \in Stored("card"), NEW row \in Card, row.id = db["card"][k].id,
           row.column_id \in {db["card"][k].column_id, None}, Save(r, "card", k, row)
    PROVE  IInv'
<1> DEFINE c == Update("card", k, row)
<1>1. k \in Schema["card"].keys /\ db["card"][k] # None /\ "card" \in DOMAIN Schema /\ row \in Schema["card"].rows
  BY IsTyped, SchemaTables DEF TablesAreTyped, IsTableOf
<1>2. IsChange(c, Schema) /\ Reads(c) /\ c.table = "card" /\ c.old = db["card"][k] /\ c.new = row /\ c.old # None
  BY <1>1, UpdateOfRow
<1> HIDE DEF c
<1>3. Fits(c, Begun({c}))
  BY <1>2, StaysFits
<1>4. QED
  BY <1>3, Staged DEF OfDifferentRows, Save, c

(* A sprint whose dates are in order, and that starts alone.               *)
LEMMA SprintFits ==
    ASSUME NEW c, IsChange(c, Schema), Reads(c), c.table = "sprint",
           Undisturbed(Dates, Dates) => InOrder(c.new.start, c.new.end),
           c.old = None => c.new.status # "active", c.old # None => c.new.board_id = c.old.board_id,
           c.old # None /\ c.new.status = "active" /\ c.old.status # "active" => ActiveOf(c.new.board_id) \subseteq {c.key}
    PROVE  Fits(c, Begun({c}))
<1>1. Begun({c}).writes = {c}
  BY DEF Begun, Fresh
<1>2. QED
  BY <1>1 DEF Fits, IsJustified, SprintIsJustified, Reads

LEMMA SavesSprint ==
    ASSUME IInv, NEW r \in Requests, NEW s \in Stored("sprint"), NEW row \in Sprint,
           Undisturbed(Dates, Dates) => InOrder(row.start, row.end), row.board_id = db["sprint"][s].board_id,
           row.status = "active" /\ db["sprint"][s].status # "active" => ActiveOf(row.board_id) \subseteq {s},
           Save(r, "sprint", s, row)
    PROVE  IInv'
<1> DEFINE c == Update("sprint", s, row)
<1>1. /\ s \in Schema["sprint"].keys /\ db["sprint"][s] # None /\ "sprint" \in DOMAIN Schema
      /\ row \in Schema["sprint"].rows /\ "id" \notin DOMAIN row
  BY IsTyped, SchemaTables DEF TablesAreTyped, IsTableOf, Sprint
<1>2. /\ IsChange(c, Schema) /\ Reads(c) /\ c.table = "sprint" /\ c.key = s /\ c.old = db["sprint"][s]
      /\ c.new = row /\ c.old # None
  BY <1>1, UpdateOfRow
<1> HIDE DEF c
<1>3. Fits(c, Begun({c}))
  BY <1>2, SprintFits
<1>4. QED
  BY <1>3, Staged DEF OfDifferentRows, Save, c

-----------------------------------------------------------------------------
(* The routes of boards, columns and swimlanes.                            *)

LEMMA LiveBoards == IInv => \A b \in Boards : LiveBoard(b) => b \in Stored("board") /\ db["board"][b] \in Board
  BY IsTyped DEF LiveBoard, TablesAreTyped, IsTableOf

LEMMA BoardSteps ==
    ASSUME IInv, NEW r \in Requests, BoardRoutes(r)
    PROVE  IInv'
<1> USE SchemaTables DEF Plain
<1>0. PICK b \in Boards :
         \/ CreateBoard(r, b) \/ UpdateBoard(r, b) \/ UpdateSettings(r, b) \/ ChangeStrategy(r, b)
         \/ ArchiveBoard(r, b) \/ RestoreBoard(r, b) \/ DeleteBoard(r, b)
  BY DEF BoardRoutes
<1>1. CASE CreateBoard(r, b)
  <2>1. PICK custom \in BOOLEAN : Stage(r, {Insert("board", b, NewBoard(custom))})
    BY <1>1 DEF CreateBoard
  <2>2. NewBoard(custom) \in Schema["board"].rows
    BY DEF NewBoard, Board
  <2>3. QED
    BY <2>1, <2>2, InsertsPlain
<1>2. ASSUME NEW row \in Board, LiveBoard(b), Save(r, "board", b, row) PROVE IInv'
  <2>1. "id" \notin DOMAIN row
    BY DEF Board
  <2>2. QED
    BY <1>2, <2>1, LiveBoards, SavesPlain
<1>3. CASE UpdateBoard(r, b) \/ UpdateSettings(r, b)
  BY <1>2, <1>3, LiveBoards DEF UpdateBoard, UpdateSettings
<1>4. ASSUME LiveBoard(b) PROVE \A v \in BOOLEAN : /\ [db.board[b] EXCEPT !.custom = v] \in Board
                                                   /\ [db.board[b] EXCEPT !.archived = v] \in Board
                                                   /\ [db.board[b] EXCEPT !.deleted = v] \in Board
  <2>1. db.board[b] \in Board
    BY <1>4, LiveBoards
  <2>2. QED
    BY <2>1 DEF Board
<1>5. CASE ChangeStrategy(r, b)
  BY <1>2, <1>4, <1>5 DEF ChangeStrategy
<1>6. CASE ArchiveBoard(r, b) \/ RestoreBoard(r, b) \/ DeleteBoard(r, b)
  BY <1>2, <1>4, <1>6 DEF ArchiveBoard, RestoreBoard, DeleteBoard
<1>7. QED
  BY <1>0, <1>1, <1>3, <1>5, <1>6

LEMMA DeletesColumn ==
    ASSUME IInv, NEW r \in Requests, NEW x \in Columns, DeleteColumn(r, x)
    PROVE  IInv'
<1> DEFINE moved == {Update("card", k, Placed(db.card[k], None, None)) : k \in CardsOf(x)}
           gone == Delete("column", x)
           writes == moved \cup {gone}
<1>1. x \in Stored("column") /\ Stage(r, writes)
  BY DEF DeleteColumn, HasColumn
<1>2. IsChange(gone, Schema) /\ Reads(gone) /\ gone.table = "column"
  BY <1>1, IsTyped, DeleteOfRow, SchemaTables DEF TablesAreTyped, IsTableOf
<1>3. ASSUME NEW k \in CardsOf(x)
      PROVE  LET c == Update("card", k, Placed(db.card[k], None, None))
             IN  IsChange(c, Schema) /\ Reads(c) /\ c.table = "card" /\ c.key = k /\ c.old # None /\ c.new.column_id = None
  <2>1. k \in Boards \X Tasks /\ db["card"][k] \in Card /\ db["card"][k] # None
    BY IsTyped DEF CardsOf, TablesAreTyped, IsTableOf
  <2>2. /\ Placed(db.card[k], None, None) \in Card /\ Placed(db.card[k], None, None).id = db["card"][k].id
        /\ Placed(db.card[k], None, None).column_id = None
    BY <2>1 DEF Placed, Card
  <2>3. QED
    BY <2>1, <2>2, UpdateOfRow, SchemaTables
<1>4. ASSUME NEW k \in CardsOf(x), NEW c, c = Update("card", k, Placed(db.card[k], None, None))
      PROVE  IsChange(c, Schema) /\ Reads(c) /\ c.table = "card" /\ c.key = k /\ c.old # None /\ c.new.column_id = None
  BY <1>3, <1>4
<1> HIDE DEF gone
<1>5. ASSUME NEW c \in moved PROVE Fits(c, Begun(writes)) /\ c.table = "card"
  <2>1. PICK k \in CardsOf(x) : c = Update("card", k, Placed(db.card[k], None, None))
    OBVIOUS
  <2>2. IsChange(c, Schema) /\ Reads(c) /\ c.table = "card" /\ c.old # None /\ c.new.column_id = None
    BY <1>4, <2>1
  <2> HIDE DEF writes, moved
  <2>3. QED
    BY <2>2, StaysFits
<1>6. \A c \in writes : Fits(c, Begun(writes))
  BY <1>2, <1>5, PlainFits DEF Plain
<1>7. OfDifferentRows(writes)
  <2>1. ASSUME NEW c \in moved, NEW e \in moved, c.key = e.key PROVE c = e
    <3>1. PICK k \in CardsOf(x) : c = Update("card", k, Placed(db.card[k], None, None))
      OBVIOUS
    <3>2. PICK l \in CardsOf(x) : e = Update("card", l, Placed(db.card[l], None, None))
      OBVIOUS
    <3>3. c.key = k /\ e.key = l
      BY <1>4, <3>1, <3>2
    <3>4. QED
      BY <2>1, <3>1, <3>2, <3>3
  <2>2. QED
    BY <1>2, <1>5, <2>1 DEF OfDifferentRows
<1> HIDE DEF writes
<1>8. QED
  BY <1>1, <1>6, <1>7, Staged

LEMMA ColumnSteps ==
    ASSUME IInv, NEW r \in Requests, ColumnRoutes(r)
    PROVE  IInv'
<1> USE SchemaTables DEF Plain
<1>0. PICK x \in Columns :
       \/ \E n \in Names : RenameColumn(r, x, n) \/ \E b \in Boards : CreateColumn(r, b, x, n)
       \/ SetWipLimit(r, x) \/ SetColor(r, x) \/ SetPolicies(r, x) \/ ReorderColumn(r, x) \/ DeleteColumn(r, x)
       \/ \E status \in TaskStatuses \cup {None} : SetMapped(r, x, status)
  BY DEF ColumnRoutes
<1>1. ASSUME NEW row \in Column, x \in Stored("column"), row.id = db.column[x].id, Save(r, "column", x, row)
      PROVE  IInv'
  BY <1>1, SavesPlain
<1>2. HasColumn(x) => x \in Stored("column") /\ db.column[x] \in Column
  BY IsTyped DEF HasColumn, TablesAreTyped, IsTableOf
<1>3. ASSUME NEW n \in Names, RenameColumn(r, x, n) PROVE IInv'
  <2>1. [db.column[x] EXCEPT !.name = n] \in Column /\ [db.column[x] EXCEPT !.name = n].id = db.column[x].id
    BY <1>2, <1>3 DEF RenameColumn, Column
  <2>2. QED
    BY <1>1, <1>2, <1>3, <2>1 DEF RenameColumn
<1>4. ASSUME NEW n \in Names, NEW b \in Boards, CreateColumn(r, b, x, n) PROVE IInv'
  <2>1. PICK wip \in Limits \cup {None}, mapped \in TaskStatuses \cup {None} :
          ValidLimit(wip) /\ Stage(r, {Insert("column", x, NewColumn(r, b, n, wip, mapped))})
    BY <1>4 DEF CreateColumn
  <2>2. wip \in (Nat \ {0}) \cup {None} /\ r \in Ids
    BY <2>1, LimitsAssumption DEF ValidLimit, Ids
  <2>3. NewColumn(r, b, n, wip, mapped) \in Column
    BY <2>2 DEF NewColumn, Column
  <2>4. QED
    BY <2>1, <2>3, InsertsPlain
<1>5. CASE SetWipLimit(r, x)
  <2>1. PICK wip \in Limits \cup {None} : ValidLimit(wip) /\ Save(r, "column", x, [db.column[x] EXCEPT !.wip = wip])
    BY <1>5 DEF SetWipLimit
  <2>2. [db.column[x] EXCEPT !.wip = wip] \in Column /\ [db.column[x] EXCEPT !.wip = wip].id = db.column[x].id
    BY <1>2, <1>5, <2>1, LimitsAssumption DEF SetWipLimit, ValidLimit, Column
  <2>3. QED
    BY <1>1, <1>2, <1>5, <2>1, <2>2 DEF SetWipLimit
<1>6. CASE SetColor(r, x) \/ SetPolicies(r, x) \/ ReorderColumn(r, x)
  BY <1>1, <1>2, <1>6 DEF SetColor, SetPolicies, ReorderColumn
<1>7. ASSUME NEW status \in TaskStatuses \cup {None}, SetMapped(r, x, status) PROVE IInv'
  <2>1. [db.column[x] EXCEPT !.mapped = status] \in Column /\ [db.column[x] EXCEPT !.mapped = status].id = db.column[x].id
    BY <1>2, <1>7 DEF SetMapped, Column
  <2>2. QED
    BY <1>1, <1>2, <1>7, <2>1 DEF SetMapped
<1>8. QED
  BY <1>0, <1>3, <1>4, <1>5, <1>6, <1>7, DeletesColumn

LEMMA SwimlaneSteps ==
    ASSUME IInv, NEW r \in Requests, SwimlaneRoutes(r)
    PROVE  IInv'
<1> USE SchemaTables DEF Plain
<1>0. PICK w \in Swimlanes :
       \/ \E b \in Boards : CreateSwimlane(r, b, w)
       \/ RenameSwimlane(r, w) \/ ReorderSwimlane(r, w) \/ DeleteSwimlane(r, w)
  BY DEF SwimlaneRoutes
<1>1. HasSwimlane(w) => w \in Stored("swimlane") /\ db["swimlane"][w] \in Swimlane
  BY IsTyped DEF HasSwimlane, TablesAreTyped, IsTableOf
<1>2. ASSUME NEW b \in Boards, CreateSwimlane(r, b, w) PROVE IInv'
  <2>1. [board_id |-> b, id |-> r] \in Swimlane
    BY DEF Swimlane, Ids
  <2>2. QED
    BY <1>2, <2>1, InsertsPlain DEF CreateSwimlane
<1>3. CASE RenameSwimlane(r, w) \/ ReorderSwimlane(r, w)
  BY <1>1, <1>3, SavesPlain DEF RenameSwimlane, ReorderSwimlane
<1>4. CASE DeleteSwimlane(r, w)
  <2> DEFINE c == Delete("swimlane", w)
  <2>1. Stage(r, {c}) /\ w \in Stored("swimlane")
    BY <1>1, <1>4 DEF DeleteSwimlane
  <2>2. IsChange(c, Schema) /\ Reads(c) /\ c.table = "swimlane"
    BY <2>1, IsTyped, DeleteOfRow DEF TablesAreTyped, IsTableOf
  <2> HIDE DEF c
  <2>3. QED
    BY <2>1, <2>2, PlainFits, Staged DEF OfDifferentRows
<1>5. QED
  BY <1>0, <1>2, <1>3, <1>4

-----------------------------------------------------------------------------
(* The routes of cards, sprints and tasks.                                 *)

LEMMA CardIsThere ==
    ASSUME IInv, NEW k \in Boards \X Tasks, HasCard(k)
    PROVE  k \in Stored("card") /\ db["card"][k] \in Card
  BY IsTyped DEF HasCard, TablesAreTyped, IsTableOf

LEMMA RoomIsPlace == IInv => \A x \in Columns : HasRoom(x) => x \in Stored("column") /\ db["column"][x] \in Column /\ HasPlace(x)
  BY IsTyped DEF HasRoom, HasPlace, TablesAreTyped, IsTableOf

(* A card that enters a column enters it alone.                            *)
LEMMA EntryFits ==
    ASSUME NEW c, IsChange(c, Schema), Reads(c), c.table = "card", NEW q,
           \A e \in q.writes : (e.table = "card" => e = c) /\ e.table # "column",
           \A x \in Columns : Enters(c, x) => HasPlace(x)
    PROVE  Fits(c, q)
  BY DEF Fits, IsJustified, CardIsJustified

LEMMA AddsCard ==
    ASSUME IInv, NEW r \in Requests, NEW b \in Boards, NEW t \in Tasks, NEW x \in Columns \cup {None}, AddCard(r, b, t, x)
    PROVE  IInv'
<1> DEFINE c == Insert("card", <<b, t>>, NewCard(r, x))
<1>1. NewCard(r, x) \in Card /\ NewCard(r, x).column_id = x
  BY DEF NewCard, Card, Ids
<1>2. IsChange(c, Schema) /\ Reads(c) /\ c.table = "card" /\ c.new = NewCard(r, x)
  BY <1>1, InsertOfRow, SchemaTables
<1> HIDE DEF c
<1>3. Stage(r, {c}) /\ (x # None => HasRoom(x))
  BY DEF AddCard, c
<1>4. \A y \in Columns : Enters(c, y) => HasPlace(y)
  BY <1>1, <1>2, <1>3, RoomIsPlace, NoneIsNoRow DEF Enters
<1>5. Begun({c}).writes = {c}
  BY DEF Begun, Fresh
<1>6. Fits(c, Begun({c}))
  BY <1>2, <1>4, <1>5, EntryFits
<1>7. QED
  BY <1>3, <1>6, Staged DEF OfDifferentRows

(* The change of the task that a move, a hand or a sync makes.             *)
LEMMA UpdateOfTask ==
    ASSUME IInv, NEW t \in Tasks, NEW row \in Task
    PROVE  LET c == Update("task", t, row)
           IN  IsChange(c, Schema) /\ Reads(c) /\ c.table = "task" /\ c.key = t /\ c.old = db["task"][t] /\ c.new = row
               /\ c.old # None /\ c.old \in Task
<1>1. db["task"][t] # None /\ db["task"][t] \in Task /\ "id" \notin DOMAIN row
  BY IsTyped DEF IInv, BoardsAreSound, TablesAreTyped, IsTableOf, Task
<1>2. QED
  BY <1>1, UpdateOfRow, SchemaTables

LEMMA MovesCard ==
    ASSUME IInv, NEW r \in Requests, NEW k \in Boards \X Tasks, NEW x \in Columns \cup {None},
           NEW w \in Swimlanes \cup {None}, MoveCard(r, k, x, w)
    PROVE  IInv'
<1> DEFINE row == Placed(db.card[k], x, w)
           c == Update("card", k, row)
           status == MappedOf(k, x)
<1>1. k \in Stored("card") /\ db["card"][k] \in Card
  BY CardIsThere DEF MoveCard
<1>2. row \in Card /\ row.id = db["card"][k].id /\ row.column_id = x
  BY <1>1 DEF Placed, Card
<1>3. /\ IsChange(c, Schema) /\ Reads(c) /\ c.table = "card" /\ c.new = row /\ c.old = db["card"][k]
      /\ c.old # None
  BY <1>1, <1>2, UpdateOfRow, SchemaTables, IsTyped DEF TablesAreTyped, IsTableOf
<1>4. x \notin {db.card[k].column_id, None} => HasRoom(x)
  BY DEF MoveCard
<1> HIDE DEF c, row
<1>5. \A y \in Columns : Enters(c, y) => HasPlace(y)
  BY <1>2, <1>3, <1>4, RoomIsPlace, NoneIsNoRow DEF Enters
<1>6. CASE status = None
  <2>1. Stage(r, {c})
    BY <1>6 DEF MoveCard, c, row
  <2>2. Begun({c}).writes = {c}
    BY DEF Begun, Fresh
  <2>3. Fits(c, Begun({c}))
    BY <1>3, <1>5, <2>2, EntryFits
  <2>4. QED
    BY <2>1, <2>3, Staged DEF OfDifferentRows
<1>7. CASE status # None
  <2> DEFINE t == k[2]
             asked == [db.task[t] EXCEPT !.asked = status]
             e == Update("task", t, asked)
             q == req'[r]
  <2>1. status \in TaskStatuses
    BY <1>4, <1>7, RoomIsPlace DEF MappedOf, Column
  <2>2. t \in Tasks /\ db["task"][t] \in Task
    BY UpdateOfTask, IsTyped DEF IInv, BoardsAreSound, TablesAreTyped, IsTableOf
  <2>3. asked \in Task /\ asked.asked = status /\ asked.task_status = db["task"][t].task_status
    BY <2>1, <2>2 DEF Task
  <2>4. IsChange(e, Schema) /\ Reads(e) /\ e.table = "task" /\ e.key = t /\ e.old = db["task"][t] /\ e.new = asked /\ e.old # None
    BY <2>2, <2>3, UpdateOfTask
  <2>5. req[r].pc = "new" /\ StageMove(r, {c}, t, status)
    BY <1>7 DEF MoveCard, StageMove, c, row
  <2> HIDE DEF e, asked
  <2>6. q = [Fresh EXCEPT !.pc = "staged", !.writes = {c, e}, !.walk = [task |-> t, status |-> status, moved |-> FALSE]]
    BY <2>5, NewRequest DEF StageMove, e, asked
  <2>7. /\ DOMAIN q = {"pc", "writes", "since", "walk"} /\ q.pc = "staged" /\ q.writes = {c, e} /\ q.since = {}
        /\ q.walk = [task |-> t, status |-> status, moved |-> FALSE]
    BY <2>6 DEF Fresh
  <2>8. Only(r) /\ ~IsPending(req[r])
    BY <2>5, NewRequest DEF StageMove, Only, IsPending
  <2> HIDE DEF q
  <2>9. q.walk \in Walk /\ q.walk.task = t /\ q.walk.status = status /\ ~q.walk.moved /\ q.walk # None
    <3> DEFINE due == [task |-> t, status |-> status, moved |-> FALSE]
    <3>1. due \in Walk /\ due.task = t /\ due.status = status /\ due.moved = FALSE
      BY <2>1, <2>2 DEF Walk
    <3>2. q.walk = due /\ due # None
      BY <2>7, <3>1, NoneIsNoRow
    <3> HIDE DEF due
    <3>3. QED
      BY <3>1, <3>2
  <2>10. WalkIsSound(q)
    BY <2>4, <2>7, <2>9 DEF WalkIsSound
  <2>11. Fits(c, q)
    BY <1>3, <1>5, <2>4, <2>7, EntryFits
  <2>12. Fits(e, q)
    BY <2>3, <2>4, <2>9 DEF Fits, IsJustified, TaskIsJustified
  <2>13. OfDifferentRows(q.writes)
    BY <1>3, <2>4, <2>7 DEF OfDifferentRows
  <2>14. QED
    BY <2>7, <2>8, <2>10, <2>11, <2>12, <2>13, Staging DEF q
<1>8. QED
  BY <1>6, <1>7

LEMMA CardSteps ==
    ASSUME IInv, NEW r \in Requests, CardRoutes(r)
    PROVE  IInv'
<1>0. PICK k \in Boards \X Tasks :
       \/ \E c \in Columns \cup {None} :
             \/ AddCard(r, k[1], k[2], c)
             \/ \E w \in Swimlanes \cup {None} : MoveCard(r, k, c, w)
       \/ RemoveCard(r, k) \/ ReorderCard(r, k) \/ EstimateCard(r, k)
  BY DEF CardRoutes
<1>1. k[1] \in Boards /\ k[2] \in Tasks
  OBVIOUS
<1>2. CASE RemoveCard(r, k)
  <2> DEFINE c == Delete("card", k)
  <2>1. Stage(r, {c}) /\ k \in Stored("card")
    BY <1>2, CardIsThere DEF RemoveCard
  <2>2. IsChange(c, Schema) /\ Reads(c) /\ c.table = "card" /\ c.new = None
    BY <2>1, IsTyped, DeleteOfRow, SchemaTables DEF TablesAreTyped, IsTableOf
  <2> HIDE DEF c
  <2>3. QED
    BY <2>1, <2>2, StaysFits, Staged DEF OfDifferentRows
<1>3. CASE ReorderCard(r, k)
  <2>1. k \in Stored("card") /\ db["card"][k] \in Card
    BY <1>3, CardIsThere DEF ReorderCard
  <2> DEFINE row == Placed(db.card[k], db.card[k].column_id, None)
  <2>2. row \in Card /\ row.id = db["card"][k].id /\ row.column_id = db["card"][k].column_id
    BY <2>1 DEF Placed, Card
  <2>3. QED
    BY <1>3, <2>1, <2>2, SavesCard DEF ReorderCard
<1>4. CASE EstimateCard(r, k)
  BY <1>4, CardIsThere, SavesCard DEF EstimateCard
<1>5. QED
  BY <1>0, <1>1, <1>2, <1>3, <1>4, AddsCard, MovesCard

LEMMA BacklogSteps ==
    ASSUME IInv, NEW r \in Requests, BacklogRoutes(r)
    PROVE  IInv'
<1>0. PICK k \in Boards \X Tasks :
       MoveToBacklog(r, k) \/ RemoveFromSprint(r, k) \/ \E s \in Sprints : AssignToSprint(r, k, s)
  BY DEF BacklogRoutes
<1>1. k \in Stored("card") /\ db["card"][k] \in Card
  BY <1>0, CardIsThere DEF MoveToBacklog, RemoveFromSprint, AssignToSprint
<1>2. CASE MoveToBacklog(r, k)
  <2> DEFINE row == Placed(db.card[k], None, None)
  <2>1. row \in Card /\ row.id = db["card"][k].id /\ row.column_id = None
    BY <1>1 DEF Placed, Card
  <2>2. QED
    BY <1>1, <1>2, <2>1, SavesCard DEF MoveToBacklog
<1>3. ASSUME NEW s \in Sprints \cup {None}, Save(r, "card", k, [db.card[k] EXCEPT !.sprint_id = s]) PROVE IInv'
  <2> DEFINE row == [db.card[k] EXCEPT !.sprint_id = s]
  <2>1. row \in Card /\ row.id = db["card"][k].id /\ row.column_id = db["card"][k].column_id
    BY <1>1 DEF Card
  <2>2. QED
    BY <1>1, <1>3, <2>1, SavesCard
<1>4. QED
  BY <1>0, <1>2, <1>3 DEF RemoveFromSprint, AssignToSprint

LEMMA SprintSteps ==
    ASSUME IInv, NEW r \in Requests, SprintRoutes(r)
    PROVE  IInv'
<1>0. PICK s \in Sprints :
       \/ \E b \in Boards : CreateSprint(r, b, s)
       \/ UpdateSprint(r, s) \/ StartSprint(r, s) \/ CompleteSprint(r, s) \/ CancelSprint(r, s)
  BY DEF SprintRoutes
<1>1. HasSprint(s) => s \in Stored("sprint") /\ db["sprint"][s] \in Sprint
  BY IsTyped DEF HasSprint, TablesAreTyped, IsTableOf
<1>2. ASSUME NEW b \in Boards, CreateSprint(r, b, s) PROVE IInv'
  <2>1. PICK start, end \in Days \cup {None} : InOrder(start, end) /\ Stage(r, {Insert("sprint", s, NewSprint(b, start, end))})
    BY <1>2 DEF CreateSprint
  <2> DEFINE row == NewSprint(b, start, end)
             c == Insert("sprint", s, row)
  <2>2. row \in Sprint /\ row.status = "planned" /\ row.start = start /\ row.end = end
    BY DEF NewSprint, Sprint, SprintStatuses
  <2>3. IsChange(c, Schema) /\ Reads(c) /\ c.table = "sprint" /\ c.old = None /\ c.new = row
    BY <2>2, InsertOfRow, SchemaTables
  <2> HIDE DEF c, row
  <2>4. Fits(c, Begun({c}))
    BY <2>1, <2>2, <2>3, SprintFits
  <2>5. QED
    BY <2>1, <2>4, Staged DEF OfDifferentRows, c, row
<1>3. CASE UpdateSprint(r, s)
  <2>1. PICK start, end \in Days \cup {None} :
          LET row == [db.sprint[s] EXCEPT !.start = IF start # None THEN start ELSE @,
                                          !.end = IF end # None THEN end ELSE @]
          IN  InOrder(row.start, row.end) /\ Save(r, "sprint", s, row)
    BY <1>3 DEF UpdateSprint
  <2> DEFINE row == [db.sprint[s] EXCEPT !.start = IF start # None THEN start ELSE @,
                                         !.end = IF end # None THEN end ELSE @]
  <2>2. s \in Stored("sprint") /\ db["sprint"][s] \in Sprint
    BY <1>1, <1>3 DEF UpdateSprint
  <2>3. row \in Sprint /\ row.status = db["sprint"][s].status /\ row.board_id = db["sprint"][s].board_id
    BY <2>2 DEF Sprint
  <2>4. QED
    BY <2>1, <2>2, <2>3, SavesSprint
<1>4. ASSUME HasSprint(s), NEW status \in SprintStatuses, Turn(r, s, status),
             status = "active" => ActiveOf(db["sprint"][s].board_id) \subseteq {s}
      PROVE  IInv'
  <2> DEFINE row == [db.sprint[s] EXCEPT !.status = status]
  <2>1. s \in Stored("sprint") /\ db["sprint"][s] \in Sprint
    BY <1>1, <1>4
  <2>2. /\ row \in Sprint /\ row.status = status /\ row.board_id = db["sprint"][s].board_id
        /\ row.start = db["sprint"][s].start /\ row.end = db["sprint"][s].end
    BY <2>1 DEF Sprint
  <2>3. Undisturbed(Dates, Dates) => InOrder(row.start, row.end)
    BY <2>1, <2>2 DEF IInv, BoardsAreSound, Dates
  <2> HIDE DEF row
  <2>4. QED
    BY <1>4, <2>1, <2>2, <2>3, SavesSprint DEF Turn, row
<1>5. CASE StartSprint(r, s)
  BY <1>4, <1>5 DEF StartSprint, SprintStatuses
<1>6. CASE CompleteSprint(r, s) \/ CancelSprint(r, s)
  BY <1>4, <1>6 DEF CompleteSprint, CancelSprint, SprintStatuses
<1>7. QED
  BY <1>0, <1>2, <1>3, <1>5, <1>6

LEMMA TaskSteps ==
    ASSUME IInv, NEW r \in Requests, NEW t \in Tasks, NEW status \in TaskStatuses, SetStatus(r, t, status)
    PROVE  IInv'
<1> DEFINE row == [task_status |-> status, asked |-> status]
           c == Update("task", t, row)
<1>1. row \in Task /\ row.task_status = row.asked
  BY DEF Task
<1>2. IsChange(c, Schema) /\ Reads(c) /\ c.table = "task" /\ c.new = row /\ c.old # None
  BY <1>1, UpdateOfTask
<1> HIDE DEF c, row
<1>3. Begun({c}).walk = None
  BY DEF Begun, Fresh
<1>4. Fits(c, Begun({c}))
  BY <1>1, <1>2, <1>3 DEF Fits, IsJustified, TaskIsJustified
<1>5. QED
  BY <1>4, Staged DEF OfDifferentRows, SetStatus, Save, c, row

LEMMA SnapshotSteps ==
    ASSUME IInv, NEW r \in Requests, RecordSnapshots(r)
    PROVE  IInv'
<1> DEFINE writes == {Insert("snapshot", s, [id |-> r]) : s \in AllActive \ Stored("snapshot")}
<1>1. ASSUME NEW s \in AllActive \ Stored("snapshot"), NEW c, c = Insert("snapshot", s, [id |-> r])
      PROVE  IsChange(c, Schema) /\ Reads(c) /\ c.table = "snapshot" /\ c.key = s
  <2>1. s \in Sprints /\ [id |-> r] \in Snapshot
    BY IsTyped DEF AllActive, TablesAreTyped, IsTableOf, Snapshot
  <2>2. QED
    BY <1>1, <2>1, InsertOfRow, SchemaTables
<1>2. \A c \in writes : Fits(c, Begun(writes))
  <2>1. \A c \in writes : IsChange(c, Schema) /\ Reads(c) /\ c.table = "snapshot"
    BY <1>1
  <2> HIDE DEF writes
  <2>2. QED
    BY <2>1, PlainFits DEF Plain
<1>3. OfDifferentRows(writes)
  <2>1. ASSUME NEW c \in writes, NEW e \in writes, c.key = e.key PROVE c = e
    <3>1. PICK s \in AllActive \ Stored("snapshot") : c = Insert("snapshot", s, [id |-> r])
      OBVIOUS
    <3>2. PICK z \in AllActive \ Stored("snapshot") : e = Insert("snapshot", z, [id |-> r])
      OBVIOUS
    <3>3. QED
      BY <1>1, <2>1, <3>1, <3>2
  <2>2. QED
    BY <2>1 DEF OfDifferentRows
<1>4. QED
  BY <1>2, <1>3, Staged DEF RecordSnapshots

-----------------------------------------------------------------------------
(* The sync, its rejection, what a request reads again, and its failure.   *)

LEMMA TheSync ==
    ASSUME IInv, NEW r \in Requests, Sync(r)
    PROVE  IInv'
<1> DEFINE w == req[r].walk
           t == w.task
           row == [db.task[t] EXCEPT !.task_status = w.status]
           c == Update("task", t, row)
           q == req'[r]
<1>1. /\ DOMAIN req = Requests /\ DOMAIN req[r] = {"pc", "writes", "since", "walk"}
      /\ req[r].pc = "walk" /\ req[r].writes = {}
      /\ req' = [req EXCEPT ![r].pc = "staged", ![r].writes = {c}]
      /\ UNCHANGED <<db, raced>>
  BY DEF Sync, Syncing, IInv, Shared, RequestsTyped
<1>2. w # None /\ WalkIsSound(req[r])
  BY <1>1 DEF IInv, BoardsAreSound, RequestsAreSound, RequestsAreJustified, RequestIsJustified
<1>3. w \in Walk /\ w.moved
  BY <1>1, <1>2 DEF WalkIsSound
<1>4. t \in Tasks /\ w.status \in TaskStatuses /\ db["task"][t] \in Task
  BY <1>3, UpdateOfTask, IsTyped DEF Walk, IInv, BoardsAreSound, TablesAreTyped, IsTableOf
<1>5. row \in Task /\ row.task_status = w.status /\ row.asked = db["task"][t].asked
  BY <1>4 DEF Task
<1>6. IsChange(c, Schema) /\ Reads(c) /\ c.table = "task" /\ c.key = t /\ c.old = db["task"][t] /\ c.new = row /\ c.old # None
  BY <1>4, <1>5, UpdateOfTask
<1> HIDE DEF c, row
<1>7. /\ DOMAIN q = {"pc", "writes", "since", "walk"} /\ q.pc = "staged" /\ q.writes = {c} /\ q.since = req[r].since
      /\ q.walk = w /\ DOMAIN req' = Requests /\ \A s \in Requests \ {r} : req'[s] = req[s]
  BY <1>1
<1> HIDE DEF q
<1>8. AreChanges(q.writes, Schema) /\ \A d \in q.writes : IsCurrent(d, q.since, Schema)
  BY <1>6, <1>7 DEF AreChanges, Reads, IsCurrent, SameRow
<1>9. RequestIsJustified(q)
  <2>1. WalkIsSound(q)
    BY <1>2, <1>3, <1>6, <1>7 DEF WalkIsSound
  <2>2. IsJustified(c, q)
    BY <1>2, <1>3, <1>5, <1>6, <1>7 DEF IsJustified, TaskIsJustified
  <2>3. QED
    BY <1>7, <2>1, <2>2 DEF RequestIsJustified
<1>10. ASSUME NEW z \in Tasks, WillSet(req[r], z)
       PROVE  WillSet(q, z) \/ db["task"][z].task_status = db["task"][z].asked
  BY <1>5, <1>6, <1>7, <1>10 DEF WillSet, IsPending
<1>11. QED
  BY <1>1, <1>7, <1>8, <1>9, <1>10, OneRequest DEF q

(* A request that ends without its commit; a sync that is lost leaves its  *)
(* mark.                                                                   *)
LEMMA Ending ==
    ASSUME IInv, NEW r \in Requests, req' = [req EXCEPT ![r] = Closed], UNCHANGED db, raced \subseteq raced',
           IsPending(req[r]) => Unsynced \in raced'
    PROVE  IInv'
<1> DEFINE q == Closed
<1>1. /\ DOMAIN q = {"pc", "writes", "since", "walk"} /\ q.pc = "done" /\ q.writes = {} /\ q.since = {} /\ q.walk = None
  BY DEF Closed, Fresh
<1>2. DOMAIN req' = Requests /\ \A s \in Requests \ {r} : req'[s] = req[s]
  BY DEF IInv, Shared, RequestsTyped
<1>3. q = req'[r]
  BY DEF IInv, Shared, RequestsTyped
<1>4. RequestIsJustified(q) /\ AreChanges(q.writes, Schema)
  BY <1>1 DEF RequestIsJustified, WalkIsSound, AreChanges
<1>5. IsPending(req[r]) => ~Undisturbed(Status, StatusOrLoss)'
  <2>1. Unsynced \in Status \X StatusOrLoss
    BY DEF Unsynced, Status, StatusOrLoss
  <2>2. QED
    BY <2>1 DEF Undisturbed, Status, StatusOrLoss
<1> HIDE DEF q
<1>6. \A t \in Tasks : ~(Undisturbed(Status, StatusOrLoss)' /\ WillSet(req[r], t))
  BY <1>5 DEF WillSet
<1>7. QED
  BY <1>1, <1>2, <1>3, <1>4, <1>6, OneRequest DEF q

LEMMA Endings ==
    ASSUME IInv, NEW r \in Requests, Reject(r) \/ Fail(r)
    PROVE  IInv'
<1>1. SyncPending(r) <=> IsPending(req[r])
  <2>1. req[r].walk # None => req[r].walk.moved \in BOOLEAN
    BY DEF IInv, RequestsAreJustified, RequestIsJustified, WalkIsSound, Walk
  <2>2. QED
    BY <2>1 DEF SyncPending, IsPending
<1>2. QED
  BY <1>1, Ending DEF Reject, Fail

LEMMA Reloading ==
    ASSUME IInv, NEW r \in Requests, Reload(r, {"card", "swimlane"})
    PROVE  IInv'
<1> DEFINE q == req'[r]
           p == req[r]
<1>1. /\ Only(r) /\ DOMAIN q = DOMAIN p /\ p.pc = "staged" /\ q.pc = "staged"
      /\ q.since = p.since /\ q.walk = p.walk /\ AreChanges(q.writes, Schema)
      /\ \A e \in q.writes : \E c \in p.writes : Again(e, c) /\ (c.table \notin {"card", "swimlane"} => e = c)
      /\ \A c \in p.writes : \E e \in q.writes : Again(e, c) /\ (c.table \notin {"card", "swimlane"} => e = c)
  BY Rereads DEF IInv
<1>2. DOMAIN q = {"pc", "writes", "since", "walk"} /\ RequestIsJustified(p) /\ AreChanges(p.writes, Schema)
      /\ \A c \in p.writes : IsCurrent(c, p.since, Schema)
  BY <1>1 DEF IInv, Shared, RequestsTyped, WritesTyped, RequestsAreJustified, ReadsAreCurrent
<1> HIDE DEF q
<1>3. \A e \in q.writes : IsCurrent(e, q.since, Schema)
  BY <1>1, <1>2, RereadIsCurrent
<1>4. WalkIsSound(q)
  BY <1>1, <1>2 DEF RequestIsJustified, WalkIsSound, Again
<1>5. ASSUME NEW e \in q.writes PROVE IsJustified(e, q)
  <2>1. PICK c \in p.writes : Again(e, c) /\ (c.table \notin {"card", "swimlane"} => e = c)
    BY <1>1
  <2>2. IsJustified(c, p) /\ IsCurrent(c, p.since, Schema) /\ IsChange(c, Schema) /\ IsChange(e, Schema)
    BY <1>1, <1>2 DEF RequestIsJustified, AreChanges
  <2>3. ASSUME e.table = "card" PROVE CardIsJustified(e, q.writes, q.since)
    <3>1. SUFFICES ASSUME NEW x \in Columns, Enters(e, x), q.since \cap Counted = {}
                   PROVE  /\ \A d \in q.writes : (d.table = "card" => d = e) /\ d.table # "column"
                          /\ HasPlace(x)
      BY DEF CardIsJustified
    <3>2. c.table = "card" /\ c.new = e.new
      BY <2>1, <2>3 DEF Again
    <3>3. c.old # None => c.old.column_id # x
      <4>1. SUFFICES ASSUME c.old # None PROVE c.old.column_id # x
        OBVIOUS
      <4>2. CASE e.old = c.old
        BY <3>1, <4>1, <4>2 DEF Enters
      <4>3. CASE e.old # c.old
        <5>1. e.old = db["card"][c.key]
          BY <2>1, <3>2, <4>3 DEF Again
        <5>2. "card" \notin p.since /\ "column_id" \notin p.since
          BY <1>1, <3>1 DEF Counted
        <5>3. c.old \in Card
          BY <2>2, <3>2, <4>1, SchemaTables DEF IsChange
        <5>4. db["card"][c.key].column_id = c.old.column_id
          BY <2>2, <3>2, <4>1, <5>2, <5>3 DEF IsCurrent, Card
        <5>5. e.old # None
          BY <2>1, <5>1, <3>2, <4>3 DEF Again, SameRow
        <5>6. QED
          BY <3>1, <5>1, <5>4, <5>5 DEF Enters
      <4>4. QED
        BY <4>2, <4>3
    <3>4. Enters(c, x)
      BY <3>1, <3>2, <3>3 DEF Enters
    <3>5. (\A d \in p.writes : (d.table = "card" => d = c) /\ d.table # "column") /\ HasPlace(x)
      BY <1>1, <2>2, <3>1, <3>2, <3>4 DEF IsJustified, CardIsJustified
    <3>6. ASSUME NEW d \in q.writes PROVE (d.table = "card" => d = e) /\ d.table # "column"
      <4>1. PICK a \in p.writes : Again(d, a)
        BY <1>1
      <4>2. d.table = a.table /\ d.key = a.key /\ e.table = c.table /\ e.key = c.key
        BY <2>1, <4>1 DEF Again
      <4>3. QED
        BY <1>1, <3>5, <4>2 DEF AreChanges
    <3>7. QED
      BY <3>5, <3>6
  <2>4. ASSUME e.table = "sprint" PROVE SprintIsJustified(e, q.writes, q.since)
    <3>1. e = c /\ SprintIsJustified(c, p.writes, p.since)
      BY <2>1, <2>2, <2>4 DEF Again, IsJustified
    <3>2. ASSUME NEW d \in q.writes, d.table = "sprint" PROVE d = e
      <4>1. PICK a \in p.writes : Again(d, a) /\ (a.table \notin {"card", "swimlane"} => d = a)
        BY <1>1
      <4>2. QED
        BY <3>1, <3>2, <4>1 DEF Again, SprintIsJustified
    <3>3. QED
      BY <1>1, <3>1, <3>2 DEF SprintIsJustified
  <2>5. ASSUME e.table = "task" PROVE TaskIsJustified(e, q.walk)
    BY <1>1, <2>1, <2>2, <2>5 DEF Again, IsJustified
  <2>6. QED
    BY <2>3, <2>4, <2>5 DEF IsJustified
<1>6. RequestIsJustified(q)
  BY <1>4, <1>5 DEF RequestIsJustified
<1>7. ASSUME NEW t \in Tasks, WillSet(p, t) PROVE WillSet(q, t)
  <2>1. p.walk # None /\ p.walk.moved
    BY <1>7 DEF WillSet, IsPending
  <2>2. \A c \in p.writes : c.table = "task"
    BY <1>2, <2>1 DEF RequestIsJustified, WalkIsSound
  <2>3. \A e \in q.writes : e \in p.writes
    BY <1>1, <2>2
  <2>4. QED
    BY <1>1, <1>7, <2>3 DEF WillSet, IsPending
<1>8. QED
  BY <1>1, <1>2, <1>3, <1>6, <1>7, OneRequest DEF Only, q

-----------------------------------------------------------------------------
(* The commit.                                                             *)

(* The request goes on with the sync, or has ended.                        *)
LEMMA AfterCommit ==
    ASSUME IInv, NEW r \in Requests, Commit(r), NEW q, q = req'[r]
    PROVE  /\ CommitTo(r, Constraints(Outcome(r)), q)
           /\ DOMAIN q = {"pc", "writes", "since", "walk"} /\ q.writes = {}
           /\ \/ q = Closed /\ q.pc = "done" /\ q.walk = None /\ q.since = {}
              \/ /\ q.pc = "walk" /\ q.since = req[r].since /\ req[r].walk # None /\ ~req[r].walk.moved
                 /\ q.walk \in Walk /\ q.walk.moved
                 /\ q.walk.task = req[r].walk.task /\ q.walk.status = req[r].walk.status
           /\ req[r].walk # None /\ ~req[r].walk.moved => q.pc = "walk"
<1> DEFINE w == req[r].walk
           then == IF w = None \/ SyncPending(r) THEN Closed
                   ELSE [req[r] EXCEPT !.pc = "walk", !.writes = {}, !.walk.moved = TRUE]
<1>1. CommitTo(r, Constraints(Outcome(r)), then)
  BY DEF Commit
<1>2. then = q
  BY <1>1 DEF CommitTo
<1>3. DOMAIN req[r] = {"pc", "writes", "since", "walk"} /\ (w # None => w \in Walk)
  BY DEF IInv, Shared, RequestsTyped, RequestsAreJustified, RequestIsJustified, WalkIsSound
<1>4. /\ DOMAIN Closed = {"pc", "writes", "since", "walk"} /\ Closed.pc = "done" /\ Closed.writes = {}
      /\ Closed.since = {} /\ Closed.walk = None
  BY DEF Closed, Fresh
<1>5. CASE w = None \/ SyncPending(r)
  BY <1>1, <1>2, <1>4, <1>5 DEF SyncPending
<1>6. CASE ~(w = None \/ SyncPending(r))
  <2>1. w # None /\ ~w.moved /\ w \in Walk
    BY <1>3, <1>6 DEF SyncPending
  <2>2. q = [req[r] EXCEPT !.pc = "walk", !.writes = {}, !.walk.moved = TRUE]
    BY <1>2, <1>6
  <2>3. DOMAIN q = {"pc", "writes", "since", "walk"} /\ q.pc = "walk" /\ q.writes = {} /\ q.since = req[r].since
        /\ q.walk = [w EXCEPT !.moved = TRUE]
    BY <1>3, <2>2
  <2>4. q.walk \in Walk /\ q.walk.moved /\ q.walk.task = w.task /\ q.walk.status = w.status
    BY <2>1, <2>3 DEF Walk
  <2>5. QED
    BY <1>1, <1>2, <2>1, <2>3, <2>4
<1>7. QED
  BY <1>5, <1>6

(* What all of the following steps begin from.                             *)
Committing(r) ==
    /\ CommitTo(r, Constraints(Outcome(r)), req'[r])
    /\ Shared(Schema) /\ HasSchema(db, Schema)' /\ TablesAreTyped /\ TablesAreTyped'
    /\ AreChanges(req[r].writes, Schema)
    /\ \A c \in req[r].writes : IsJustified(c, req[r]) /\ IsCurrent(c, req[r].since, Schema)
    /\ Constraints(db) /\ Constraints(db)'

LEMMA CommitBegins ==
    ASSUME IInv, NEW r \in Requests, Commit(r)
    PROVE  Committing(r)
<1> DEFINE q == req'[r]
<1>1. CommitTo(r, Constraints(Outcome(r)), q)
  BY AfterCommit
<1> HIDE DEF q
<1>2. HasSchema(db, Schema)'
  BY <1>1, CommitKeepsSchema DEF IInv
<1>3. TablesAreTyped'
  BY <1>2, Typed, PTL
<1>4. db' = Outcome(r) /\ Constraints(Outcome(r))
  BY <1>1 DEF CommitTo
<1>5. Constraints(db')
  BY <1>4
<1>6. Constraints(db)'
  BY <1>5 DEF Constraints, Rows
<1>7. QED
  BY <1>1, <1>2, <1>3, <1>6, IsTyped
  DEF q, Committing, IInv, BoardsAreSound, Shared, WritesTyped, RequestsAreJustified, RequestIsJustified, ReadsAreCurrent

LEMMA CommitOfTable ==
    ASSUME NEW r \in Requests, Committing(r), NEW table \in DOMAIN Schema, NEW k \in Schema[table].keys
    PROVE  /\ Schema[table].kept /\ db[table][k] # None => db'[table][k] # None
           /\ Leaves(db'[table][k], db[table][k], table, TouchedBy(r))
           /\ db'[table][k] # db[table][k] => \E c \in req[r].writes : ComesOf(c, table, k, Schema)
           /\ (\A c \in req[r].writes : c.table = table => c.key # k) => db'[table][k] = db[table][k]
<1>1. CommitTo(r, Constraints(Outcome(r)), req'[r]) /\ Shared(Schema)
  BY DEF Committing
<1>2. QED
  BY <1>1, CommitRow, CommitRowBy, CommitLeaves

(* A sprint stays on its board; its status stays or is that of a change.   *)
LEMMA SprintAfter ==
    ASSUME NEW r \in Requests, Committing(r), NEW s \in Stored("sprint")'
    PROVE  LET new == db'["sprint"][s]
               row == db["sprint"][s]
           IN  \/ row # None /\ new.board_id = row.board_id /\ new.status = row.status
               \/ row = None /\ new.status # "active"
               \/ /\ row # None /\ new.board_id = row.board_id /\ "status" \in TouchedBy(r)
                  /\ \E c \in req[r].writes :
                        /\ c.table = "sprint" /\ c.key = s /\ c.old # None /\ c.new.board_id = new.board_id
                        /\ c.new.status = new.status /\ c.old.status # new.status
<1> DEFINE new == db'["sprint"][s]
           row == db["sprint"][s]
<1> USE SchemaTables
<1>1. s \in Sprints /\ new # None /\ new \in Sprint /\ row \in Sprint \cup {None}
  BY DEF Committing, TablesAreTyped, IsTableOf
<1>2. CASE new = row
  BY <1>1, <1>2
<1>3. CASE new # row
  <2>1. PICK c \in req[r].writes : ComesOf(c, "sprint", s, Schema)
    BY <1>1, <1>3, CommitOfTable
  <2>2. c.table = "sprint" /\ c.key = s /\ c.new # None /\ SprintIsJustified(c, req[r].writes, req[r].since)
    BY <1>1, <2>1 DEF ComesOf, Committing, IsJustified, AreChanges, IsChange
  <2>3. CASE c.old = None
    BY <2>1, <2>2, <2>3 DEF ComesOf, SprintIsJustified
  <2>4. CASE c.old # None
    <3>1. /\ c.old \in Sprint /\ c.new \in Sprint /\ row \in Sprint
          /\ \A f \in DOMAIN c.new : new[f] = IF c.new[f] # c.old[f] THEN c.new[f] ELSE row[f]
      BY <2>1, <2>2, <2>4 DEF ComesOf
    <3>2. {"board_id", "status"} \subseteq DOMAIN c.new
      BY <3>1 DEF Sprint
    <3>3. c.new.board_id = c.old.board_id /\ c.new.board_id = row.board_id /\ new.board_id = row.board_id
      BY <2>2, <2>4, <3>1, <3>2 DEF SprintIsJustified
    <3>4. row # None
      BY <3>1, NoneIsNoRow
    <3>5. c.new.status # c.old.status => "status" \in TouchedBy(r)
      BY <2>2, <2>4, <3>2 DEF TouchedBy, Touched
    <3>6. CASE c.new.status = c.old.status
      BY <3>1, <3>2, <3>3, <3>4, <3>6
    <3>7. CASE c.new.status # c.old.status
      BY <2>2, <2>4, <3>1, <3>2, <3>3, <3>4, <3>5, <3>7
    <3>8. QED
      BY <3>6, <3>7
  <2>5. QED
    BY <2>3, <2>4
<1>4. QED
  BY <1>2, <1>3

LEMMA ActiveAfter ==
    ASSUME NEW r \in Requests, Committing(r), "status" \notin TouchedBy(r), NEW b
    PROVE  ActiveOf(b)' \subseteq ActiveOf(b)
<1>1. SUFFICES ASSUME NEW s \in ActiveOf(b)' PROVE s \in ActiveOf(b)
  OBVIOUS
<1>2. s \in Stored("sprint")' /\ db'["sprint"][s].board_id = b /\ db'["sprint"][s].status = "active"
  BY <1>1 DEF ActiveOf
<1>3. db["sprint"][s] # None /\ db["sprint"][s].board_id = b /\ db["sprint"][s].status = "active"
  BY <1>2, SprintAfter
<1>4. s \in Stored("sprint")
  BY <1>2, <1>3 DEF Committing, TablesAreTyped, IsTableOf
<1>5. QED
  BY <1>3, <1>4 DEF ActiveOf

(* One active sprint for each board.                                       *)
LEMMA OneActiveAfter ==
    ASSUME NEW r \in Requests, Committing(r), NEW b, \A s, t \in ActiveOf(b) : s = t,
           TouchedBy(r) \cap {"status"} = {} \/ req[r].since \cap {"status"} = {}
    PROVE  \A s, t \in ActiveOf(b)' : s = t
<1>1. CASE "status" \notin TouchedBy(r)
  BY <1>1, ActiveAfter
<1>2. CASE "status" \notin req[r].since
  <2> DEFINE Starts(c, s) == c \in req[r].writes /\ c.table = "sprint" /\ c.key = s
  <2>1. ASSUME NEW s \in ActiveOf(b)', s \notin ActiveOf(b)
        PROVE  \E c : Starts(c, s) /\ ActiveOf(b) \subseteq {s}
    <3>1. s \in Stored("sprint")' /\ db'["sprint"][s].board_id = b /\ db'["sprint"][s].status = "active"
      BY <2>1 DEF ActiveOf
    <3>2. db["sprint"][s] # None => s \in Stored("sprint")
      BY <3>1 DEF Committing, TablesAreTyped, IsTableOf
    <3>3. ~(db["sprint"][s] # None /\ db["sprint"][s].board_id = b /\ db["sprint"][s].status = "active")
      BY <2>1, <3>2 DEF ActiveOf
    <3>4. PICK c \in req[r].writes :
             /\ c.table = "sprint" /\ c.key = s /\ c.old # None /\ c.new.board_id = b
             /\ c.new.status = "active" /\ c.old.status # "active"
      BY <3>1, <3>3, SprintAfter
    <3>5. ActiveOf(b) \subseteq {s}
      BY <1>2, <3>4 DEF Committing, IsJustified, SprintIsJustified
    <3>6. QED
      BY <3>4, <3>5
  <2>2. ASSUME NEW s, NEW t, NEW c, NEW e, Starts(c, s), Starts(e, t) PROVE s = t
    BY <2>2 DEF Committing, IsJustified, SprintIsJustified
  <2> HIDE DEF Starts
  <2>3. QED
    BY <2>1, <2>2
<1>3. QED
  BY <1>1, <1>2

LEMMA DatesAfter ==
    ASSUME IInv, NEW r \in Requests, Committing(r), Undisturbed(Dates, Dates)', NEW s \in Stored("sprint")'
    PROVE  InOrder(db'["sprint"][s].start, db'["sprint"][s].end)
<1> DEFINE q == req'[r]
<1>1. CommitTo(r, Constraints(Outcome(r)), q)
  BY DEF Committing
<1> HIDE DEF q
<1>2. Undisturbed(Dates, Dates) /\ (TouchedBy(r) \cap Dates = {} \/ req[r].since \cap Dates = {})
  BY <1>1, CommitRaces DEF Dates
<1>3. s \in Sprints /\ db'["sprint"][s] # None
  BY DEF Committing, TablesAreTyped, IsTableOf
<1>4. \A row \in Schema["sprint"].rows : Dates \subseteq DOMAIN row
  <2>1. \A row \in Sprint : Dates \subseteq DOMAIN row
    BY DEF Sprint, Dates
  <2> HIDE DEF Dates
  <2>2. QED
    BY <2>1, SchemaTables
<1>5. \/ db["sprint"][s] # None /\ \A f \in Dates : db'["sprint"][s][f] = db["sprint"][s][f]
      \/ \E c \in req[r].writes :
            c.table = "sprint" /\ c.key = s /\ c.new # None /\ \A f \in Dates : db'["sprint"][s][f] = c.new[f]
  <2>1. /\ "sprint" \in DOMAIN Schema /\ s \in Schema["sprint"].keys /\ Schema["sprint"].kept
        /\ Shared(Schema) /\ ReadsAreCurrent(Schema)
    BY <1>3, SchemaTables DEF IInv
  <2>2. \/ TouchedBy(r) \cap Dates = {}
        \/ req[r].since \cap Dates = {} /\ (Schema["sprint"].kept \/ "sprint" \notin req[r].since)
    BY <1>2, <2>1
  <2> HIDE DEF Dates
  <2>3. QED
    BY <1>1, <1>3, <1>4, <2>1, <2>2, CommitColumns
<1>6. CASE db["sprint"][s] # None /\ \A f \in Dates : db'["sprint"][s][f] = db["sprint"][s][f]
  <2>1. s \in Stored("sprint")
    BY <1>3, <1>6 DEF Committing, TablesAreTyped, IsTableOf
  <2>2. InOrder(db["sprint"][s].start, db["sprint"][s].end)
    BY <1>2, <2>1 DEF IInv, BoardsAreSound, Dates
  <2>3. QED
    BY <1>6, <2>2 DEF Dates
<1>7. ASSUME NEW c \in req[r].writes, c.table = "sprint", \A f \in Dates : db'["sprint"][s][f] = c.new[f]
      PROVE  InOrder(db'["sprint"][s].start, db'["sprint"][s].end)
  <2>1. InOrder(c.new.start, c.new.end)
    BY <1>2, <1>7 DEF Committing, IsJustified, SprintIsJustified
  <2>2. QED
    BY <1>7, <2>1 DEF Dates
<1>8. QED
  BY <1>5, <1>6, <1>7

-----------------------------------------------------------------------------
(* Columns and their cards.                                                *)

(* A commit that touches no count and no limit leaves what room there was; *)
(* a column that is there again has no card.                               *)
LEMMA PlacesStay ==
    ASSUME NEW r \in Requests, Committing(r), TouchedBy(r) \cap Counted = {}, NEW x \in Columns, HasPlace(x)
    PROVE  HasPlace(x)'
<1>1. CardsOf(x)' = CardsOf(x)
  <2>1. ASSUME NEW k \in Boards \X Tasks
        PROVE  /\ db'["card"][k] = None <=> db["card"][k] = None
               /\ db["card"][k] # None => db'["card"][k].column_id = db["card"][k].column_id
    <3>1. Leaves(db'["card"][k], db["card"][k], "card", TouchedBy(r))
      BY CommitOfTable, SchemaTables
    <3>2. "card" \notin TouchedBy(r) /\ "column_id" \notin TouchedBy(r)
      BY DEF Counted
    <3>3. db["card"][k] # None => "column_id" \in DOMAIN db["card"][k]
      BY DEF Committing, TablesAreTyped, IsTableOf, Card
    <3>4. QED
      BY <3>1, <3>2, <3>3 DEF Leaves
  <2>2. /\ Stored("card")' = {k \in Boards \X Tasks : db'["card"][k] # None}
        /\ Stored("card") = {k \in Boards \X Tasks : db["card"][k] # None}
    BY DEF Committing, TablesAreTyped, IsTableOf
  <2>3. Stored("card")' = Stored("card") /\ \A k \in Stored("card") : db'["card"][k].column_id = db["card"][k].column_id
    BY <2>1, <2>2
  <2>4. QED
    BY <2>3 DEF CardsOf
<1>2. CountFor(x)' = CountFor(x)
  BY <1>1 DEF CountFor
<1>3. /\ Stored("column")' = {k \in Columns : db'["column"][k] # None}
      /\ Stored("column") = {k \in Columns : db["column"][k] # None}
      /\ db["column"][x] \in Column \cup {None} /\ db'["column"][x] \in Column \cup {None}
  BY DEF Committing, TablesAreTyped, IsTableOf
<1>4. SUFFICES ASSUME db'["column"][x] # None, db'["column"][x].wip # None PROVE CountFor(x) < db'["column"][x].wip
  BY <1>2, <1>3 DEF HasPlace
<1>5. CASE db["column"][x] # None
  <2>1. Leaves(db'["column"][x], db["column"][x], "column", TouchedBy(r))
    BY CommitOfTable, SchemaTables
  <2>2. "wip" \notin TouchedBy(r) /\ "wip" \in DOMAIN db["column"][x]
    BY <1>3, <1>5 DEF Counted, Column
  <2>3. db'["column"][x].wip = db["column"][x].wip
    BY <1>4, <1>5, <2>1, <2>2 DEF Leaves
  <2>4. QED
    BY <1>3, <1>4, <1>5, <2>3 DEF HasPlace
<1>6. CASE db["column"][x] = None
  <2>1. CardsOf(x) = {}
    <3>1. SUFFICES ASSUME NEW k \in CardsOf(x) PROVE FALSE
      OBVIOUS
    <3>2. k \in Rows(db, "card") /\ db.card[k].column_id = x
      BY <3>1 DEF CardsOf, Stored
    <3>3. x \in Rows(db, "column") \cup {None}
      BY <3>2 DEF Committing, Constraints
    <3>4. QED
      BY <1>6, <3>3, NoneIsNoRow DEF Rows
  <2>2. CountFor(x) = 0
    BY <2>1, FS_EmptySet DEF CountFor
  <2>3. db'["column"][x].wip \in Nat \ {0}
    BY <1>3, <1>4 DEF Column
  <2>4. QED
    BY <2>2, <2>3
<1>7. QED
  BY <1>5, <1>6

(* A card that is in a column after a commit and was not before entered it *)
(* with one of the changes.                                                *)
LEMMA EnteredBy ==
    ASSUME NEW r \in Requests, Committing(r), NEW x \in Columns, NEW k \in CardsOf(x)', k \notin CardsOf(x)
    PROVE  \E c \in req[r].writes : c.key = k /\ Enters(c, x) /\ TouchedBy(r) \cap {"column_id", "card"} # {}
<1>1. /\ k \in Boards \X Tasks /\ db'["card"][k] # None /\ db'["card"][k].column_id = x
      /\ db["card"][k] \in Card \cup {None}
      /\ db["card"][k] # None => db["card"][k].column_id # x
  BY DEF CardsOf, Committing, TablesAreTyped, IsTableOf
<1>2. PICK c \in req[r].writes : ComesOf(c, "card", k, Schema)
  BY <1>1, CommitOfTable, SchemaTables
<1>3. c.table = "card" /\ c.key = k /\ c.new # None
  BY <1>1, <1>2 DEF ComesOf
<1>4. CASE c.old = None
  <2>1. db'["card"][k] = c.new
    BY <1>2, <1>4 DEF ComesOf
  <2>2. "card" \in Touched(c)
    BY <1>3, <1>4 DEF Touched
  <2>3. QED
    BY <1>1, <1>3, <1>4, <2>1, <2>2 DEF Enters, TouchedBy
<1>5. CASE c.old # None
  <2>1. /\ c.old \in Card /\ c.new \in Card /\ db["card"][k] \in Card
        /\ \A f \in DOMAIN c.new : db'["card"][k][f] = IF c.new[f] # c.old[f] THEN c.new[f] ELSE db["card"][k][f]
    BY <1>2, <1>3, <1>5, SchemaTables DEF ComesOf
  <2>2. "column_id" \in DOMAIN c.new /\ db["card"][k] # None
    BY <2>1, NoneIsNoRow DEF Card
  <2>3. c.new.column_id # c.old.column_id /\ c.new.column_id = x
    BY <1>1, <2>1, <2>2
  <2>4. "column_id" \in Touched(c)
    BY <1>3, <1>5, <2>2, <2>3 DEF Touched
  <2>5. QED
    BY <1>3, <2>3, <2>4 DEF Enters, TouchedBy
<1>6. QED
  BY <1>4, <1>5

(* No commit brings a column above its limit.                              *)
LEMMA CommitHoldsLimit ==
    ASSUME NEW r \in Requests, Committing(r), NEW x \in Columns, CountFor(x)' > CountFor(x),
           Undisturbed({"column_id", "card"}, {"column_id", "card", "wip"})'
    PROVE  db'.column[x].wip \notin 0 .. (CountFor(x)' - 1)
<1> DEFINE q == req'[r]
<1>1. CommitTo(r, Constraints(Outcome(r)), q)
  BY DEF Committing
<1> HIDE DEF q
<1>2. HasSchema(db, Schema) /\ HasSchema(db, Schema)'
  BY DEF Committing, Shared
<1>3. IsFiniteSet(CardsOf(x)) /\ CountFor(x) \in Nat
  BY <1>2, CardsAreFinite
<1>4. (IsFiniteSet(CardsOf(x)) /\ CountFor(x) \in Nat)'
  BY <1>2, CardsAreFinite, PTL
<1>5. PICK k \in CardsOf(x)' : k \notin CardsOf(x)
  <2>1. SUFFICES ASSUME CardsOf(x)' \subseteq CardsOf(x) PROVE FALSE
    OBVIOUS
  <2>2. Cardinality(CardsOf(x)') <= Cardinality(CardsOf(x))
    BY <1>3, <2>1, FS_Subset
  <2>3. QED
    BY <1>3, <1>4, <2>2 DEF CountFor
<1>6. PICK c \in req[r].writes : c.key = k /\ Enters(c, x) /\ TouchedBy(r) \cap {"column_id", "card"} # {}
  BY <1>5, EnteredBy
<1>7. req[r].since \cap Counted = {}
  BY <1>1, <1>6, CommitRaces DEF Counted
<1>8. /\ \A e \in req[r].writes : (e.table = "card" => e = c) /\ e.table # "column"
      /\ HasPlace(x)
  <2>1. CardIsJustified(c, req[r].writes, req[r].since)
    BY <1>6 DEF Committing, IsJustified, Enters
  <2>2. QED
    BY <1>6, <1>7, <2>1 DEF CardIsJustified
<1>9. CardsOf(x)' \subseteq CardsOf(x) \cup {k}
  <2>1. SUFFICES ASSUME NEW l \in CardsOf(x)', l \notin CardsOf(x) PROVE l = k
    OBVIOUS
  <2>2. PICK e \in req[r].writes : e.key = l /\ Enters(e, x)
    BY <2>1, EnteredBy
  <2>3. QED
    BY <1>6, <1>8, <2>2 DEF Enters
<1>10. CountFor(x)' <= CountFor(x) + 1
  <2>1. IsFiniteSet(CardsOf(x) \cup {k}) /\ Cardinality(CardsOf(x) \cup {k}) = Cardinality(CardsOf(x)) + 1
    BY <1>3, <1>5, FS_AddElement
  <2>2. Cardinality(CardsOf(x)') <= Cardinality(CardsOf(x) \cup {k})
    BY <1>9, <2>1, FS_Subset
  <2>3. QED
    BY <2>1, <2>2 DEF CountFor
<1>11. db'["column"][x] = db["column"][x]
  BY <1>8, CommitOfTable, SchemaTables
<1>12. x \in Stored("column") /\ db["column"][x] \in Column
  <2>1. k \in Rows(db', "card") /\ db'.card[k].column_id = x
    BY <1>5 DEF CardsOf, Stored, Rows
  <2>2. x \in Rows(db', "column") \cup {None}
    BY <2>1 DEF Committing, Constraints, Rows
  <2>3. db'["column"][x] # None
    BY <2>2, NoneIsNoRow DEF Rows
  <2>4. QED
    BY <1>11, <2>3 DEF Committing, TablesAreTyped, IsTableOf
<1>13. SUFFICES ASSUME db["column"][x].wip \in 0 .. (CountFor(x)' - 1) PROVE FALSE
  BY <1>11
<1>14. db["column"][x].wip \in Nat /\ db["column"][x].wip # None
  BY <1>13, <1>4, NoneIsNoRow
<1>15. CountFor(x) < db["column"][x].wip
  BY <1>8, <1>12, <1>14 DEF HasPlace
<1>16. QED
  BY <1>3, <1>4, <1>10, <1>13, <1>14, <1>15

-----------------------------------------------------------------------------
(* A task after a commit: as it was, or with the status and the wish that  *)
(* belong together.                                                        *)
LEMMA TaskKept ==
    ASSUME NEW r \in Requests, Committing(r), NEW t \in Tasks, db["task"][t] # None
    PROVE  /\ db'["task"][t] # None
           /\ \A f \in Status \ TouchedBy(r) : db'["task"][t][f] = db["task"][t][f]
<1>1. Leaves(db'["task"][t], db["task"][t], "task", TouchedBy(r)) /\ db'["task"][t] # None
  BY CommitOfTable, SchemaTables
<1>2. Status \subseteq DOMAIN db["task"][t]
  BY DEF Committing, TablesAreTyped, IsTableOf, Task, Status
<1>3. QED
  BY <1>1, <1>2 DEF Leaves

(* A task that a change of the commit is of, and that nobody changed.      *)
LEMMA TaskWritten ==
    ASSUME NEW r \in Requests, Committing(r), NEW c \in req[r].writes, c.table = "task"
    PROVE  /\ c.key \in Tasks /\ c.old # None /\ TaskIsJustified(c, req[r].walk)
           /\ \A f \in Status \ req[r].since :
                 db'["task"][c.key][f] = c.new[f] /\ db["task"][c.key][f] = c.old[f]
           /\ \A f \in Status : c.new[f] # c.old[f] => f \in TouchedBy(r)
<1> DEFINE q == req'[r]
<1>1. CommitTo(r, Constraints(Outcome(r)), q) /\ Shared(Schema)
  BY DEF Committing
<1> HIDE DEF q
<1>2. /\ c.key \in Tasks /\ TaskIsJustified(c, req[r].walk) /\ c.old # None /\ c.new # None
      /\ IsCurrent(c, req[r].since, Schema) /\ Schema["task"].kept
      /\ c.old \in Task /\ c.new \in Task
  BY SchemaTables DEF Committing, AreChanges, IsChange, IsJustified, TaskIsJustified
<1>3. Status \subseteq DOMAIN c.new /\ Status \subseteq DOMAIN c.old
  BY <1>2 DEF Task, Status
<1>4. ASSUME NEW f \in Status \ req[r].since PROVE db'["task"][c.key][f] = c.new[f]
  BY <1>1, <1>2, <1>3, <1>4, CleanColumn
<1>5. \A f \in Status \ req[r].since : db["task"][c.key][f] = c.old[f]
  BY <1>2, <1>3 DEF IsCurrent
<1>6. \A f \in Status : c.new[f] # c.old[f] => f \in TouchedBy(r)
  BY <1>2, <1>3 DEF TouchedBy, Touched
<1>7. QED
  BY <1>2, <1>4, <1>5, <1>6

LEMMA TasksAfter ==
    ASSUME IInv, NEW r \in Requests, Commit(r), Committing(r)
    PROVE  TasksWillFollow'
<1> DEFINE q == req'[r]
           w == req[r].walk
<1>1. CommitTo(r, Constraints(Outcome(r)), q)
  BY DEF Committing
<1>2. /\ q.writes = {}
      /\ w # None /\ ~w.moved =>
            /\ q.walk # None /\ q.walk.moved /\ q.walk.task = w.task /\ q.walk.status = w.status
  <2>1. q = req'[r]
    OBVIOUS
  <2> HIDE DEF q
  <2>2. QED
    BY <2>1, AfterCommit, NoneIsNoRow DEF Closed, Fresh
<1>3. \A s \in Requests \ {r} : req'[s].writes = req[s].writes /\ req'[s].walk = req[s].walk
  <2> HIDE DEF q
  <2>1. QED
    BY <1>1, CommitRequests DEF IInv
<1>4. SUFFICES ASSUME Undisturbed(Status, StatusOrLoss)', NEW t \in Tasks,
                      db'["task"][t].task_status # db'["task"][t].asked
               PROVE  \E s \in Requests : WillSet(req[s], t)'
  BY DEF TasksWillFollow, Status, StatusOrLoss
<1>5. Undisturbed(Status, StatusOrLoss) /\ (TouchedBy(r) \cap Status = {} \/ req[r].since \cap Status = {})
  <2> HIDE DEF q
  <2>1. Undisturbed(Status, StatusOrLoss) /\ (TouchedBy(r) \cap Status = {} \/ req[r].since \cap StatusOrLoss = {})
    BY <1>1, <1>4, CommitRaces DEF Status, StatusOrLoss
  <2>2. QED
    BY <2>1 DEF Status, StatusOrLoss
<1>6. db["task"][t] # None
  BY IsTyped DEF IInv, BoardsAreSound, TablesAreTyped, IsTableOf
<1>7. WalkIsSound(req[r]) /\ (req[r].pc = "staged")
  BY <1>1 DEF IInv, RequestsAreJustified, RequestIsJustified, CommitTo
<1>8. CASE \A f \in Status : db'["task"][t][f] = db["task"][t][f]
  <2>1. db'["task"][t].task_status = db["task"][t].task_status /\ db'["task"][t].asked = db["task"][t].asked
    BY <1>8 DEF Status
  <2>2. PICK s \in Requests : WillSet(req[s], t)
    BY <1>4, <1>5, <2>1 DEF IInv, TasksWillFollow
  <2>3. CASE s = r
    <3>1. w # None /\ w.moved /\ w.task = t /\ w.status = db["task"][t].asked
          /\ \A c \in req[r].writes : c.new.task_status # c.old.task_status
      BY <2>2, <2>3 DEF WillSet, IsPending
    <3>2. PICK c \in req[r].writes : c.table = "task"
      BY <1>7, <3>1 DEF WalkIsSound
    <3>3. TaskIsJustified(c, w) /\ c.key = t /\ c.new.task_status = w.status
      BY <3>1, <3>2, TaskWritten DEF TaskIsJustified
    <3>4. "task_status" \in TouchedBy(r)
      BY <3>1, <3>2, TaskWritten DEF Status
    <3>5. "task_status" \in Status \ req[r].since
      BY <1>5, <3>4 DEF Status
    <3>6. db'["task"][t].task_status = w.status
      BY <3>2, <3>3, <3>5, TaskWritten
    <3>7. QED
      BY <1>4, <2>1, <3>1, <3>6
  <2>4. CASE s # r
    <3>1. req'[s].writes = req[s].writes /\ req'[s].walk = req[s].walk
      BY <1>3, <2>4
    <3>2. QED
      BY <2>1, <2>2, <3>1 DEF WillSet, IsPending
  <2>5. QED
    BY <2>3, <2>4
<1>9. CASE ~\A f \in Status : db'["task"][t][f] = db["task"][t][f]
  <2>1. req[r].since \cap Status = {}
    BY <1>5, <1>6, <1>9, TaskKept
  <2>2. PICK c \in req[r].writes : c.table = "task" /\ c.key = t
    BY <1>9, CommitOfTable, SchemaTables
  <2>3. /\ TaskIsJustified(c, w)
        /\ db'["task"][t].task_status = c.new.task_status /\ db'["task"][t].asked = c.new.asked
        /\ db["task"][t].asked = c.old.asked
    BY <2>1, <2>2, TaskWritten DEF Status
  <2>4. w # None
    BY <1>4, <2>3 DEF TaskIsJustified
  <2>5. CASE w.moved
    <3>1. db["task"][t].asked = w.status
      BY <1>7, <2>1, <2>2, <2>3, <2>4, <2>5 DEF WalkIsSound, TaskIsJustified
    <3>2. QED
      BY <1>4, <2>3, <2>4, <2>5, <3>1 DEF TaskIsJustified
  <2>6. CASE ~w.moved
    <3>1. t = w.task /\ db'["task"][t].asked = w.status
      BY <2>2, <2>3, <2>4, <2>6 DEF TaskIsJustified
    <3>2. WillSet(req[r], t)'
      BY <1>2, <2>4, <2>6, <3>1 DEF WillSet, IsPending
    <3>3. QED
      BY <3>2
  <2>7. QED
    BY <2>5, <2>6
<1>10. QED
  BY <1>8, <1>9

(* What was justified stays so, but for what the commit touches.           *)
LEMMA JustifiedAfter ==
    ASSUME IInv, NEW r \in Requests, Committing(r), NEW p, RequestIsJustified(p), AreChanges(p.writes, Schema),
           \A c \in p.writes : IsCurrent(c, p.since, Schema),
           NEW q, q.writes = p.writes, q.walk = p.walk, q.pc = p.pc, q.since = p.since \cup TouchedBy(r)
    PROVE  RequestIsJustified(q)'
<1>1. \A A, B : Undisturbed(A, B)' => Undisturbed(A, B)
  BY DEF Committing, CommitTo, Undisturbed
<1>2. ASSUME NEW c \in p.writes, c.table = "card", CardIsJustified(c, p.writes, p.since)
      PROVE  CardIsJustified(c, p.writes, q.since)'
  <2>1. SUFFICES ASSUME NEW x \in Columns, Enters(c, x), q.since \cap Counted = {}
                 PROVE  /\ \A e \in p.writes : (e.table = "card" => e = c) /\ e.table # "column"
                        /\ HasPlace(x)'
    BY DEF CardIsJustified, Enters, Counted
  <2>2. p.since \cap Counted = {} /\ TouchedBy(r) \cap Counted = {}
    BY <2>1
  <2>3. QED
    BY <1>2, <2>1, <2>2, PlacesStay DEF CardIsJustified
<1>3. ASSUME NEW c \in p.writes, c.table = "sprint", SprintIsJustified(c, p.writes, p.since)
      PROVE  SprintIsJustified(c, p.writes, q.since)'
  <2>1. IsChange(c, Schema)
    BY DEF AreChanges
  <2>2. ASSUME c.old # None PROVE db'["sprint"][c.key].board_id = c.new.board_id
    <3>1. c.key \in Sprints /\ c.old \in Sprint /\ c.new \in Sprint
      BY <1>3, <2>1, <2>2, SchemaTables DEF IsChange, SprintIsJustified
    <3>2. db["sprint"][c.key] # None
      BY <1>3, <2>2, SchemaTables DEF IsCurrent, SameRow
    <3>3. db'["sprint"][c.key] # None
      BY <3>1, <3>2, CommitOfTable, SchemaTables
    <3>4. c.key \in Stored("sprint")'
      BY <3>1, <3>3 DEF Committing, TablesAreTyped, IsTableOf
    <3>5. QED
      BY <1>3, <2>2, <3>2, <3>4, SprintAfter DEF SprintIsJustified
  <2>3. "status" \notin q.since => ActiveOf(c.new.board_id)' \subseteq ActiveOf(c.new.board_id)
    BY ActiveAfter
  <2>4. QED
    BY <1>1, <1>3, <2>2, <2>3 DEF SprintIsJustified, Dates
<1>4. WalkIsSound(q)'
  <2>1. ASSUME p.walk # None, p.walk.moved, q.since \cap Status = {}
        PROVE  db'["task"][p.walk.task].asked = p.walk.status
    <3>1. p.walk.task \in Tasks /\ db["task"][p.walk.task].asked = p.walk.status
      BY <2>1 DEF RequestIsJustified, WalkIsSound, Walk
    <3>2. db["task"][p.walk.task] # None
      BY <3>1, IsTyped DEF IInv, BoardsAreSound, TablesAreTyped, IsTableOf
    <3>3. "asked" \in Status \ TouchedBy(r)
      BY <2>1 DEF Status
    <3>4. QED
      BY <3>1, <3>2, <3>3, TaskKept
  <2>2. QED
    BY <2>1 DEF RequestIsJustified, WalkIsSound, Status
<1>5. QED
  BY <1>2, <1>3, <1>4 DEF RequestIsJustified, IsJustified, TaskIsJustified

LEMMA Commits ==
    ASSUME IInv, NEW r \in Requests, Commit(r)
    PROVE  IInv'
<1> DEFINE q == req'[r]
<1>0. Committing(r)
  BY CommitBegins
<1>1. CommitTo(r, Constraints(Outcome(r)), q)
  BY <1>0 DEF Committing
<1>2. /\ DOMAIN q = {"pc", "writes", "since", "walk"} /\ q.writes = {}
      /\ \/ q = Closed /\ q.pc = "done" /\ q.walk = None /\ q.since = {}
         \/ /\ q.pc = "walk" /\ q.since = req[r].since /\ req[r].walk # None /\ ~req[r].walk.moved
            /\ q.walk \in Walk /\ q.walk.moved
            /\ q.walk.task = req[r].walk.task /\ q.walk.status = req[r].walk.status
  <2>1. q = req'[r]
    OBVIOUS
  <2> HIDE DEF q
  <2>2. QED
    BY <2>1, AfterCommit
<1>3. /\ DOMAIN req' = Requests
      /\ \A s \in Requests \ {r} :
            /\ DOMAIN req'[s] = {"pc", "writes", "since", "walk"}
            /\ req'[s].pc = req[s].pc /\ req'[s].writes = req[s].writes /\ req'[s].walk = req[s].walk
            /\ req[s].pc \in {"walk", "staged"} => req'[s].since = req[s].since \cup TouchedBy(r)
            /\ req[s].pc \in {"new", "done"} => req'[s] = req[s]
  <2> HIDE DEF q
  <2>1. QED
    BY <1>1, CommitRequests DEF IInv
<1>4. Shared(Schema)'
  <2>1. AreChanges(q.writes, Schema)
    BY <1>2 DEF AreChanges
  <2> HIDE DEF q
  <2>2. QED
    BY <1>1, <1>2, <2>1, CommitKeepsShared DEF IInv
<1>5. ReadsAreCurrent(Schema)'
  <2>1. ASSUME NEW s \in Requests, NEW c \in req'[s].writes PROVE IsCurrent(c, req[s].since, Schema)'
    <3>1. s # r /\ c \in req[s].writes
      BY <1>2, <1>3, <2>1
    <3>2. IsCurrent(c, req[s].since, Schema)
      BY <3>1 DEF IInv, ReadsAreCurrent
    <3> HIDE DEF q
    <3>3. QED
      BY <1>1, <3>1, <3>2, CommitKeepsReadsCurrent DEF IInv
  <2>2. QED
    BY <2>1 DEF ReadsAreCurrent
<1>6. RequestsAreSound'
  <2>1. ASSUME NEW s \in Requests
        PROVE  /\ req'[s].pc \in {"new", "walk", "staged", "done"}
               /\ req'[s].pc # "staged" => req'[s].writes = {}
               /\ \A c, e \in req'[s].writes : c.table = e.table /\ c.key = e.key => c = e
               /\ req'[s].pc = "walk" => req'[s].walk # None
               /\ req'[s].pc \in {"new", "done"} => req'[s] \in {Fresh, Closed}
    <3>1. CASE s = r
      BY <1>2, <3>1, NoneIsNoRow
    <3>2. CASE s # r
      BY <1>3, <3>2 DEF IInv, BoardsAreSound, RequestsAreSound
    <3>3. QED
      BY <3>1, <3>2
  <2>2. QED
    BY <2>1 DEF RequestsAreSound
<1>7. BoardsAreSound'
  <2> HIDE DEF q
  <2>1. HasSchema(db, Schema)' /\ Constraints(db)'
    BY <1>0 DEF Committing
  <2>2. Stored("task")' = Tasks
    <3>1. \A t \in Tasks : db["task"][t] # None
      BY IsTyped DEF IInv, BoardsAreSound, TablesAreTyped, IsTableOf
    <3>2. \A t \in Tasks : db'["task"][t] # None
      BY <1>0, <3>1, TaskKept
    <3>3. QED
      BY <1>0, <3>2 DEF Committing, TablesAreTyped, IsTableOf
  <2>3. Undisturbed(Dates, Dates)' => \A s \in Stored("sprint")' : InOrder(db'["sprint"][s].start, db'["sprint"][s].end)
    BY <1>0, DatesAfter
  <2>4. ASSUME Undisturbed({"status"}, {"status"})', NEW b \in Boards PROVE \A s, t \in ActiveOf(b)' : s = t
    <3>1. Undisturbed({"status"}, {"status"}) /\ (TouchedBy(r) \cap {"status"} = {} \/ req[r].since \cap {"status"} = {})
      BY <1>1, <2>4, CommitRaces
    <3>2. \A s, t \in ActiveOf(b) : s = t
      BY <3>1 DEF IInv, BoardsAreSound
    <3>3. QED
      BY <1>0, <3>1, <3>2, OneActiveAfter
  <2>5. QED
    BY <1>6, <2>1, <2>2, <2>3, <2>4 DEF BoardsAreSound, Dates
<1>8. RequestsAreJustified'
  <2>1. ASSUME NEW s \in Requests, NEW p, p = req'[s] PROVE RequestIsJustified(p)'
    <3>1. CASE s = r
      <4>1. p.writes = {}
        BY <1>2, <2>1, <3>1
      <4>2. CASE p.walk = None
        BY <4>1, <4>2 DEF RequestIsJustified, WalkIsSound
      <4>3. CASE p.walk # None
        <5>1. /\ p.pc = "walk" /\ p.since = req[r].since /\ req[r].walk # None /\ ~req[r].walk.moved
              /\ p.walk \in Walk /\ p.walk.moved
              /\ p.walk.task = req[r].walk.task /\ p.walk.status = req[r].walk.status
          BY <1>2, <2>1, <3>1, <4>3
        <5>2. WalkIsSound(req[r])
          BY DEF IInv, RequestsAreJustified, RequestIsJustified
        <5>3. PICK c \in req[r].writes : c.table = "task"
          BY <5>1, <5>2 DEF WalkIsSound
        <5>4. c.key = p.walk.task /\ c.new.asked = p.walk.status
          BY <1>0, <5>1, <5>3, TaskWritten DEF TaskIsJustified
        <5>5. p.since \cap Status = {} => db'["task"][p.walk.task].asked = p.walk.status
          BY <1>0, <5>1, <5>3, <5>4, TaskWritten DEF Status
        <5>6. QED
          BY <4>1, <5>1, <5>5 DEF RequestIsJustified, WalkIsSound, Status
      <4>4. QED
        BY <4>2, <4>3
    <3>2. CASE s # r
      <4>1. CASE req[s].pc \in {"walk", "staged"}
        <5>1. /\ p.writes = req[s].writes /\ p.walk = req[s].walk /\ p.pc = req[s].pc
              /\ p.since = req[s].since \cup TouchedBy(r)
          BY <1>3, <2>1, <3>2, <4>1
        <5>2. /\ RequestIsJustified(req[s]) /\ AreChanges(req[s].writes, Schema)
              /\ \A c \in req[s].writes : IsCurrent(c, req[s].since, Schema)
          BY DEF IInv, RequestsAreJustified, Shared, WritesTyped, ReadsAreCurrent
        <5> HIDE DEF q
        <5>3. QED
          BY <1>0, <5>1, <5>2, JustifiedAfter
      <4>2. CASE req[s].pc \in {"new", "done"}
        <5>1. p.walk = None /\ p.writes = {}
          BY <1>3, <2>1, <3>2, <4>2 DEF IInv, BoardsAreSound, RequestsAreSound, Fresh, Closed
        <5>2. QED
          BY <5>1 DEF RequestIsJustified, WalkIsSound
      <4>3. QED
        BY <4>1, <4>2 DEF IInv, Shared, RequestsTyped
    <3>3. QED
      BY <3>1, <3>2
  <2>2. ASSUME NEW s \in Requests PROVE RequestIsJustified(req[s])'
    BY <2>1
  <2>3. QED
    BY <2>2 DEF RequestsAreJustified
<1> HIDE DEF q
<1>9. TasksWillFollow'
  BY <1>0, TasksAfter
<1>10. QED
  BY <1>4, <1>5, <1>7, <1>8, <1>9 DEF IInv

-----------------------------------------------------------------------------
LEMMA NextKeepsIInv == IInv /\ [Next]_txns => IInv'
<1> SUFFICES ASSUME IInv, [Next]_txns PROVE IInv'
  OBVIOUS
<1>1. CASE UNCHANGED txns
  <2>1. UNCHANGED <<db, req, raced>>
    BY <1>1 DEF txns
  <2>2. Shared(Schema)' /\ ReadsAreCurrent(Schema)'
    BY <2>1 DEF IInv, Shared, HasSchema, RequestsTyped, WritesTyped, ReadsAreCurrent, IsCurrent
  <2>3. \A A, B : Undisturbed(A, B)' <=> Undisturbed(A, B)
    BY <2>1 DEF Undisturbed
  <2>4. BoardsAreSound'
    <3>1. Constraints(db)' /\ HasSchema(db, Schema)' /\ RequestsAreSound'
      BY <2>1 DEF IInv, BoardsAreSound, RequestsAreSound
    <3>2. QED
      BY <2>1, <2>3, <3>1, SameTables DEF IInv, BoardsAreSound
  <2>5. RequestsAreJustified'
    <3>1. ASSUME NEW r \in Requests, NEW q, q = req[r] PROVE RequestIsJustified(q)'
      BY <2>1, <2>3, <3>1, SameTablesJustify DEF IInv, RequestsAreJustified
    <3>2. ASSUME NEW r \in Requests PROVE RequestIsJustified(req[r])'
      BY <2>1, <3>1
    <3>3. QED
      BY <3>2 DEF RequestsAreJustified
  <2>6. TasksWillFollow'
    <3>1. \A r \in Requests, t \in Tasks : WillSet(req[r], t) => WillSet(req[r], t)'
      BY <2>1 DEF WillSet, IsPending
    <3>2. QED
      BY <2>1, <2>3, <3>1 DEF IInv, TasksWillFollow, Status, StatusOrLoss
  <2>7. QED
    BY <2>2, <2>4, <2>5, <2>6 DEF IInv
<1>2. CASE Next
  <2>1. PICK r \in Requests :
           \/ BoardRoutes(r) \/ ColumnRoutes(r) \/ SwimlaneRoutes(r) \/ CardRoutes(r)
           \/ BacklogRoutes(r) \/ SprintRoutes(r) \/ RecordSnapshots(r)
           \/ \E t \in Tasks, status \in TaskStatuses : SetStatus(r, t, status)
           \/ Progress(r)
    BY <1>2 DEF Next
  <2>2. CASE BoardRoutes(r) \/ ColumnRoutes(r) \/ SwimlaneRoutes(r) \/ CardRoutes(r) \/ BacklogRoutes(r)
    BY <2>2, BoardSteps, ColumnSteps, SwimlaneSteps, CardSteps, BacklogSteps
  <2>3. CASE SprintRoutes(r) \/ RecordSnapshots(r)
    BY <2>3, SprintSteps, SnapshotSteps
  <2>4. CASE \E t \in Tasks, status \in TaskStatuses : SetStatus(r, t, status)
    BY <2>4, TaskSteps
  <2>5. CASE Progress(r)
    BY <2>5, Reloading, TheSync, Endings, Commits DEF Progress
  <2>6. QED
    BY <2>1, <2>2, <2>3, <2>4, <2>5
<1>3. QED
  BY <1>1, <1>2

(* From any sound database the inductive invariant holds.                  *)
THEOREM BoardFlowInductive == Spec => []IInv
  BY StartIsSound, NextKeepsIInv, PTL DEF Spec

(* The types, the constraints, dates in order and one active sprint.       *)
THEOREM BoardsStaySound == Spec => []BoardsAreSound
<1>1. IInv => BoardsAreSound
  BY DEF IInv
<1>2. QED
  BY BoardFlowInductive, <1>1, PTL

(* A task gets the status its last move asked for.                         *)
THEOREM TasksFollowTheirMoves == Spec => []StatusFollowsTheMove
  BY BoardFlowInductive, FollowsFromPending, PTL

(* Only a commit changes the tables.                                       *)
LEMMA OnlyCommitsWrite == Next => UNCHANGED db \/ \E r \in Requests : Commit(r)
<1> SUFFICES ASSUME Next PROVE UNCHANGED db \/ \E r \in Requests : Commit(r)
  OBVIOUS
<1>1. \A r, writes : Stage(r, writes) => UNCHANGED db
  BY DEF Stage, StageMarked
<1>2. \A r, table, k, row : Save(r, table, k, row) => UNCHANGED db
  BY <1>1 DEF Save
<1>3. PICK r \in Requests :
         \/ BoardRoutes(r) \/ ColumnRoutes(r) \/ SwimlaneRoutes(r) \/ CardRoutes(r)
         \/ BacklogRoutes(r) \/ SprintRoutes(r) \/ RecordSnapshots(r)
         \/ \E t \in Tasks, status \in TaskStatuses : SetStatus(r, t, status)
         \/ Progress(r)
  BY DEF Next
<1>4. BoardRoutes(r) \/ ColumnRoutes(r) => UNCHANGED db
  BY <1>1, <1>2 DEF BoardRoutes, CreateBoard, UpdateBoard, UpdateSettings, ChangeStrategy, ArchiveBoard, RestoreBoard,
     DeleteBoard, ColumnRoutes, RenameColumn, CreateColumn, SetWipLimit, SetColor, SetPolicies, ReorderColumn,
     DeleteColumn, SetMapped
<1>5. SwimlaneRoutes(r) \/ CardRoutes(r) \/ BacklogRoutes(r) => UNCHANGED db
  BY <1>1, <1>2 DEF SwimlaneRoutes, CreateSwimlane, RenameSwimlane, ReorderSwimlane, DeleteSwimlane, CardRoutes, AddCard,
     MoveCard, StageMove, RemoveCard, ReorderCard, EstimateCard, BacklogRoutes, MoveToBacklog, RemoveFromSprint, AssignToSprint
<1>6. SprintRoutes(r) \/ RecordSnapshots(r) => UNCHANGED db
  BY <1>1, <1>2 DEF SprintRoutes, CreateSprint, UpdateSprint, StartSprint, CompleteSprint, CancelSprint, Turn, RecordSnapshots
<1>7. (\E t \in Tasks, status \in TaskStatuses : SetStatus(r, t, status)) => UNCHANGED db
  BY <1>2 DEF SetStatus
<1>8. Progress(r) => UNCHANGED db \/ Commit(r)
  BY DEF Progress, Reload, Sync, Reject, Fail
<1>9. QED
  BY <1>3, <1>4, <1>5, <1>6, <1>7, <1>8

(* No commit brings a column above its WIP limit unless another one        *)
(* overlapped its count.                                                   *)
THEOREM LimitsHold == Spec => WipLimitsHold
<1> DEFINE Keeps(c) ==
             CountFor(c)' > CountFor(c) /\ db'.column[c].wip \in 0..(CountFor(c)' - 1)
                => ~Undisturbed({"column_id", "card"}, {"column_id", "card", "wip"})'
<1>1. ASSUME IInv, [Next]_txns, NEW c \in Columns PROVE Keeps(c)
  <2>1. CASE UNCHANGED db
    <3>1. CountFor(c)' = CountFor(c) /\ CountFor(c) \in Nat
      BY <1>1, <2>1, SameTables, CardsAreFinite, IsTyped
    <3>2. QED
      BY <3>1
  <2>2. ASSUME NEW r \in Requests, Commit(r) PROVE Keeps(c)
    BY <1>1, <2>2, CommitBegins, CommitHoldsLimit
  <2>3. QED
    BY <1>1, <2>1, <2>2, OnlyCommitsWrite DEF txns
<1>2. IInv /\ [Next]_txns => [\A c \in Columns : Keeps(c)]_txns
  BY <1>1
<1>3. WipLimitsHold <=> [][\A c \in Columns : Keeps(c)]_txns
  BY DEF WipLimitsHold
<1> HIDE DEF Keeps
<1>4. QED
  BY BoardFlowInductive, <1>2, <1>3, PTL DEF Spec
=============================================================================
