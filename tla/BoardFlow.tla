------------------------------- MODULE BoardFlow -------------------------------
(***************************************************************************)
(* The boards context: boards, their columns with WIP limits, swimlanes,   *)
(* the cards that place tasks on them, sprints and the daily burndown job. *)
(* A move into a column that is mapped to a task status sets that status   *)
(* afterwards, in a transaction of the tasks context.                      *)
(* Names of boards and sprints, colours, policies, estimates and positions *)
(* are read by no guard: the calls that write them only touch the row.     *)
(***************************************************************************)
EXTENDS Transactions, Integers

CONSTANTS
    Boards, Columns, Swimlanes, Sprints,   \* ids
    Tasks,          \* tasks of the boards' project
    Names,          \* names of columns
    Limits,         \* WIP limits a member may set
    Days,           \* dates
    TaskStatuses,   \* statuses of the tasks context
    Follows         \* pairs of statuses its workflow allows (TaskGraph)

ASSUME LimitsAssumption == Limits \subseteq Nat /\ Days \subseteq Int
ASSUME FollowsAssumption == Follows \subseteq TaskStatuses \X TaskStatuses

(* The tables; rows that are deleted for good carry the id of their insert. *)
Ids == Requests \cup {None}
Board == [custom : BOOLEAN, archived : BOOLEAN, deleted : BOOLEAN]
Column == [board_id : Boards, name : Names, wip : (Nat \ {0}) \cup {None},
           mapped : TaskStatuses \cup {None}, id : Ids]
Swimlane == [board_id : Boards, id : Ids]
Card == [column_id : Columns \cup {None}, swimlane_id : Swimlanes \cup {None},
         sprint_id : Sprints \cup {None}, id : Ids]
SprintStatuses == {"planned", "active", "completed", "cancelled"}
Sprint == [board_id : Boards, status : SprintStatuses, start : Days \cup {None}, end : Days \cup {None}]
Snapshot == [id : Requests]
(* Of a task, its status; and, as history, what the last move asked for.   *)
Task == [task_status : TaskStatuses, asked : TaskStatuses]

(* What is left to do after the commit of a move, and its state.           *)
Walk == [task : Tasks, status : TaskStatuses, moved : BOOLEAN]

Schema ==
    [board    |-> Table(Boards, Board),
     column   |-> Volatile(Columns, Column),
     swimlane |-> Volatile(Swimlanes, Swimlane),
     card     |-> Volatile(Boards \X Tasks, Card),
     sprint   |-> Table(Sprints, Sprint),
     snapshot |-> Table(Sprints, Snapshot),
     task     |-> Table(Tasks, Task)]

ASSUME FinitenessAssumption == IsFiniteSet(Boards) /\ IsFiniteSet(Tasks)
ASSUME NoneAssumption ==
    /\ None \notin Columns /\ None \notin TaskStatuses /\ None \notin Days /\ None \notin Nat
    /\ None \notin Walk
    /\ \A table \in DOMAIN Schema : None \notin Schema[table].rows

(* Foreign keys and the unique names of a board's columns; one card per    *)
(* board and task and one snapshot per sprint and day are the keys.        *)
Constraints(d) ==
    /\ \A x \in Rows(d, "column") : d.column[x].board_id \in Rows(d, "board")
    /\ \A x \in Rows(d, "swimlane") : d.swimlane[x].board_id \in Rows(d, "board")
    /\ \A x \in Rows(d, "sprint") : d.sprint[x].board_id \in Rows(d, "board")
    /\ \A x \in Rows(d, "snapshot") : x \in Rows(d, "sprint")
    /\ \A k \in Rows(d, "card") :
          /\ k[1] \in Rows(d, "board")
          /\ d.card[k].column_id \in Rows(d, "column") \cup {None}
          /\ d.card[k].swimlane_id \in Rows(d, "swimlane") \cup {None}
          /\ d.card[k].sprint_id \in Rows(d, "sprint") \cup {None}
    /\ \A x, y \in Rows(d, "column") :
          x # y /\ d.column[x].board_id = d.column[y].board_id => d.column[x].name # d.column[y].name

-----------------------------------------------------------------------------
(* What the repositories read.                                             *)

LiveBoard(b) == db.board[b] # None /\ ~db.board[b].deleted
ColumnNamed(b, n) == {c \in Stored("column") : db.column[c].board_id = b /\ db.column[c].name = n}
CardsOf(c) == {k \in Stored("card") : db.card[k].column_id = c}
CountFor(c) == Cardinality(CardsOf(c))
ActiveOf(b) == {s \in Stored("sprint") : db.sprint[s].board_id = b /\ db.sprint[s].status = "active"}
AllActive == {s \in Stored("sprint") : db.sprint[s].status = "active"}

(* A card, a column, a swimlane or a sprint is reached with its board.     *)
HasCard(k) == k \in Stored("card") /\ LiveBoard(k[1])
HasColumn(c) == c \in Stored("column") /\ LiveBoard(db.column[c].board_id)
HasSwimlane(w) == w \in Stored("swimlane") /\ LiveBoard(db.swimlane[w].board_id)
HasSprint(s) == s \in Stored("sprint") /\ LiveBoard(db.sprint[s].board_id)

-----------------------------------------------------------------------------
(* Boards.                                                                 *)

NewBoard(custom) == [custom |-> custom, archived |-> FALSE, deleted |-> FALSE]

CreateBoard(r, b) ==
    IsNew("board", b) /\ \E custom \in BOOLEAN : Stage(r, {Insert("board", b, NewBoard(custom))})

UpdateBoard(r, b) == LiveBoard(b) /\ Save(r, "board", b, db.board[b])
UpdateSettings(r, b) == LiveBoard(b) /\ Save(r, "board", b, db.board[b])

ChangeStrategy(r, b) ==
    LiveBoard(b) /\ \E custom \in BOOLEAN : Save(r, "board", b, [db.board[b] EXCEPT !.custom = custom])

ArchiveBoard(r, b) ==
    LiveBoard(b) /\ ~db.board[b].archived /\ Save(r, "board", b, [db.board[b] EXCEPT !.archived = TRUE])

RestoreBoard(r, b) ==
    LiveBoard(b) /\ db.board[b].archived /\ Save(r, "board", b, [db.board[b] EXCEPT !.archived = FALSE])

DeleteBoard(r, b) == LiveBoard(b) /\ Save(r, "board", b, [db.board[b] EXCEPT !.deleted = TRUE])

-----------------------------------------------------------------------------
(* Columns.                                                                *)

(* InvalidWipLimitError, in create and set_wip_limit.                      *)
ValidLimit(wip) == wip # None => wip > 0

NewColumn(r, b, n, wip, mapped) == [board_id |-> b, name |-> n, wip |-> wip, mapped |-> mapped, id |-> r]

CreateColumn(r, b, c, n) ==
    /\ LiveBoard(b) /\ ColumnNamed(b, n) = {} /\ IsNew("column", c)
    /\ \E wip \in Limits \cup {None}, mapped \in TaskStatuses \cup {None} :
          ValidLimit(wip) /\ Stage(r, {Insert("column", c, NewColumn(r, b, n, wip, mapped))})

RenameColumn(r, c, n) ==
    /\ HasColumn(c) /\ ColumnNamed(db.column[c].board_id, n) = {}
    /\ Save(r, "column", c, [db.column[c] EXCEPT !.name = n])

(* The limit may be below the number of cards that are there.              *)
SetWipLimit(r, c) ==
    /\ HasColumn(c)
    /\ \E wip \in Limits \cup {None} : ValidLimit(wip) /\ Save(r, "column", c, [db.column[c] EXCEPT !.wip = wip])

SetColor(r, c) == HasColumn(c) /\ Save(r, "column", c, db.column[c])
SetPolicies(r, c) == HasColumn(c) /\ Save(r, "column", c, db.column[c])
ReorderColumn(r, c) == HasColumn(c) /\ Save(r, "column", c, db.column[c])

SetMapped(r, c, status) == HasColumn(c) /\ Save(r, "column", c, [db.column[c] EXCEPT !.mapped = status])

(* BoardCard.move_to_column: a card that is moved without a swimlane       *)
(* leaves the one it is in.                                                *)
Placed(row, c, w) == [row EXCEPT !.column_id = c, !.swimlane_id = w]

(* The cards it sees go to the backlog; the flush deletes last, so that a  *)
(* card that came in the meantime is held by the foreign key.              *)
DeleteColumn(r, c) ==
    /\ HasColumn(c)
    /\ Stage(r, {Update("card", k, Placed(db.card[k], None, None)) : k \in CardsOf(c)}
                \cup {Delete("column", c)})

-----------------------------------------------------------------------------
(* Swimlanes.                                                              *)

CreateSwimlane(r, b, w) ==
    /\ LiveBoard(b) /\ db.board[b].custom /\ IsNew("swimlane", w)
    /\ Stage(r, {Insert("swimlane", w, [board_id |-> b, id |-> r])})

RenameSwimlane(r, w) == HasSwimlane(w) /\ Save(r, "swimlane", w, db.swimlane[w])
ReorderSwimlane(r, w) == HasSwimlane(w) /\ Save(r, "swimlane", w, db.swimlane[w])

(* Cards that are in it hold it.                                           *)
DeleteSwimlane(r, w) == HasSwimlane(w) /\ Stage(r, {Delete("swimlane", w)})

-----------------------------------------------------------------------------
(* Cards.                                                                  *)

HasRoom_OffByOne(c) ==
    c \in Stored("column") /\ (db.column[c].wip # None => CountFor(c) <= db.column[c].wip)

(* _assert_wip_limit_not_exceeded *)
HasRoom(c) ==
    c \in Stored("column") /\ (db.column[c].wip # None => CountFor(c) < db.column[c].wip)

NewCard(r, c) == [column_id |-> c, swimlane_id |-> None, sprint_id |-> None, id |-> r]

(* The column may be of another board; adding sets no status.              *)
AddCard(r, b, t, c) ==
    /\ LiveBoard(b) /\ <<b, t>> \notin Stored("card")
    /\ c # None => HasRoom(c)
    /\ Stage(r, {Insert("card", <<b, t>>, NewCard(r, c))})

RemoveCard(r, k) == HasCard(k) /\ Stage(r, {Delete("card", k)})

(* A move that will set a status carries it, and notes it with its commit. *)
StageMove(r, writes, t, status) ==
    /\ req[r].pc = "new"
    /\ req' = [req EXCEPT ![r] = [Fresh EXCEPT
                  !.pc = "staged",
                  !.writes = writes \cup {Update("task", t, [db.task[t] EXCEPT !.asked = status])},
                  !.walk = [task |-> t, status |-> status, moved |-> FALSE]]]
    /\ UNCHANGED <<db, raced>>

(* The status a move to c sets: of the column it moves to, if it leaves    *)
(* its own.                                                                *)
MappedOf(k, c) == IF c \in {db.card[k].column_id, None} THEN None ELSE db.column[c].mapped

(* batch_move is a sequence of these, each in a transaction of its own.    *)
MoveCard(r, k, c, w) ==
    /\ HasCard(k)
    /\ c \notin {db.card[k].column_id, None} => HasRoom(c)
    /\ LET move == {Update("card", k, Placed(db.card[k], c, w))}
       IN  IF MappedOf(k, c) = None THEN Stage(r, move) ELSE StageMove(r, move, k[2], MappedOf(k, c))

(* reorder_task *)
ReorderCard(r, k) == HasCard(k) /\ Save(r, "card", k, Placed(db.card[k], db.card[k].column_id, None))

MoveToBacklog(r, k) == HasCard(k) /\ Save(r, "card", k, Placed(db.card[k], None, None))

AssignToSprint(r, k, s) ==
    /\ HasCard(k) /\ s \in Stored("sprint") /\ db.sprint[s].board_id = k[1]
    /\ Save(r, "card", k, [db.card[k] EXCEPT !.sprint_id = s])

RemoveFromSprint(r, k) == HasCard(k) /\ Save(r, "card", k, [db.card[k] EXCEPT !.sprint_id = None])

(* set_estimate *)
EstimateCard(r, k) == HasCard(k) /\ Save(r, "card", k, db.card[k])

-----------------------------------------------------------------------------
(* Sprints.                                                                *)

(* _assert_date_order *)
InOrder(start, end) == None \notin {start, end} => start <= end

NewSprint(b, start, end) == [board_id |-> b, status |-> "planned", start |-> start, end |-> end]

CreateSprint(r, b, s) ==
    /\ LiveBoard(b) /\ IsNew("sprint", s)
    /\ \E start, end \in Days \cup {None} :
          InOrder(start, end) /\ Stage(r, {Insert("sprint", s, NewSprint(b, start, end))})

UpdateSprint(r, s) ==
    /\ HasSprint(s)
    /\ \E start, end \in Days \cup {None} :
          LET row == [db.sprint[s] EXCEPT !.start = IF start # None THEN start ELSE @,
                                          !.end = IF end # None THEN end ELSE @]
          IN  InOrder(row.start, row.end) /\ Save(r, "sprint", s, row)

(* _ALLOWED_SPRINT_TRANSITIONS *)
SprintMoves == {<<"planned", "active">>, <<"planned", "cancelled">>,
                <<"active", "completed">>, <<"active", "cancelled">>}

Turn(r, s, status) ==
    /\ <<db.sprint[s].status, status>> \in SprintMoves
    /\ Save(r, "sprint", s, [db.sprint[s] EXCEPT !.status = status])

StartSprint_AnyNumber(r, s) == HasSprint(s) /\ Turn(r, s, "active")

(* With two active sprints the lookup of the active one fails.             *)
StartSprint(r, s) ==
    /\ HasSprint(s) /\ ActiveOf(db.sprint[s].board_id) \subseteq {s}
    /\ Turn(r, s, "active")

CompleteSprint(r, s) == HasSprint(s) /\ Turn(r, s, "completed")
CancelSprint(r, s) == HasSprint(s) /\ Turn(r, s, "cancelled")

(* The burndown job: the active sprints that have no snapshot of the day,  *)
(* of any board, all in one transaction.                                   *)
RecordSnapshots(r) ==
    Stage(r, {Insert("snapshot", s, [id |-> r]) : s \in AllActive \ Stored("snapshot")})

-----------------------------------------------------------------------------
(* The sync with the tasks context.                                        *)

(* A status that is set by hand, by way of the tasks context.              *)
SetStatus(r, t, status) ==
    /\ <<db.task[t].task_status, status>> \in Follows
    /\ Save(r, "task", t, [task_status |-> status, asked |-> status])

Syncing(r) == req[r].pc = "walk"
SyncPending(r) == IF req[r].walk = None THEN FALSE ELSE req[r].walk.moved
Unsynced == <<"task_status", "unsynced">>

(* After the commit of the move, change_status of the tasks context begins *)
(* a transaction of its own.                                               *)
Sync(r) ==
    LET w == req[r].walk
        from == db.task[w.task].task_status
    IN  /\ Syncing(r) /\ (from = w.status \/ <<from, w.status>> \in Follows)
        /\ req' = [req EXCEPT ![r].pc = "staged",
                              ![r].writes = {Update("task", w.task, [db.task[w.task] EXCEPT !.task_status = w.status])}]
        /\ UNCHANGED <<db, raced>>

(* TaskStatusRejectedError: the move stays.                                *)
Reject(r) ==
    LET w == req[r].walk
        from == db.task[w.task].task_status
    IN  /\ Syncing(r) /\ from # w.status /\ <<from, w.status>> \notin Follows
        /\ req' = [req EXCEPT ![r] = Closed]
        /\ raced' = raced \cup {Unsynced}
        /\ UNCHANGED db

Commit_NoSync(r) == CommitTo(r, Constraints(Outcome(r)), Closed)

(* The commit of a move that sets a status is followed by the sync.        *)
Commit(r) ==
    LET w == req[r].walk
        then == IF w = None \/ SyncPending(r) THEN Closed
                ELSE [req[r] EXCEPT !.pc = "walk", !.writes = {}, !.walk.moved = TRUE]
    IN  CommitTo(r, Constraints(Outcome(r)), then)

(* A crash, a conflict or an error ends the request; after the commit of   *)
(* the move nobody sets its status any more.                               *)
Fail(r) ==
    /\ req[r].pc \in {"walk", "staged"}
    /\ req' = [req EXCEPT ![r] = Closed]
    /\ raced' = IF SyncPending(r) THEN raced \cup {Unsynced} ELSE raced
    /\ UNCHANGED db

-----------------------------------------------------------------------------
(* The routes, by router, and the steps of a request that has begun.       *)

BoardRoutes(r) ==
    \E b \in Boards :
       \/ CreateBoard(r, b) \/ UpdateBoard(r, b) \/ UpdateSettings(r, b) \/ ChangeStrategy(r, b)
       \/ ArchiveBoard(r, b) \/ RestoreBoard(r, b) \/ DeleteBoard(r, b)

ColumnRoutes(r) ==
    \E c \in Columns :
       \/ \E n \in Names : RenameColumn(r, c, n) \/ \E b \in Boards : CreateColumn(r, b, c, n)
       \/ SetWipLimit(r, c) \/ SetColor(r, c) \/ SetPolicies(r, c) \/ ReorderColumn(r, c) \/ DeleteColumn(r, c)
       \/ \E status \in TaskStatuses \cup {None} : SetMapped(r, c, status)

SwimlaneRoutes(r) ==
    \E w \in Swimlanes :
       \/ \E b \in Boards : CreateSwimlane(r, b, w)
       \/ RenameSwimlane(r, w) \/ ReorderSwimlane(r, w) \/ DeleteSwimlane(r, w)

CardRoutes(r) ==
    \E k \in Boards \X Tasks :
       \/ \E c \in Columns \cup {None} :
             \/ AddCard(r, k[1], k[2], c)
             \/ \E w \in Swimlanes \cup {None} : MoveCard(r, k, c, w)
       \/ RemoveCard(r, k) \/ ReorderCard(r, k) \/ EstimateCard(r, k)

BacklogRoutes(r) ==
    \E k \in Boards \X Tasks :
       \/ MoveToBacklog(r, k) \/ RemoveFromSprint(r, k)
       \/ \E s \in Sprints : AssignToSprint(r, k, s)

SprintRoutes(r) ==
    \E s \in Sprints :
       \/ \E b \in Boards : CreateSprint(r, b, s)
       \/ UpdateSprint(r, s) \/ StartSprint(r, s) \/ CompleteSprint(r, s) \/ CancelSprint(r, s)

Progress(r) ==
    \/ Reload(r, {"card", "swimlane"}) \/ Sync(r) \/ Reject(r) \/ Commit(r) \/ Fail(r)

Next ==
    \E r \in Requests :
       \/ BoardRoutes(r) \/ ColumnRoutes(r) \/ SwimlaneRoutes(r) \/ CardRoutes(r)
       \/ BacklogRoutes(r) \/ SprintRoutes(r) \/ RecordSnapshots(r)
       \/ \E t \in Tasks, status \in TaskStatuses : SetStatus(r, t, status)
       \/ Progress(r)

-----------------------------------------------------------------------------
(* Properties.  The operators named X_Y are changed forms of X, each as a  *)
(* bug in that code would change it: the runs tell them from X.            *)

(* The types and the database's own constraints; a sprint's dates stay in  *)
(* order and a board has one active sprint at most (start_sprint:          *)
(* OnlyOneActiveSprintPerBoardError), unless requests that change the same *)
(* columns overlapped.                                                     *)
BoardsAreSound ==
    /\ HasSchema(db, Schema) /\ Stored("task") = Tasks /\ RequestsAreSound /\ Constraints(db)
    /\ Undisturbed({"start", "end"}, {"start", "end"}) =>
          \A s \in Stored("sprint") : InOrder(db.sprint[s].start, db.sprint[s].end)
    /\ Undisturbed({"status"}, {"status"}) => \A b \in Boards : \A s, t \in ActiveOf(b) : s = t

(* No commit brings a column above its WIP limit, by a move, by adding a   *)
(* card or in any other way, unless another card or another limit was      *)
(* committed between its count and its commit.                             *)
WipLimitsHold ==
    [][\A c \in Columns :
          CountFor(c)' > CountFor(c) /\ db'.column[c].wip \in 0..(CountFor(c)' - 1)
             => ~Undisturbed({"column_id", "card"}, {"column_id", "card", "wip"})']_txns

(* When nothing is under way, a task has the status that the last change   *)
(* asked for - a move of a card into a mapped column, or a change by hand  *)
(* - unless the workflow rejected it, the process stopped between the move *)
(* and its sync, or another change came in between the two.                *)
StatusFollowsTheMove ==
    \A t \in Tasks :
        \/ \E r \in Requests : SyncPending(r)
        \/ ~Undisturbed({"task_status", "asked"}, {"task_status", "asked", "unsynced"})
        \/ db.task[t].task_status = db.task[t].asked
-----------------------------------------------------------------------------
(* From any sound database, whatever overlapped before.                    *)
Start == req = [r \in Requests |-> Fresh] /\ BoardsAreSound /\ StatusFollowsTheMove

Spec == Start /\ [][Next]_txns

=============================================================================
