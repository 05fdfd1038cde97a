------------------------------ MODULE MCBoardFlow ------------------------------
(***************************************************************************)
(* An instance of BoardFlow: one board or two, and two tasks.              *)
(***************************************************************************)
EXTENDS BoardFlow

CONSTANTS r1, r2, b1, b2, c1, c2, c3, s1, s2, w1, w2, t1, t2, n1, n2

MCFollows == {<<"todo", "doing">>, <<"doing", "done">>, <<"doing", "todo">>}

Row(board, name, wip, mapped) == [board_id |-> board, name |-> name, wip |-> wip, mapped |-> mapped, id |-> None]

(* t1 is in the first column, in the swimlane, t2 in the backlog.          *)
Planning ==
    [board |-> [b \in Boards |-> IF b = b1 THEN NewBoard(TRUE) ELSE None],
     column |-> [c \in Columns |->
                   CASE c = c1 -> Row(b1, n1, None, "todo") [] c = c2 -> Row(b1, n2, 1, "doing") [] OTHER -> None],
     swimlane |-> [w \in Swimlanes |-> IF w = w1 THEN [board_id |-> b1, id |-> None] ELSE None],
     card |-> [k \in Boards \X Tasks |->
                 CASE k = <<b1, t1>> -> [NewCard(None, c1) EXCEPT !.swimlane_id = w1]
                   [] k = <<b1, t2>> -> NewCard(None, None)
                   [] OTHER -> None],
     sprint |-> [s \in Sprints |-> IF s = s1 THEN NewSprint(b1, 1, None) ELSE NewSprint(b1, None, 2)],
     snapshot |-> [s \in Sprints |-> None],
     task |-> [t \in Tasks |-> [task_status |-> "todo", asked |-> "todo"]]]

(* Both boards in use, the first archived, a sprint under way.             *)
Running ==
    [Planning EXCEPT
        !.board = [b \in Boards |-> [NewBoard(FALSE) EXCEPT !.archived = b = b1]],
        !.column[c3] = Row(b2, n1, 2, "done"),
        !.card[b1, t2] = None,
        !.card[b2, t1] = NewCard(None, c3),
        !.sprint[s1].status = "active",
        !.sprint[s2] = None,
        !.task[t1] = [task_status |-> "doing", asked |-> "doing"]]

MCInit == db \in {Planning, Running} /\ InitTransactions

MCSpec == MCInit /\ [][Next]_txns

=============================================================================
