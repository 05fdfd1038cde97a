------------------------------ MODULE MCTaskGraph ------------------------------
(***************************************************************************)
(* An instance of TaskGraph: a small project in the middle of its work.    *)
(***************************************************************************)
EXTENDS TaskGraph

CONSTANTS r1, r2, t1, t2, t3, u1, u2, l1, l2, n1, n2

(* A project that reviews nothing.                                         *)
Short == [s \in Statuses |-> IF s = "backlog" THEN {"done"} ELSE IF s = "done" THEN {"backlog"} ELSE {}]
MCWorkflows == {Short}

(* t2 is a finished subtask of t1, which waits for it; t3 is to be made.   *)
Young ==
    [task |-> [t \in Tasks |->
                 CASE t = t1 -> [NewTask(None, 1, None) EXCEPT !.status = "testing"]
                   [] t = t2 -> [NewTask(t1, None, 2) EXCEPT !.status = "done", !.completed = TRUE]
                   [] OTHER -> None],
     assignment |-> [k \in Tasks \X Users |-> IF k = <<t1, u1>> THEN [primary |-> TRUE, id |-> None] ELSE None],
     label |-> [l \in Labels |-> IF l = l1 THEN [name |-> n1, id |-> None] ELSE None],
     labelled |-> [k \in Tasks \X Labels |-> IF k = <<t1, l1>> THEN [id |-> None] ELSE None],
     dependency |-> [k \in Tasks \X Tasks |-> IF k = <<t1, t2>> THEN [id |-> None] ELSE None],
     relation |-> [k \in Tasks \X Tasks |-> None],
     workflow |-> [k \in {"project"} |-> None]]

(* Three levels of subtasks that wait for each other, under the workflow   *)
(* of the project's own.                                                   *)
Grown ==
    [Young EXCEPT
        !.task = [t \in Tasks |->
                    CASE t = t1 -> NewTask(None, 1, 1)
                      [] t = t2 -> [NewTask(t1, None, None) EXCEPT !.archived = TRUE]
                      [] OTHER -> [NewTask(t2, 1, 2) EXCEPT !.status = "done", !.completed = TRUE]],
        !.assignment[t1, u2] = [primary |-> FALSE, id |-> None],
        !.label[l2] = [name |-> n2, id |-> None],
        !.dependency[t2, t3] = [id |-> None],
        !.relation[t2, t1] = [id |-> None],
        !.workflow["project"] = [transitions |-> Short]]

MCInit == db \in {Young, Grown} /\ InitTransactions

MCSpec == MCInit /\ [][Next]_txns

=============================================================================
