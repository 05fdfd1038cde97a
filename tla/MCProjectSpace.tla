---------------------------- MODULE MCProjectSpace ----------------------------
(***************************************************************************)
(* An instance of WorkflowDesign over Projects: a workspace with one       *)
(* project, whose owner is alone or has a second owner beside it, and one  *)
(* workflow of it with two states and a transition that has one of each    *)
(* part.                                                                   *)
(***************************************************************************)
EXTENDS WorkflowDesign

CONSTANTS r1, r2, w1, w2, p1, p2, t1, t2, u1, u2, a, b, v1, v2, s1, s2, s3, x1, x2, q1, q2, k1

Part == [k \in Parts |-> IF k = q1 THEN [transition |-> x1, id |-> None] ELSE None]

Alone ==
    [workspace |-> [w \in Workspaces |-> IF w = w1 THEN NewWorkspace(a) ELSE None],
     workspace_member |-> [k \in Workspaces \X Users |->
                             IF k = <<w1, u1>> THEN [workspace_role |-> "owner", id |-> None] ELSE None],
     project |-> [p \in Projects |-> IF p = p1 THEN NewProject(w1, t1) ELSE None],
     member |-> [k \in Projects \X Users |->
                   CASE k = <<p1, u1>> -> Joined(None)
                     [] k = <<p1, u2>> -> [role |-> "contributor", joined |-> FALSE, id |-> None]
                     [] OTHER -> None],
     template |-> [t \in Templates |-> IF t = t1 THEN [NewTemplate EXCEPT !.is_default = TRUE] ELSE None],
     flow |-> [v \in Flows |-> IF v = v1 THEN NewFlow(p1) ELSE None],
     state |-> [s \in States |-> CASE s = s1 -> NewState(None, v1, a, TRUE)
                                   [] s = s2 -> NewState(None, v1, b, FALSE)
                                   [] OTHER -> None],
     transition |-> [x \in Transitions |->
                       IF x = x1 THEN [flow |-> v1, from |-> s1, to |-> s1, id |-> None] ELSE None],
     rule |-> Part, action |-> Part, condition |-> Part, checklist_item |-> Part,
     task_state |-> [k \in Flows \X Enrolled |-> None]]

Together ==
    [Alone EXCEPT
        !.workspace[w2] = [slug |-> b, archived |-> TRUE],
        !.project[p1] = [NewProject(w1, None) EXCEPT !.status = "archived", !.archived_at = TRUE],
        !.member[p1, u2] = Joined(None),
        !.template[t1] = NewTemplate,
        !.template[t2] = NewTemplate,
        !.flow[v1].flow_status = "archived", !.flow[v1].flow_archived_at = TRUE,
        !.state[s1].initial = FALSE]

MCInit == db \in {Alone, Together} /\ InitTransactions

MCSpec == MCInit /\ [][Next]_txns

=============================================================================
