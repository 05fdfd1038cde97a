------------------------- MODULE WorkflowExecution -------------------------
(***************************************************************************)
(* The execution side of the workflow engine                                *)
(* (application/execution_service.py over infrastructure/repositories.py):  *)
(* tasks enrolled in one workflow, moved along its transitions by requests  *)
(* and then, by the same request, along automatic transitions.              *)
(*                                                                          *)
(* One move takes two transactions and several reads of its own:            *)
(*                                                                          *)
(*   execute_transition:  task state and transition -> rules -> conditions  *)
(*   _apply_transition:   task state again -> version check -> commit       *)
(*   _auto_advance:       task state again -> candidate -> _apply_transition *)
(*                        ... at most MaxChain times                        *)
(*                                                                          *)
(* Only the first transaction compares the task's state with the            *)
(* transition's from_state_id; only the second is guarded by the version.   *)
(***************************************************************************)
EXTENDS Integers, Sequences, FiniteSets

CONSTANTS
    States,       \* workflow states
    Initial,      \* the state with is_initial
    Transitions,  \* transitions of the workflow
    From, To,     \* from_state_id and to_state_id of each transition
    Automatic,    \* transitions with is_automatic
    Gated,        \* transitions with a REQUIRED_APPROVAL rule
    Tasks,        \* tasks
    Requests,     \* concurrent requests; each executes one transition at most
    None,         \* "no row" / "nothing yet"
    MaxChain,     \* _MAX_AUTOMATIC_CHAIN_DEPTH
    MaxApprovals  \* BOUND: approval requests ever made

ASSUME WorkflowAssumption ==
    /\ Initial \in States
    /\ From \in [Transitions -> States]
    /\ To \in [Transitions -> States]
    /\ Automatic \subseteq Transitions
    /\ Gated \subseteq Transitions

ASSUME BoundAssumption == MaxChain \in Nat /\ MaxApprovals \in Nat

VARIABLES
    workflow,   \* status of the workflow; "deleted" once deleted_at is set
    enabled,    \* transitions with enabled = true
    tasks,      \* workflow_task_states: task -> row or None
    trail,      \* workflow_execution_records of each task, in commit order
    approvals,  \* workflow_approval_requests, by requested_at
    granted,    \* history: approvals a committed decision has ever approved
    req         \* the progress of each request

vars == <<workflow, enabled, tasks, trail, approvals, granted, req>>

tables == <<workflow, enabled, tasks, trail, approvals, granted>>

-------------------------------------------------------------------------------
Row == [state : States, version : Nat \ {0}]

Record == [transition : Transitions, from : States, to : States,
           by : Requests, automatic : BOOLEAN]

Approval == [transition : Transitions, task : Tasks,
             status : {"pending", "approved", "rejected"}]

Decisions == {"approved", "rejected"}

Req == [pc : {"idle", "matched", "evaluated", "loaded", "checked", "advancing",
              "deciding", "done"},
        task : Tasks \cup {None}, transition : Transitions \cup {None},
        hops : Nat, seen : Nat, origin : States \cup {None},
        entity : Row \cup {None}, base : Row \cup {None},
        approval : Nat, decision : Decisions \cup {None}]

ASSUME NoneAssumption == None \notin Row

(* Every row and every request has its type. *)
TypeOK ==
    /\ workflow \in {"active", "archived", "deleted"}
    /\ enabled \subseteq Transitions
    /\ tasks \in [Tasks -> Row \cup {None}]
    /\ trail \in [Tasks -> Seq(Record)]
    /\ approvals \in Seq(Approval)
    /\ granted \subseteq DOMAIN approvals
    /\ req \in [Requests -> Req]

-------------------------------------------------------------------------------
Unused == [pc |-> "idle", task |-> None, transition |-> None, hops |-> 0,
           seen |-> 0, origin |-> None, entity |-> None, base |-> None,
           approval |-> 0, decision |-> None]

Finished == [Unused EXCEPT !.pc = "done"]

Finish(r) == req' = [req EXCEPT ![r] = Finished]

Enrolled(k) == tasks[k] # None

Asked(tr, k) == {i \in DOMAIN approvals : approvals[i].transition = tr /\ approvals[i].task = k}

(* Mutant: a request nobody has refused yet counts as approved. *)
IsApproved_NotRefused(tr, k) ==
    \E i \in Asked(tr, k) :
        /\ approvals[i].status # "rejected"
        /\ \A j \in Asked(tr, k) : j =< i

(* get_latest_for_task: only the newest request for an approval counts. *)
IsApproved(tr, k) ==
    \E i \in Asked(tr, k) :
        /\ approvals[i].status = "approved"
        /\ \A j \in Asked(tr, k) : j =< i

(* The UPDATE of the task state: only the columns that differ from the row   *)
(* its version was checked against.                                          *)
Written(row, base, entity) ==
    [c \in {"state", "version"} |-> IF entity[c] = base[c] THEN row[c] ELSE entity[c]]

-------------------------------------------------------------------------------
(* enroll_task. uq_workflow_task_states_workflow_task refuses the second of  *)
(* two enrolments that both saw none.                                        *)

(* Mutant: enrolled rows start at version zero. *)
Enroll_VersionZero(k) ==
    /\ workflow = "active"
    /\ ~ Enrolled(k)
    /\ tasks' = [tasks EXCEPT ![k] = [state |-> Initial, version |-> 0]]
    /\ UNCHANGED <<workflow, enabled, trail, approvals, granted, req>>

Enroll(k) ==
    /\ workflow = "active"
    /\ ~ Enrolled(k)
    /\ tasks' = [tasks EXCEPT ![k] = [state |-> Initial, version |-> 1]]
    /\ UNCHANGED <<workflow, enabled, trail, approvals, granted, req>>

(* execute_transition, up to the check of the current state. *)
Evaluate(r, k, tr) ==
    /\ req[r].pc = "idle"
    /\ workflow = "active"
    /\ Enrolled(k)
    /\ tr \in enabled
    /\ From[tr] = tasks[k].state
    /\ req' = [req EXCEPT ![r] = [Unused EXCEPT !.pc = "matched", !.task = k,
                                     !.transition = tr, !.seen = tasks[k].version]]
    /\ UNCHANGED tables

(* The rules and the conditions hold; of the rules only the approval is      *)
(* state of this model, any of the others may refuse (Abort).                *)
PassRules(r) ==
    /\ req[r].pc = "matched"
    /\ req[r].transition \in Gated => IsApproved(req[r].transition, req[r].task)
    /\ req' = [req EXCEPT ![r].pc = "evaluated"]
    /\ UNCHANGED tables

(* _apply_transition reads the task state again, whatever it is now, and     *)
(* moves it to the transition's to_state_id.                                 *)
Load(r) ==
    /\ req[r].pc = "evaluated"
    /\ LET row == tasks[req[r].task]
       IN  req' = [req EXCEPT ![r].pc = "loaded", ![r].origin = row.state,
                              ![r].base = row,
                              ![r].entity = [row EXCEPT !.state = To[req[r].transition]]]
    /\ UNCHANGED tables

(* task_states.update: the row is read once more to compare versions. *)
Check(r) ==
    /\ req[r].pc = "loaded"
    /\ LET row == tasks[req[r].task]
       IN  IF row.version = req[r].entity.version
           THEN req' = [req EXCEPT ![r].pc = "checked", ![r].base = row,
                                   ![r].entity.version = @ + 1]
           ELSE Finish(r)
    /\ UNCHANGED tables

(* Mutant: the record takes its origin from the transition. *)
Commit_RecordsFrom(r) ==
    /\ req[r].pc = "checked"
    /\ LET k  == req[r].task
           tr == req[r].transition
       IN  /\ tasks' = [tasks EXCEPT ![k] = Written(@, req[r].base, req[r].entity)]
           /\ trail' = [trail EXCEPT ![k] = Append(@,
                            [transition |-> tr, from |-> From[tr], to |-> To[tr],
                             by |-> r, automatic |-> req[r].hops > 0])]
    /\ req' = [req EXCEPT ![r].pc = "advancing"]
    /\ UNCHANGED <<workflow, enabled, approvals, granted>>

(* The move and its record are one commit; the status sync and the immediate *)
(* actions come after it and can no longer undo it.                          *)
Commit(r) ==
    /\ req[r].pc = "checked"
    /\ LET k  == req[r].task
           tr == req[r].transition
       IN  /\ tasks' = [tasks EXCEPT ![k] = Written(@, req[r].base, req[r].entity)]
           /\ trail' = [trail EXCEPT ![k] = Append(@,
                            [transition |-> tr, from |-> req[r].origin, to |-> To[tr],
                             by |-> r, automatic |-> req[r].hops > 0])]
    /\ req' = [req EXCEPT ![r].pc = "advancing"]
    /\ UNCHANGED <<workflow, enabled, approvals, granted>>

-------------------------------------------------------------------------------
(* _auto_advance *)

Candidates(state) == {tr \in enabled \cap Automatic : From[tr] = state}

(* Mutant: the chain goes on from where this request left the task. *)
Advance_Stale(r) ==
    /\ req[r].pc = "advancing"
    /\ req[r].hops < MaxChain
    /\ workflow # "deleted"
    /\ \E tr \in Candidates(To[req[r].transition]) :
          req' = [req EXCEPT ![r].pc = "evaluated", ![r].transition = tr,
                             ![r].hops = @ + 1, ![r].seen = tasks[req[r].task].version]
    /\ UNCHANGED tables

(* Mutant: the chain has no maximal length. *)
Advance_Unbounded(r) ==
    /\ req[r].pc = "advancing"
    /\ workflow # "deleted"
    /\ \E tr \in Candidates(tasks[req[r].task].state) :
          req' = [req EXCEPT ![r].pc = "evaluated", ![r].transition = tr,
                             ![r].hops = @ + 1, ![r].seen = tasks[req[r].task].version]
    /\ UNCHANGED tables

(* An enabled automatic transition from wherever the task is now, whose      *)
(* conditions hold; no rule is evaluated and an archived workflow does not   *)
(* stop it. Of a deleted one nothing is found, and the request fails (Stop).  *)
Advance(r) ==
    /\ req[r].pc = "advancing"
    /\ req[r].hops < MaxChain
    /\ workflow # "deleted"
    /\ \E tr \in Candidates(tasks[req[r].task].state) :
          req' = [req EXCEPT ![r].pc = "evaluated", ![r].transition = tr,
                             ![r].hops = @ + 1, ![r].seen = tasks[req[r].task].version]
    /\ UNCHANGED tables

(* No candidate, none whose conditions hold, the chain is at its limit, or an *)
(* error after the commit: a status sync rejected by the tasks context, or a   *)
(* workflow deleted before the next hop. What is committed stays.              *)
Stop(r) ==
    /\ req[r].pc = "advancing"
    /\ Finish(r)
    /\ UNCHANGED tables

(* Before a commit: a refused rule or condition, a cancelled request, a crash. *)
Abort(r) ==
    /\ req[r].pc \notin {"idle", "advancing", "done"}
    /\ Finish(r)
    /\ UNCHANGED tables

-------------------------------------------------------------------------------
(* Approvals *)

(* Neither the task's enrolment nor the state of the workflow is looked at.  *)
(* Next makes requests for gated transitions only: no one reads the others.  *)
RequestApproval(tr, k) ==
    /\ Len(approvals) < MaxApprovals
    /\ approvals' = Append(approvals, [transition |-> tr, task |-> k, status |-> "pending"])
    /\ UNCHANGED <<workflow, enabled, tasks, trail, granted, req>>

LoadDecision(r, i, d) ==
    /\ req[r].pc = "idle"
    /\ approvals[i].status = "pending"
    /\ req' = [req EXCEPT ![r] = [Unused EXCEPT !.pc = "deciding", !.approval = i,
                                                !.decision = d]]
    /\ UNCHANGED tables

(* approvals.update has no version to check: a decision that was loaded while *)
(* the approval was pending replaces whatever was decided since.              *)
CommitDecision(r) ==
    /\ req[r].pc = "deciding"
    /\ approvals' = [approvals EXCEPT ![req[r].approval].status = req[r].decision]
    /\ granted' = IF req[r].decision = "approved" THEN granted \cup {req[r].approval}
                                                  ELSE granted
    /\ req' = [req EXCEPT ![r] = Unused]
    /\ UNCHANGED <<workflow, enabled, tasks, trail>>

-------------------------------------------------------------------------------
(* Configuration, under a deleted workflow refused altogether. *)

SetEnabled(tr) ==
    /\ workflow # "deleted"
    /\ enabled' \in {enabled \cup {tr}, enabled \ {tr}}
    /\ UNCHANGED <<workflow, tasks, trail, approvals, granted, req>>

Archive ==
    /\ workflow = "active"
    /\ workflow' = "archived"
    /\ UNCHANGED <<enabled, tasks, trail, approvals, granted, req>>

Restore ==
    /\ workflow = "archived"
    /\ workflow' = "active"
    /\ UNCHANGED <<enabled, tasks, trail, approvals, granted, req>>

Delete ==
    /\ workflow # "deleted"
    /\ workflow' = "deleted"
    /\ UNCHANGED <<enabled, tasks, trail, approvals, granted, req>>

-------------------------------------------------------------------------------
Init ==
    /\ workflow = "active"
    /\ enabled = Transitions
    /\ tasks = [k \in Tasks |-> None]
    /\ trail = [k \in Tasks |-> <<>>]
    /\ approvals = <<>>
    /\ granted = {}
    /\ req = [r \in Requests |-> Unused]

Execute(r) ==
    \/ \E k \in Tasks, tr \in Transitions : Evaluate(r, k, tr)
    \/ PassRules(r)
    \/ Load(r)
    \/ Check(r)
    \/ Commit(r)
    \/ Advance(r)
    \/ Stop(r)
    \/ Abort(r)

Approve(r) ==
    \/ \E i \in DOMAIN approvals, d \in Decisions : LoadDecision(r, i, d)
    \/ CommitDecision(r)

Configure ==
    \/ \E tr \in Transitions : SetEnabled(tr)
    \/ Archive
    \/ Restore
    \/ Delete

Next ==
    \/ \E k \in Tasks : Enroll(k)
    \/ \E r \in Requests : Execute(r) \/ Approve(r)
    \/ \E tr \in Gated, k \in Tasks : RequestApproval(tr, k)
    \/ Configure

Spec == Init /\ [][Next]_vars

-------------------------------------------------------------------------------
(* Properties *)

(* Every move raises the version by one, unless two were checked against the *)
(* same one: then the version stays behind the records for ever.             *)
Agreed(k) == Enrolled(k) /\ tasks[k].version = Len(trail[k]) + 1

(* The history of a task whose moves never raced is a chain: each record     *)
(* starts where the one before it ended, the first in the initial state, and *)
(* the last ends where the task is.                                          *)
AgreedTrailIsChain ==
    \A k \in Tasks : Agreed(k) =>
        LET n == Len(trail[k])
        IN  /\ n = 0 => tasks[k].state = Initial
            /\ n > 0 => trail[k][1].from = Initial /\ trail[k][n].to = tasks[k].state
            /\ \A i \in 1 .. (n - 1) : trail[k][i].to = trail[k][i + 1].from

(* A transition that requires an approval is taken by hand only for a task    *)
(* somebody approved it for, however decisions and moves overlap.             *)
GatedMovesWereApproved ==
    \A k \in Tasks : \A i \in DOMAIN trail[k] :
        LET rec == trail[k][i]
        IN  (rec.transition \in Gated /\ ~ rec.automatic)
                => \E a \in granted : /\ approvals[a].transition = rec.transition
                                      /\ approvals[a].task = k

(* The automatic transitions a request fires are no more than MaxChain, even  *)
(* when they form a cycle and other requests move the task meanwhile.         *)
AutomaticChainIsBounded ==
    \A r \in Requests :
        LET Fired(k) == {i \in DOMAIN trail[k] : trail[k][i].automatic /\ trail[k][i].by = r}
        IN  \A k \in Tasks : Cardinality(Fired(k)) =< MaxChain

(* A move leaves the workflow, being applied to a state that is not its       *)
(* from_state_id, only when another move of the task was committed after      *)
(* this request had looked at it.                                             *)
OffWorkflowMovesNeedAnOverlap ==
    [][\A r \in Requests, k \in Tasks :
          (/\ Commit(r)
           /\ req[r].task = k
           /\ req[r].seen = tasks[k].version
           /\ Agreed(k))
              => From[req[r].transition] = tasks[k].state]_vars

(* What InvalidTransitionError and the unit test                              *)
(* test_execute_transition_from_wrong_state_raises say: a transition cannot   *)
(* be applied from a state other than its own.                                *)
MovesFollowTheWorkflow ==
    \A k \in Tasks : \A i \in DOMAIN trail[k] :
        trail[k][i].from = From[trail[k][i].transition]
===============================================================================
