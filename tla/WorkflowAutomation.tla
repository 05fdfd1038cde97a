-------------------------- MODULE WorkflowAutomation --------------------------
(***************************************************************************)
(* The delayed and scheduled actions of the workflow engine.  A move of a  *)
(* task stores a pending row for each deferred action of its transition;   *)
(* the recurring job of each process lists the rows that are due, runs     *)
(* their actions one by one and records the outcome in the row.            *)
(*                                                                         *)
(* The list, the action and the record are separate transactions, the rows *)
(* carry no version, the job runs under a timeout, and a process may stop  *)
(* or crash at any step: those are the steps of this module.  A step of a  *)
(* worker is what it does between two awaits that others can observe.      *)
(***************************************************************************)
EXTENDS Naturals, FiniteSets

CONSTANTS
    Workers,     \* processes that run the scheduler
    Pendings,    \* pending_automation_actions rows a move may store
    External,    \* rows whose action acts outside the unit of work (tasks, webhook)
    Hanging,     \* external rows whose action outlasts the job's timeout
    MaxFaults    \* bound: timeouts, crashes and errors in a behaviour

ASSUME RowsAssumption ==
    /\ External \subseteq Pendings /\ Hanging \subseteq External
    /\ IsFiniteSet(Workers) /\ MaxFaults \in Nat

VARIABLES
    row,         \* the row of each pending action; whether that is to notify a user
    live,        \* the workflow is not soft-deleted
    effects,     \* external effects each row's action has had
    entries,     \* committed activity entries of each row's action
    worker,      \* the job of each process
    faults,      \* faults so far
    cuts,        \* history: runs of a row cut off after its action took effect
    shared,      \* history: rows listed while another worker held them
    unaddressed  \* history: notifications a run of which found no recipient

jobVars == <<row, live, effects, entries, worker, faults, cuts, shared, unaddressed>>
history == <<cuts, shared, unaddressed>>
counters == <<effects, entries>>

(* The rows that neither act outside nor notify: their action adds an       *)
(* activity entry to the unit of work.                                      *)
Enters(p) == p \notin External /\ ~row[p].notice

Statuses == {"none", "pending", "executed", "failed"}
Phases == {"down", "idle", "batch", "gone", "execute", "acted", "refused"}

Idle == [pc |-> "idle", batch |-> {}, current |-> {}, acted |-> FALSE]
Down == [Idle EXCEPT !.pc = "down"]

JobsTypeOK ==
    /\ row \in [Pendings -> [status : Statuses, due : BOOLEAN, notice : BOOLEAN]]
    /\ \A p \in External : ~row[p].notice
    /\ live \in BOOLEAN
    /\ effects \in [Pendings -> Nat] /\ entries \in [Pendings -> Nat]
    /\ worker \in [Workers -> [pc : Phases, batch : SUBSET Pendings,
                               current : SUBSET Pendings, acted : BOOLEAN]]
    /\ faults \in 0..MaxFaults
    /\ cuts \in [Pendings -> Nat] /\ shared \subseteq Pendings /\ unaddressed \subseteq Pendings

JobsInit ==
    /\ row = [p \in Pendings |-> [status |-> "none", due |-> FALSE, notice |-> FALSE]]
    /\ live = TRUE
    /\ effects = [p \in Pendings |-> 0] /\ entries = effects
    /\ worker = [w \in Workers |-> Idle]
    /\ faults = 0
    /\ cuts = effects /\ shared = {} /\ unaddressed = {}

-----------------------------------------------------------------------------
(* What other parts of the program do to the rows.                         *)

(* A move commits a pending row for a deferred action; a SCHEDULED time    *)
(* may already have passed.                                                *)
Enqueue(p) ==
    /\ live /\ row[p].status = "none"
    /\ \E now \in BOOLEAN, notice \in {FALSE, (p \notin External)} :
          row' = [row EXCEPT ![p] = [status |-> "pending", due |-> now, notice |-> notice]]
    /\ UNCHANGED <<live, counters, worker, faults, history>>

(* run_at passes. *)
BecomesDue(p) ==
    /\ row[p].status = "pending" /\ ~row[p].due
    /\ row' = [row EXCEPT ![p].due = TRUE]
    /\ UNCHANGED <<live, counters, worker, faults, history>>

(* The soft delete of the workflow; its rows stay.  The action's own row   *)
(* cannot go: the foreign key of the pending row holds it.                 *)
DeleteWorkflow ==
    /\ live
    /\ live' = FALSE
    /\ UNCHANGED <<row, counters, worker, faults, history>>

-----------------------------------------------------------------------------
(* The job of one process.                                                 *)

Due_NoFilter == {p \in Pendings : row[p].status = "none" \/ row[p].due}
Due_AnyStatus == {p \in Pendings : row[p].status # "none" /\ row[p].due}
Due == {p \in Pendings : row[p].status = "pending" /\ row[p].due}

HeldByOthers(w) == UNION {worker[v].batch : v \in Workers \ {w}}

(* list_due in a transaction of its own: the rows are snapshots from here. *)
Tick(w) ==
    /\ worker[w].pc = "idle" /\ Due # {}
    /\ worker' = [worker EXCEPT ![w] = [Idle EXCEPT !.pc = "batch", !.batch = Due]]
    /\ shared' = shared \cup (Due \cap HeldByOthers(w))
    /\ UNCHANGED <<row, live, counters, faults, cuts, unaddressed>>

Take_RecordsFirst(w, p) ==
    /\ worker[w].pc = "batch" /\ p \in worker[w].batch
    /\ row' = [row EXCEPT ![p].status = IF live THEN "executed" ELSE @]
    /\ worker' = [worker EXCEPT ![w].pc = IF live THEN "execute" ELSE "gone",
                                ![w].current = {p}, ![w].acted = FALSE]
    /\ UNCHANGED <<live, counters, faults, history>>

Take_SkipsGone(w, p) ==
    /\ worker[w].pc = "batch" /\ p \in worker[w].batch
    /\ worker' = IF live
                 THEN [worker EXCEPT ![w].pc = "execute", ![w].current = {p}, ![w].acted = FALSE]
                 ELSE [worker EXCEPT ![w].pc = IF worker[w].batch = {p} THEN "idle" ELSE "batch", ![w].batch = @ \ {p}]
    /\ UNCHANGED <<row, live, counters, faults, history>>

(* The next row of the batch, in no fixed order: its workflow is looked up *)
(* and, when it is gone, the row is to be marked as failed.                *)
Take(w, p) ==
    /\ worker[w].pc = "batch" /\ p \in worker[w].batch
    /\ worker' = [worker EXCEPT ![w].pc = IF live THEN "execute" ELSE "gone",
                                ![w].current = {p}, ![w].acted = FALSE]
    /\ UNCHANGED <<row, live, counters, faults, history>>

(* ActionExecutor.execute: outside the unit of work the effect is there at *)
(* once; an activity entry is only added to the unit of work.              *)
RunAction(w, p) ==
    /\ worker[w].pc = "execute" /\ worker[w].current = {p}
    /\ p \notin Hanging /\ ~row[p].notice
    /\ effects' = [effects EXCEPT ![p] = IF p \in External THEN @ + 1 ELSE @]
    /\ worker' = [worker EXCEPT ![w].pc = "acted", ![w].acted = p \in External]
    /\ UNCHANGED <<row, live, entries, faults, history>>

(* SEND_NOTIFICATION.  A recipient the directory does not find is passed    *)
(* over: nothing is sent and the action returns as if it had run.  One that *)
(* is found cannot be sent to: the dispatcher is wired without a provider   *)
(* and raises NoProviderRegisteredError.                                    *)
Notify(w, p) ==
    /\ worker[w].pc = "execute" /\ worker[w].current = {p}
    /\ row[p].notice
    /\ \E found \in BOOLEAN :
          /\ worker' = [worker EXCEPT ![w].pc = IF found THEN "refused" ELSE "acted"]
          /\ unaddressed' = unaddressed \cup (IF found THEN {} ELSE {p})
    /\ UNCHANGED <<row, live, counters, faults, cuts, shared>>

(* The action raises: refused by the other context, or an HTTP error that  *)
(* came after the receiver had acted.                                      *)
Refuse(w, p) ==
    /\ worker[w].pc = "execute" /\ worker[w].current = {p}
    /\ p \notin Hanging
    /\ faults < MaxFaults
    /\ \E late \in {FALSE, (p \in External)} :
          /\ effects' = [effects EXCEPT ![p] = IF late THEN @ + 1 ELSE @]
          /\ worker' = [worker EXCEPT ![w].pc = "refused", ![w].acted = late]
    /\ faults' = faults + 1
    /\ UNCHANGED <<row, live, entries, history>>

NextRow(w) == [worker EXCEPT ![w].pc = IF worker[w].batch = worker[w].current THEN "idle" ELSE "batch",
                             ![w].batch = @ \ worker[w].current,
                             ![w].current = {}, ![w].acted = FALSE]

(* mark_executed, update and commit: the row and, with it, the activity    *)
(* entry.  The row is written whatever its status is by now.               *)
MarkExecuted(w, p) ==
    /\ worker[w].pc = "acted" /\ worker[w].current = {p}
    /\ row' = [row EXCEPT ![p].status = "executed"]
    /\ entries' = [entries EXCEPT ![p] = IF Enters(p) THEN @ + 1 ELSE @]
    /\ worker' = NextRow(w)
    /\ UNCHANGED <<live, effects, faults, history>>

(* The commit itself fails: rollback, and the row is to be marked failed.  *)
CommitFails(w) ==
    /\ worker[w].pc = "acted" /\ faults < MaxFaults
    /\ worker' = [worker EXCEPT ![w].pc = "refused"]
    /\ faults' = faults + 1
    /\ UNCHANGED <<row, live, counters, history>>

MarkFailed_Retries(w, p) ==
    /\ worker[w].pc \in {"gone", "refused"} /\ worker[w].current = {p}
    /\ worker' = NextRow(w)
    /\ UNCHANGED <<row, live, counters, faults, history>>

(* mark_failed, in the same transaction when the workflow is gone and in   *)
(* one of its own after an exception.                                      *)
MarkFailed(w, p) ==
    /\ worker[w].pc \in {"gone", "refused"} /\ worker[w].current = {p}
    /\ row' = [row EXCEPT ![p].status = "failed"]
    /\ worker' = NextRow(w)
    /\ UNCHANGED <<live, counters, faults, history>>

-----------------------------------------------------------------------------
(* The ends of a batch that leave its rows as they are.                    *)

(* Every row a worker leaves after its action took effect will run again.  *)
Leave(w, to) ==
    /\ worker' = [worker EXCEPT ![w] = to]
    /\ cuts' = [p \in Pendings |-> IF worker[w].acted /\ p \in worker[w].current
                                   THEN cuts[p] + 1 ELSE cuts[p]]
    /\ UNCHANGED <<row, live, counters, shared, unaddressed>>

(* wait_for cancels the job; the CancelledError is no Exception, so it     *)
(* leaves run_due_actions, and the scheduler logs the TimeoutError and     *)
(* sleeps.  An exception outside the try, in mark_failed, ends the same.   *)
Timeout(w) ==
    /\ worker[w].pc \notin {"down", "idle"} /\ faults < MaxFaults
    /\ faults' = faults + 1
    /\ Leave(w, Idle)

(* The timeout of an action that hangs is no accident: it always comes.    *)
Expire(w) ==
    /\ worker[w].pc = "execute" /\ worker[w].current \cap Hanging # {}
    /\ Leave(w, Idle)
    /\ UNCHANGED faults

(* The process stops (JobScheduler.stop cancels the task) or crashes.      *)
StopOrCrash(w) ==
    /\ worker[w].pc # "down" /\ faults < MaxFaults
    /\ faults' = faults + 1
    /\ Leave(w, Down)

(* JobScheduler.start in the lifespan of a new process.                    *)
Start(w) ==
    /\ worker[w].pc = "down"
    /\ worker' = [worker EXCEPT ![w] = Idle]
    /\ UNCHANGED <<row, live, counters, faults, history>>

Proceed(w) ==
    \/ Tick(w) \/ Start(w) \/ Expire(w)
    \/ \E p \in Pendings : \/ Take(w, p) \/ RunAction(w, p) \/ Notify(w, p)
                           \/ MarkExecuted(w, p) \/ MarkFailed(w, p)

Fault(w) ==
    \/ Timeout(w) \/ StopOrCrash(w) \/ CommitFails(w)
    \/ \E p \in Pendings : Refuse(w, p)

JobsNext ==
    \/ \E p \in Pendings : Enqueue(p) \/ BecomesDue(p)
    \/ DeleteWorkflow
    \/ \E w \in Workers : Proceed(w) \/ Fault(w)

(* The event loop runs the scheduler's task, a stopped process is started  *)
(* again and time passes; moves, deletes and faults need not happen.       *)
Fairness ==
    /\ \A w \in Workers : WF_jobVars(Proceed(w))
    /\ \A p \in Pendings : WF_jobVars(BecomesDue(p))

JobsSpec == JobsInit /\ [][JobsNext]_jobVars /\ Fairness

-----------------------------------------------------------------------------
(* Properties.  The operators named X_Y are changed forms of X, each as a  *)
(* bug in that code would change it: the runs tell them from X.            *)

(* The types, and what a worker holds: stored rows, of which it handles    *)
(* one at a time and only in the phases that handle one.                   *)
JobsAreSound ==
    /\ JobsTypeOK
    /\ \A w \in Workers :
          /\ \A p \in worker[w].batch : row[p].status # "none"
          /\ worker[w].current \subseteq worker[w].batch
          /\ worker[w].pc \in {"down", "idle", "batch"} <=> worker[w].current = {}
          /\ worker[w].pc = "batch" => worker[w].batch # {}
          /\ worker[w].acted => worker[w].pc \in {"acted", "refused"}

(* What a row that says "executed" stands for, however its runs were cut   *)
(* off, repeated or overtaken (automation_service.py, run_due_actions): its *)
(* task was changed or its webhook called, or its activity entry is stored; *)
(* of a notification it says the opposite, that a run found nobody to send  *)
(* it to (action_execution.py, execute).                                    *)
ExecutedMeansDone ==
    \A p \in Pendings : row[p].status = "executed" =>
        /\ p \in External => effects[p] > 0
        /\ Enters(p) => entries[p] > 0
        /\ row[p].notice => p \in unaddressed

(* An action takes effect more often than once only for a reason: a run    *)
(* was cut off between the effect and the record, or another process had   *)
(* listed the same row; and then no more often than there are reasons.     *)
(* The effects of an action stay within the unlimited retries of the job.  *)
EffectsAreAccountedFor ==
    \A p \in Pendings :
        /\ effects[p] <= Cardinality(Workers) + cuts[p]
        /\ p \notin shared => effects[p] <= 1 + cuts[p]

(* Activity entries are committed with the record of their run, so no cut  *)
(* repeats them: a second entry, or one beside a row marked as failed,     *)
(* takes two processes.                                                    *)
EntriesMatchTheirRow ==
    \A p \in Pendings \ shared :
        entries[p] = IF row[p].status = "executed" /\ Enters(p) THEN 1 ELSE 0

RecordsAreTrue == ExecutedMeansDone /\ EntriesMatchTheirRow

(* A worker that holds a row no other worker has listed finds it pending   *)
(* when it records its outcome; so an outcome is overwritten only by a     *)
(* process that ran the same row.                                          *)
OutcomesAreFinal ==
    [][\A p \in Pendings \ shared :
          row[p].status \in {"executed", "failed"} => row'[p] = row[p]]_jobVars

(* Every row that is due is executed or marked as failed in the end, unless *)
(* an action that outlasts the timeout is due too: its batches all end      *)
(* with it, and the rows after it may never have their turn.                *)
IsDue(p) == row[p].status = "pending" /\ row[p].due
OnlyHangingActionsStarveOthers ==
    \A p \in Pendings : IsDue(p) ~> (~IsDue(p) \/ \E h \in Hanging : IsDue(h))

=============================================================================
