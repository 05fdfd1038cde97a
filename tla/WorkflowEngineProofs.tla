----------------------- MODULE WorkflowEngineProofs -----------------------
(***************************************************************************)
(* The two parts of the workflow engine that run while tasks move, for     *)
(* every workflow and any number of tasks, requests, processes, rows and   *)
(* faults: first WorkflowExecution, then WorkflowAutomation.               *)
(*                                                                         *)
(* Execution: the records of a task take the place that audit rows have    *)
(* for a ticket: every commit adds one, no version exceeds their number    *)
(* plus one, so what a request read at that version is still what the task *)
(* is.                                                                     *)
(*                                                                         *)
(* Automation: a row keeps one holder until it is listed twice, and each   *)
(* effect of an action has an origin, a cut or a process yet to record it. *)
(***************************************************************************)
EXTENDS WorkflowExecution, WorkflowAutomation, FiniteSetTheorems, TLAPS

Newest(k) == Len(trail[k]) + 1

VersionsAreRecorded ==
    \A k \in Tasks : Enrolled(k) => tasks[k].version =< Newest(k)

Moving(r) == req[r].pc \in {"matched", "evaluated", "loaded", "checked", "advancing"}

(* A request that moves a task moves an enrolled one. *)
MoveHasTask(r) == Moving(r) =>
    /\ req[r].task \in Tasks
    /\ req[r].transition \in Transitions
    /\ Enrolled(req[r].task)

(* A request that decides knows of what. *)
DecisionIsSound(r) == req[r].pc = "deciding" =>
    req[r].approval \in DOMAIN approvals /\ req[r].decision \in Decisions

(* What the request saw when it chose the transition, if nothing was         *)
(* committed since, is a state from which the transition starts.             *)
LookIsSound(r) == req[r].pc \in {"matched", "evaluated", "loaded", "checked"} =>
    LET k == req[r].task IN
    /\ req[r].seen =< Newest(k)
    /\ req[r].seen = Newest(k) => From[req[r].transition] = tasks[k].state

(* What the request loaded, if nothing was committed since, is the row.      *)
LoadIsSound(r) == req[r].pc \in {"loaded", "checked"} =>
    LET k == req[r].task IN
    /\ req[r].base \in Row
    /\ req[r].entity \in Row
    /\ req[r].origin \in States
    /\ req[r].base.version =< Newest(k)
    /\ req[r].entity.state = To[req[r].transition]
    /\ req[r].pc = "loaded"  => req[r].entity.version = req[r].base.version
    /\ req[r].pc = "checked" => req[r].entity.version = req[r].base.version + 1
    /\ req[r].base.version = Newest(k) =>
          req[r].base = tasks[k] /\ req[r].origin = tasks[k].state

Granted(tr, k) ==
    \E a \in granted : approvals[a].transition = tr /\ approvals[a].task = k

(* A gated move by hand was approved when its rules passed. *)
GateHolds(r) ==
    (/\ req[r].pc \in {"evaluated", "loaded", "checked"}
     /\ req[r].hops = 0
     /\ req[r].transition \in Gated)
        => Granted(req[r].transition, req[r].task)

Fired(r, k) == {i \in DOMAIN trail[k] : trail[k][i].automatic /\ trail[k][i].by = r}

(* Of r's automatic records there are at most h. *)
FiredAtMost(r, h) ==
    \A k \in Tasks : IsFiniteSet(Fired(r, k)) /\ Cardinality(Fired(r, k)) =< h

(* The automatic records of a request never outnumber its hops; a hop that   *)
(* is under way has no record yet.                                           *)
HopsAreCounted(r) ==
    /\ req[r].hops =< MaxChain
    /\ FiredAtMost(r, MaxChain)
    /\ req[r].pc \in {"idle", "deciding"} => FiredAtMost(r, 0)
    /\ req[r].pc = "matched" => req[r].hops = 0
    /\ Moving(r) => FiredAtMost(r, req[r].hops)
    /\ (req[r].pc \in {"evaluated", "loaded", "checked"} /\ req[r].hops > 0)
          => FiredAtMost(r, req[r].hops - 1)

RequestIsSound(r) ==
    /\ MoveHasTask(r)
    /\ DecisionIsSound(r)
    /\ LookIsSound(r)
    /\ LoadIsSound(r)
    /\ GateHolds(r)
    /\ HopsAreCounted(r)

RequestsAreSound == \A r \in Requests : RequestIsSound(r)

ApprovalsAreGranted ==
    \A i \in DOMAIN approvals : approvals[i].status = "approved" => i \in granted

Inductive ==
    /\ TypeOK
    /\ VersionsAreRecorded
    /\ RequestsAreSound
    /\ ApprovalsAreGranted
    /\ AgreedTrailIsChain
    /\ GatedMovesWereApproved

-------------------------------------------------------------------------------
(* A step of one request that writes no table. *)

(* What a request that stands still knows about a task nobody touches. *)
LEMMA RequestFrame ==
    ASSUME NEW q \in Requests, RequestIsSound(q), UNCHANGED tables, req'[q] = req[q]
    PROVE  RequestIsSound(q)'
BY DEF tables, RequestIsSound, Moving, MoveHasTask, DecisionIsSound, LookIsSound, LoadIsSound, GateHolds,
       HopsAreCounted, Newest, Enrolled, Granted, Fired, FiredAtMost

LEMMA RequestStep ==
    ASSUME NEW r \in Requests, Inductive, UNCHANGED tables,
           req' \in [Requests -> Req],
           \A q \in Requests : q # r => req'[q] = req[q],
           RequestIsSound(r)'
    PROVE  Inductive'
<1>1. TypeOK'
  BY DEF Inductive, TypeOK, tables
<1>2. RequestsAreSound'
  BY RequestFrame DEF Inductive, RequestsAreSound
<1>3. (VersionsAreRecorded /\ ApprovalsAreGranted)'
  BY DEF Inductive, tables, VersionsAreRecorded, ApprovalsAreGranted, Enrolled, Newest
<1>4. (AgreedTrailIsChain /\ GatedMovesWereApproved)'
  BY DEF Inductive, tables, AgreedTrailIsChain, GatedMovesWereApproved, Agreed, Enrolled
<1> QED
  BY <1>1, <1>2, <1>3, <1>4 DEF Inductive

LEMMA UnusedType ==
    Unused \in Req /\ Finished \in Req /\ Unused.pc = "idle" /\ Unused.hops = 0
BY DEF Unused, Finished, Req, Decisions

LEMMA RowType ==
    ASSUME Inductive, NEW k \in Tasks, Enrolled(k)
    PROVE  tasks[k] \in Row
BY DEF Inductive, TypeOK, Enrolled

LEMMA NewestType ==
    ASSUME Inductive, NEW k \in Tasks
    PROVE  Newest(k) \in Nat /\ Newest(k) > 0
BY DEF Inductive, TypeOK, Newest

LEMMA FinishIsSound ==
    ASSUME Inductive, NEW r \in Requests, Finish(r), UNCHANGED tables
    PROVE  Inductive'
<1>1. req' \in [Requests -> Req]
  BY UnusedType DEF Inductive, TypeOK, Finish
<1>2. \A q \in Requests : q # r => req'[q] = req[q]
  BY DEF Inductive, TypeOK, Finish
<1>3. req'[r].pc = "done" /\ req'[r].hops = 0
  BY DEF Inductive, TypeOK, Finish, Finished, Unused
<1>4. HopsAreCounted(r)'
  <2>1. FiredAtMost(r, MaxChain)
    BY DEF Inductive, RequestsAreSound, RequestIsSound, HopsAreCounted
  <2>2. FiredAtMost(r, MaxChain)'
    BY <2>1 DEF FiredAtMost, Fired, tables
  <2> QED
    BY <1>3, <2>2, BoundAssumption DEF HopsAreCounted, Moving
<1>5. RequestIsSound(r)'
  BY <1>3, <1>4 DEF RequestIsSound, Moving, MoveHasTask, DecisionIsSound, LookIsSound, LoadIsSound, GateHolds
<1> QED
  BY <1>1, <1>2, <1>5, RequestStep
-------------------------------------------------------------------------------
(* The steps of a request *)

LEMMA EvaluateStep ==
    ASSUME Inductive, NEW r \in Requests, NEW k \in Tasks, NEW tr \in Transitions,
           Evaluate(r, k, tr)
    PROVE  Inductive'
<1>1. /\ req[r].pc = "idle" /\ Enrolled(k) /\ From[tr] = tasks[k].state
      /\ req' = [req EXCEPT ![r] = [Unused EXCEPT !.pc = "matched", !.task = k,
                                     !.transition = tr, !.seen = tasks[k].version]]
      /\ UNCHANGED tables
  BY DEF Evaluate
<1>2. tasks[k].version \in Nat /\ tasks[k].version =< Newest(k)
  BY <1>1, RowType DEF Row, Inductive, VersionsAreRecorded
<1>3. req'[r] = [Unused EXCEPT !.pc = "matched", !.task = k,
                               !.transition = tr, !.seen = tasks[k].version]
  BY <1>1 DEF Inductive, TypeOK
<1>4. /\ req'[r].pc = "matched" /\ req'[r].task = k /\ req'[r].transition = tr
      /\ req'[r].seen = tasks[k].version /\ req'[r].hops = 0
      /\ req'[r] \in Req
  BY <1>2, <1>3, UnusedType DEF Req
<1>5. req' \in [Requests -> Req] /\ \A q \in Requests : q # r => req'[q] = req[q]
  BY <1>1, <1>3, <1>4 DEF Inductive, TypeOK
<1>6. (MoveHasTask(r) /\ DecisionIsSound(r) /\ LookIsSound(r) /\ LoadIsSound(r) /\ GateHolds(r))'
  BY <1>1, <1>2, <1>4 DEF MoveHasTask, DecisionIsSound, LookIsSound, LoadIsSound, GateHolds, Enrolled,
     Newest, tables
<1>7. HopsAreCounted(r)'
  <2>1. FiredAtMost(r, MaxChain) /\ FiredAtMost(r, 0)
    BY <1>1 DEF Inductive, RequestsAreSound, RequestIsSound, HopsAreCounted
  <2>2. FiredAtMost(r, MaxChain)' /\ FiredAtMost(r, 0)'
    BY <1>1, <2>1 DEF FiredAtMost, Fired, tables
  <2> QED
    BY <1>4, <2>2, BoundAssumption DEF HopsAreCounted
<1> QED
  BY <1>1, <1>5, <1>6, <1>7, RequestStep DEF RequestIsSound

(* A step of a request that goes on with the hop it is making. *)
LEMMA SameHop ==
    ASSUME Inductive, NEW r \in Requests, UNCHANGED tables, Moving(r),
           req[r].pc # "advancing",
           req'[r].pc \in {"evaluated", "loaded", "checked"},
           req'[r].hops = req[r].hops
    PROVE  HopsAreCounted(r)'
<1>1. HopsAreCounted(r)
  BY DEF Inductive, RequestsAreSound, RequestIsSound
<1>2. req[r].pc \in {"matched", "evaluated", "loaded", "checked"}
  BY DEF Moving
<1>3. \A h : FiredAtMost(r, h)' <=> FiredAtMost(r, h)
  BY DEF FiredAtMost, Fired, tables
<1>4. Moving(r)'
  BY DEF Moving
<1>5. /\ req[r].hops =< MaxChain /\ FiredAtMost(r, MaxChain) /\ FiredAtMost(r, req[r].hops)
      /\ req[r].hops > 0 => FiredAtMost(r, req[r].hops - 1)
  BY <1>1, <1>2, BoundAssumption DEF HopsAreCounted, Moving
<1> QED
  BY <1>3, <1>4, <1>5 DEF HopsAreCounted

LEMMA PassRulesStep ==
    ASSUME Inductive, NEW r \in Requests, PassRules(r)
    PROVE  Inductive'
<1>1. /\ req[r].pc = "matched"
      /\ req[r].transition \in Gated => IsApproved(req[r].transition, req[r].task)
      /\ req' = [req EXCEPT ![r].pc = "evaluated"]
      /\ UNCHANGED tables
  BY DEF PassRules
<1>2. RequestIsSound(r) /\ Moving(r) /\ req[r] \in Req
  BY <1>1 DEF Inductive, RequestsAreSound, Moving, TypeOK
<1>3. /\ req'[r] = [req[r] EXCEPT !.pc = "evaluated"]
      /\ \A q \in Requests : q # r => req'[q] = req[q]
  BY <1>1 DEF Inductive, TypeOK
<1>4. /\ req'[r].pc = "evaluated" /\ req'[r].task = req[r].task
      /\ req'[r].transition = req[r].transition /\ req'[r].seen = req[r].seen
      /\ req'[r].hops = req[r].hops /\ req'[r] \in Req
  BY <1>2, <1>3 DEF Req
<1>5. req' \in [Requests -> Req]
  BY <1>1, <1>3, <1>4 DEF Inductive, TypeOK
<1>6. (MoveHasTask(r) /\ DecisionIsSound(r) /\ LookIsSound(r) /\ LoadIsSound(r))'
  BY <1>1, <1>2, <1>4 DEF RequestIsSound, MoveHasTask, DecisionIsSound, LookIsSound, LoadIsSound, Moving,
     Enrolled, Newest, tables
<1>7. GateHolds(r)'
  <2>1. req[r].transition \in Gated => Granted(req[r].transition, req[r].task)
    BY <1>1 DEF IsApproved, Asked, Granted, Inductive, ApprovalsAreGranted
  <2> QED
    BY <1>1, <1>4, <2>1 DEF GateHolds, Granted, tables
<1>8. HopsAreCounted(r)'
  BY <1>1, <1>2, <1>4, SameHop
<1> QED
  BY <1>1, <1>3, <1>5, <1>6, <1>7, <1>8, RequestStep DEF RequestIsSound

LEMMA LoadStep ==
    ASSUME Inductive, NEW r \in Requests, Load(r)
    PROVE  Inductive'
<1> DEFINE k == req[r].task
           tr == req[r].transition
<1>1. /\ req[r].pc = "evaluated"
      /\ req' = [req EXCEPT ![r].pc = "loaded", ![r].origin = tasks[k].state,
                            ![r].base = tasks[k],
                            ![r].entity = [tasks[k] EXCEPT !.state = To[tr]]]
      /\ UNCHANGED tables
  BY DEF Load
<1>2. RequestIsSound(r) /\ Moving(r) /\ req[r] \in Req
  BY <1>1 DEF Inductive, RequestsAreSound, Moving, TypeOK
<1>3. k \in Tasks /\ tr \in Transitions /\ Enrolled(k)
  BY <1>2 DEF RequestIsSound, MoveHasTask
<1>4. tasks[k] \in Row /\ tasks[k].version =< Newest(k)
  BY <1>3, RowType DEF Inductive, VersionsAreRecorded
<1>5. [tasks[k] EXCEPT !.state = To[tr]] \in Row
  BY <1>3, <1>4, WorkflowAssumption DEF Row
<1>6. /\ req'[r] = [req[r] EXCEPT !.pc = "loaded", !.origin = tasks[k].state,
                      !.base = tasks[k], !.entity = [tasks[k] EXCEPT !.state = To[tr]]]
      /\ \A q \in Requests : q # r => req'[q] = req[q]
  BY <1>1 DEF Inductive, TypeOK
<1>7. /\ req'[r].pc = "loaded" /\ req'[r].task = k /\ req'[r].transition = tr
      /\ req'[r].seen = req[r].seen /\ req'[r].hops = req[r].hops
      /\ req'[r].origin = tasks[k].state /\ req'[r].base = tasks[k]
      /\ req'[r].entity = [tasks[k] EXCEPT !.state = To[tr]]
      /\ req'[r] \in Req
  BY <1>2, <1>4, <1>5, <1>6 DEF Req, Row
<1>8. req' \in [Requests -> Req]
  BY <1>1, <1>6, <1>7 DEF Inductive, TypeOK
<1>9. (MoveHasTask(r) /\ DecisionIsSound(r) /\ LookIsSound(r) /\ GateHolds(r))'
  BY <1>1, <1>2, <1>7 DEF RequestIsSound, MoveHasTask, DecisionIsSound, LookIsSound, GateHolds, Granted,
     Moving, Enrolled, Newest, tables
<1>10. LoadIsSound(r)'
  <2>1. UNCHANGED <<tasks, trail>>
    BY <1>1 DEF tables
  <2>2. /\ req'[r].entity.state = To[tr] /\ req'[r].entity.version = tasks[k].version
        /\ tasks[k].state \in States
    BY <1>4, <1>7 DEF Row
  <2> QED
    BY <1>4, <1>5, <1>7, <2>1, <2>2 DEF LoadIsSound, Newest
<1>11. HopsAreCounted(r)'
  BY <1>1, <1>2, <1>7, SameHop
<1> QED
  BY <1>1, <1>6, <1>8, <1>9, <1>10, <1>11, RequestStep DEF RequestIsSound

LEMMA CheckStep ==
    ASSUME Inductive, NEW r \in Requests, Check(r)
    PROVE  Inductive'
<1> DEFINE k == req[r].task
           tr == req[r].transition
<1>1. req[r].pc = "loaded" /\ UNCHANGED tables
  BY DEF Check
<1>2. RequestIsSound(r) /\ Moving(r) /\ req[r] \in Req
  BY <1>1 DEF Inductive, RequestsAreSound, Moving, TypeOK
<1>3. k \in Tasks /\ tr \in Transitions /\ Enrolled(k)
  BY <1>2 DEF RequestIsSound, MoveHasTask
<1>4. tasks[k] \in Row /\ tasks[k].version =< Newest(k)
  BY <1>3, RowType DEF Inductive, VersionsAreRecorded
<1>5. CASE tasks[k].version # req[r].entity.version
  BY <1>1, <1>5, FinishIsSound DEF Check
<1>6. CASE tasks[k].version = req[r].entity.version
  <2>1. req' = [req EXCEPT ![r].pc = "checked", ![r].base = tasks[k],
                           ![r].entity.version = @ + 1]
    BY <1>6 DEF Check
  <2>2. /\ req[r].base \in Row /\ req[r].entity \in Row /\ req[r].origin \in States
        /\ req[r].entity.version = req[r].base.version
        /\ req[r].entity.state = To[tr]
        /\ req[r].base.version = Newest(k) => req[r].origin = tasks[k].state
    BY <1>1, <1>2 DEF RequestIsSound, LoadIsSound
  <2>3. /\ req'[r] = [req[r] EXCEPT !.pc = "checked", !.base = tasks[k],
                        !.entity = [req[r].entity EXCEPT !.version = req[r].entity.version + 1]]
        /\ \A q \in Requests : q # r => req'[q] = req[q]
    BY <2>1, <1>2 DEF Inductive, TypeOK, Req
  <2>4. /\ [req[r].entity EXCEPT !.version = req[r].entity.version + 1] \in Row
        /\ [req[r].entity EXCEPT !.version = req[r].entity.version + 1].state = To[tr]
        /\ [req[r].entity EXCEPT !.version = req[r].entity.version + 1].version
              = tasks[k].version + 1
    BY <1>6, <2>2 DEF Row
  <2>5. /\ req'[r].pc = "checked" /\ req'[r].task = k /\ req'[r].transition = tr
        /\ req'[r].seen = req[r].seen /\ req'[r].hops = req[r].hops
        /\ req'[r].origin = req[r].origin /\ req'[r].base = tasks[k]
        /\ req'[r].entity = [req[r].entity EXCEPT !.version = req[r].entity.version + 1]
        /\ req'[r] \in Req
    BY <1>2, <1>4, <2>3, <2>4 DEF Req
  <2>6. req' \in [Requests -> Req]
    BY <2>1, <2>3, <2>5 DEF Inductive, TypeOK
  <2>7. (MoveHasTask(r) /\ DecisionIsSound(r) /\ LookIsSound(r) /\ GateHolds(r))'
    BY <1>1, <1>2, <2>5 DEF RequestIsSound, MoveHasTask, DecisionIsSound, LookIsSound, GateHolds, Granted,
       Moving, Enrolled, Newest, tables
  <2>8. LoadIsSound(r)'
    <3>1. UNCHANGED <<tasks, trail>>
      BY <1>1 DEF tables
    <3> QED
      BY <1>4, <1>6, <2>2, <2>4, <2>5, <3>1 DEF LoadIsSound, Newest
  <2>9. HopsAreCounted(r)'
    BY <1>1, <1>2, <2>5, SameHop
  <2> QED
    BY <1>1, <2>3, <2>6, <2>7, <2>8, <2>9, RequestStep DEF RequestIsSound
<1> QED
  BY <1>5, <1>6
-------------------------------------------------------------------------------
(* The commit of a move *)

(* The UPDATE statement stores a row with the entity's version, and the whole *)
(* entity if nothing overtook the base.                                       *)
LEMMA WrittenIsRow ==
    ASSUME NEW stored \in Row, NEW base \in Row, NEW entity \in Row,
           entity.version # base.version
    PROVE  /\ Written(stored, base, entity) \in Row
           /\ Written(stored, base, entity).version = entity.version
           /\ base = stored => Written(stored, base, entity).state = entity.state
BY DEF Written, Row

(* What r committed, and what it knew of the task when it did.                *)
LEMMA CommitEffect ==
    ASSUME Inductive, NEW r \in Requests, Commit(r)
    PROVE  LET k   == req[r].task
               rec == trail'[k][Len(trail[k]) + 1]
           IN
           /\ k \in Tasks /\ req[r].transition \in Transitions /\ Enrolled(k)
           /\ Moving(r) /\ req[r].pc = "checked" /\ RequestIsSound(r)
           /\ trail[k] \in Seq(Record) /\ trail'[k] \in Seq(Record)
           /\ Len(trail'[k]) = Len(trail[k]) + 1
           /\ \A i \in 1 .. Len(trail[k]) : trail'[k][i] = trail[k][i]
           /\ rec.transition = req[r].transition /\ rec.from = req[r].origin
           /\ rec.to = To[req[r].transition] /\ rec.by = r
           /\ rec.automatic <=> req[r].hops > 0
           /\ tasks' \in [Tasks -> Row \cup {None}] /\ trail' \in [Tasks -> Seq(Record)]
           /\ tasks'[k] \in Row /\ tasks'[k].version = req[r].base.version + 1
           /\ tasks'[k].version =< Len(trail[k]) + 2
           /\ tasks'[k].version = Len(trail[k]) + 2 =>
                 /\ Agreed(k)
                 /\ tasks'[k].state = To[req[r].transition]
                 /\ req[r].origin = tasks[k].state
           /\ \A j \in Tasks : j # k => tasks'[j] = tasks[j] /\ trail'[j] = trail[j]
<1> DEFINE k   == req[r].task
           tr  == req[r].transition
           rec == [transition |-> tr, from |-> req[r].origin, to |-> To[tr],
                   by |-> r, automatic |-> req[r].hops > 0]
           new == Written(tasks[k], req[r].base, req[r].entity)
<1>1. /\ req[r].pc = "checked"
      /\ tasks' = [tasks EXCEPT ![k] = new]
      /\ trail' = [trail EXCEPT ![k] = Append(@, rec)]
  BY DEF Commit
<1>2. RequestIsSound(r) /\ Moving(r) /\ req[r] \in Req
  BY <1>1 DEF Inductive, RequestsAreSound, Moving, TypeOK
<1>3. k \in Tasks /\ tr \in Transitions /\ Enrolled(k)
  BY <1>2 DEF RequestIsSound, MoveHasTask
<1>4. tasks[k] \in Row /\ trail[k] \in Seq(Record) /\ Newest(k) = Len(trail[k]) + 1
  BY <1>3, RowType DEF Inductive, TypeOK, Newest
<1>5. /\ req[r].base \in Row /\ req[r].entity \in Row /\ req[r].origin \in States
      /\ req[r].base.version =< Newest(k)
      /\ req[r].entity.state = To[tr]
      /\ req[r].entity.version = req[r].base.version + 1
      /\ req[r].base.version = Newest(k) =>
            req[r].base = tasks[k] /\ req[r].origin = tasks[k].state
  BY <1>1, <1>2 DEF RequestIsSound, LoadIsSound
<1>6. req[r].base.version \in Nat /\ req[r].entity.version # req[r].base.version
  BY <1>5 DEF Row
<1>7. /\ new \in Row /\ new.version = req[r].base.version + 1
      /\ req[r].base = tasks[k] => new.state = To[tr]
  BY <1>4, <1>5, <1>6, WrittenIsRow
<1>8. rec \in Record
  BY <1>2, <1>3, <1>5, WorkflowAssumption DEF Record, Req
<1>14. /\ rec.transition = tr /\ rec.from = req[r].origin /\ rec.to = To[tr]
       /\ rec.by = r /\ (rec.automatic <=> req[r].hops > 0)
  OBVIOUS
<1> HIDE DEF new, rec
<1>9. /\ tasks'[k] = new /\ tasks' \in [Tasks -> Row \cup {None}]
      /\ trail'[k] = Append(trail[k], rec) /\ trail' \in [Tasks -> Seq(Record)]
      /\ \A j \in Tasks : j # k => tasks'[j] = tasks[j] /\ trail'[j] = trail[j]
  BY <1>1, <1>3, <1>4, <1>7, <1>8 DEF Inductive, TypeOK
<1>10. /\ Len(trail'[k]) = Len(trail[k]) + 1 /\ trail'[k][Len(trail[k]) + 1] = rec
       /\ \A i \in 1 .. Len(trail[k]) : trail'[k][i] = trail[k][i]
  BY <1>4, <1>8, <1>9
<1>11. tasks'[k].version = Len(trail[k]) + 2 =>
          Agreed(k) /\ tasks'[k].state = To[tr] /\ req[r].origin = tasks[k].state
  BY <1>3, <1>4, <1>5, <1>6, <1>7, <1>9 DEF Agreed
<1>12. trail'[k] \in Seq(Record)
  BY <1>3, <1>9
<1>13. tasks'[k].version =< Len(trail[k]) + 2
  BY <1>4, <1>5, <1>6, <1>7, <1>9
<1> QED
  BY <1>1, <1>2, <1>3, <1>4, <1>7, <1>9, <1>10, <1>11, <1>12, <1>13, <1>14

LEMMA CommitKeepsChains ==
    ASSUME Inductive, NEW r \in Requests, Commit(r)
    PROVE  AgreedTrailIsChain'
<1> DEFINE c == req[r].task
<1> SUFFICES ASSUME NEW k \in Tasks, Agreed(k)'
             PROVE  LET n == Len(trail'[k]) IN
                    /\ n = 0 => tasks'[k].state = Initial
                    /\ n > 0 => /\ trail'[k][1].from = Initial
                                /\ trail'[k][n].to = tasks'[k].state
                    /\ \A i \in 1 .. (n - 1) : trail'[k][i].to = trail'[k][i + 1].from
  BY DEF AgreedTrailIsChain
<1>1. CASE k # c
  <2>1. tasks'[k] = tasks[k] /\ trail'[k] = trail[k]
    BY <1>1, CommitEffect
  <2>2. Agreed(k)
    BY <2>1 DEF Agreed, Enrolled
  <2> QED
    BY <2>1, <2>2 DEF Inductive, AgreedTrailIsChain
<1>2. CASE k = c
  <2> DEFINE n == Len(trail[k])
  <2>1. /\ n \in Nat /\ Len(trail'[k]) = n + 1
        /\ \A i \in 1 .. n : trail'[k][i] = trail[k][i]
        /\ trail'[k][n + 1].from = req[r].origin
        /\ trail'[k][n + 1].to = To[req[r].transition]
    BY <1>2, CommitEffect
  <2>2. tasks'[k].version = n + 2
    BY <2>1 DEF Agreed
  <2>3. Agreed(k) /\ tasks'[k].state = To[req[r].transition] /\ req[r].origin = tasks[k].state
    BY <1>2, <2>2, CommitEffect
  <2>4. /\ n = 0 => tasks[k].state = Initial
        /\ n > 0 => trail[k][1].from = Initial /\ trail[k][n].to = tasks[k].state
        /\ \A i \in 1 .. (n - 1) : trail[k][i].to = trail[k][i + 1].from
    BY <2>3 DEF Inductive, AgreedTrailIsChain
  <2>5. trail'[k][1].from = Initial
    BY <2>1, <2>3, <2>4
  <2>6. ASSUME NEW i \in 1 .. n PROVE trail'[k][i].to = trail'[k][i + 1].from
    <3>1. CASE i = n
      BY <3>1, <2>1, <2>3, <2>4
    <3>2. CASE i # n
      <4>1. i \in 1 .. (n - 1) /\ i + 1 \in 1 .. n
        BY <3>2, <2>1
      <4> QED
        BY <4>1, <2>1, <2>4
    <3> QED
      BY <3>1, <3>2
  <2> QED
    BY <2>1, <2>3, <2>5, <2>6
<1> QED
  BY <1>1, <1>2

LEMMA CommitKeepsGates ==
    ASSUME Inductive, NEW r \in Requests, Commit(r)
    PROVE  GatedMovesWereApproved'
<1>1. UNCHANGED <<approvals, granted>>
  BY DEF Commit
<1> SUFFICES ASSUME NEW k \in Tasks, NEW i \in DOMAIN trail'[k],
                    trail'[k][i].transition \in Gated, ~ trail'[k][i].automatic
             PROVE  Granted(trail'[k][i].transition, k)
  BY <1>1 DEF GatedMovesWereApproved, Granted
<1>2. CASE i \in DOMAIN trail[k] /\ trail'[k][i] = trail[k][i]
  BY <1>2 DEF Inductive, GatedMovesWereApproved, Granted
<1>3. CASE ~ (i \in DOMAIN trail[k] /\ trail'[k][i] = trail[k][i])
  <2>1. k = req[r].task
    BY <1>3, CommitEffect
  <2>2. i = Len(trail[k]) + 1
    <3>1. /\ trail[k] \in Seq(Record) /\ trail'[k] \in Seq(Record)
          /\ Len(trail'[k]) = Len(trail[k]) + 1
          /\ \A j \in 1 .. Len(trail[k]) : trail'[k][j] = trail[k][j]
      BY <2>1, CommitEffect
    <3>2. i \in 1 .. (Len(trail[k]) + 1) /\ i \notin 1 .. Len(trail[k])
      BY <1>3, <3>1
    <3> QED
      BY <3>1, <3>2
  <2>3. trail'[k][i].transition = req[r].transition /\ ~ (req[r].hops > 0)
    BY <2>1, <2>2, CommitEffect
  <2>4. req[r].hops = 0
    BY <2>3 DEF Inductive, TypeOK, Req
  <2>5. GateHolds(r) /\ req[r].pc = "checked"
    BY CommitEffect DEF RequestIsSound
  <2> QED
    BY <2>1, <2>3, <2>4, <2>5 DEF GateHolds
<1> QED
  BY <1>2, <1>3
(* The automatic records of a task after a commit. *)
LEMMA CommitFired ==
    ASSUME Inductive, NEW r \in Requests, Commit(r), NEW q \in Requests, NEW k \in Tasks
    PROVE  /\ (q # r \/ req[r].hops = 0) => Fired(q, k)' = Fired(q, k)
           /\ \/ Fired(q, k)' = Fired(q, k)
              \/ Fired(q, k)' = Fired(q, k) \cup {Len(trail[k]) + 1}
<1>1. CASE k # req[r].task
  BY <1>1, CommitEffect DEF Fired
<1>2. CASE k = req[r].task
  <2> DEFINE n == Len(trail[k])
  <2>1. /\ trail[k] \in Seq(Record) /\ trail'[k] \in Seq(Record) /\ Len(trail'[k]) = n + 1
        /\ \A i \in 1 .. n : trail'[k][i] = trail[k][i]
        /\ trail'[k][n + 1].by = r /\ (trail'[k][n + 1].automatic <=> req[r].hops > 0)
    BY <1>2, CommitEffect
  <2>2. n \in Nat /\ DOMAIN trail[k] = 1 .. n /\ DOMAIN trail'[k] = 1 .. (n + 1)
    BY <2>1
  <2>3. ASSUME NEW i \in 1 .. n
        PROVE  i \in Fired(q, k)' <=> i \in Fired(q, k)
    BY <2>1, <2>2 DEF Fired
  <2>4. /\ n + 1 \notin Fired(q, k)
        /\ (q # r \/ req[r].hops = 0) => n + 1 \notin Fired(q, k)'
    BY <2>1, <2>2 DEF Fired
  <2>5. Fired(q, k) \subseteq 1 .. n
    BY <2>2, <2>4 DEF Fired
  <2>6. Fired(q, k)' \subseteq (1 .. n) \cup {n + 1}
    BY <2>2 DEF Fired
  <2>7. CASE n + 1 \in Fired(q, k)'
    BY <2>3, <2>4, <2>5, <2>6, <2>7
  <2>8. CASE n + 1 \notin Fired(q, k)'
    BY <2>3, <2>5, <2>6, <2>8
  <2> QED
    BY <2>7, <2>8
<1> QED
  BY <1>1, <1>2

(* What another request knows stays true: it can only have been overtaken. *)
LEMMA CommitKeepsOthers ==
    ASSUME Inductive, NEW r \in Requests, Commit(r), NEW q \in Requests, q # r
    PROVE  RequestIsSound(q)'
<1>1. RequestIsSound(q) /\ req'[q] = req[q] /\ UNCHANGED <<approvals, granted>>
  BY DEF Inductive, RequestsAreSound, TypeOK, Commit
<1>2. \A j \in Tasks : Enrolled(j) => Enrolled(j)'
  BY CommitEffect, NoneAssumption DEF Enrolled
<1>3. MoveHasTask(q)' /\ DecisionIsSound(q)' /\ GateHolds(q)'
  BY <1>1, <1>2 DEF RequestIsSound, MoveHasTask, DecisionIsSound, GateHolds, Moving, Granted
<1>4. HopsAreCounted(q)'
  <2>1. \A h : FiredAtMost(q, h) => FiredAtMost(q, h)'
    BY CommitFired DEF FiredAtMost
  <2> QED
    BY <1>1, <2>1 DEF RequestIsSound, HopsAreCounted, Moving
<1>5. ASSUME NEW k \in Tasks
      PROVE  \/ tasks'[k] = tasks[k] /\ trail'[k] = trail[k]
             \/ Len(trail'[k]) = Len(trail[k]) + 1
  BY CommitEffect
<1>6. \A k \in Tasks : Len(trail[k]) \in Nat
  BY DEF Inductive, TypeOK
<1>7. LookIsSound(q)'
  <2>1. req[q].seen \in Nat
    BY DEF Inductive, TypeOK, Req
  <2> QED
    BY <1>1, <1>5, <1>6, <2>1 DEF RequestIsSound, MoveHasTask, DecisionIsSound, LookIsSound, Moving, Newest
<1>8. LoadIsSound(q)'
  <2>1. ASSUME req[q].base \in Row PROVE req[q].base.version \in Nat
    BY <2>1 DEF Row
  <2> QED
    BY <1>1, <1>5, <1>6, <2>1 DEF RequestIsSound, MoveHasTask, LoadIsSound, Moving, Newest
<1> QED
  BY <1>3, <1>4, <1>7, <1>8 DEF RequestIsSound

LEMMA CommitKeepsOwn ==
    ASSUME Inductive, NEW r \in Requests, Commit(r)
    PROVE  RequestIsSound(r)' /\ req' \in [Requests -> Req]
<1>1. req' = [req EXCEPT ![r].pc = "advancing"]
  BY DEF Commit
<1>2. /\ req[r].pc = "checked" /\ RequestIsSound(r) /\ Moving(r)
      /\ req[r].task \in Tasks /\ req[r].transition \in Transitions
      /\ tasks'[req[r].task] \in Row
  BY CommitEffect
<1>3. req'[r] = [req[r] EXCEPT !.pc = "advancing"] /\ req[r] \in Req
  BY <1>1 DEF Inductive, TypeOK
<1>4. /\ req'[r].pc = "advancing" /\ req'[r].task = req[r].task
      /\ req'[r].transition = req[r].transition /\ req'[r].hops = req[r].hops
      /\ req'[r] \in Req /\ req[r].hops \in Nat
  BY <1>3 DEF Req
<1>5. req' \in [Requests -> Req]
  BY <1>1, <1>3, <1>4 DEF Inductive, TypeOK
<1>6. (MoveHasTask(r) /\ DecisionIsSound(r) /\ LookIsSound(r) /\ LoadIsSound(r) /\ GateHolds(r))'
  BY <1>2, <1>4, NoneAssumption DEF MoveHasTask, DecisionIsSound, LookIsSound, LoadIsSound, GateHolds, Enrolled
<1>7. \A k \in Tasks : IsFiniteSet(Fired(r, k)') /\ Cardinality(Fired(r, k)') =< req[r].hops
  <2>1. /\ FiredAtMost(r, req[r].hops)
        /\ req[r].hops > 0 => FiredAtMost(r, req[r].hops - 1)
    BY <1>2 DEF RequestIsSound, HopsAreCounted
  <2>2. CASE req[r].hops = 0
    <3>1. \A k \in Tasks : Fired(r, k)' = Fired(r, k)
      BY <2>2, CommitFired
    <3> QED
      BY <2>1, <3>1 DEF FiredAtMost
  <2>3. CASE req[r].hops > 0
    <3> SUFFICES ASSUME NEW k \in Tasks
                 PROVE  IsFiniteSet(Fired(r, k)') /\ Cardinality(Fired(r, k)') =< req[r].hops
      OBVIOUS
    <3>1. /\ IsFiniteSet(Fired(r, k)) /\ Cardinality(Fired(r, k)) \in Nat
          /\ Cardinality(Fired(r, k)) =< req[r].hops - 1
      BY <2>1, <2>3, FS_CardinalityType DEF FiredAtMost
    <3>2. CASE Fired(r, k)' = Fired(r, k)
      BY <3>1, <3>2, <1>4
    <3>3. CASE Fired(r, k)' = Fired(r, k) \cup {Len(trail[k]) + 1}
      <4> DEFINE more == Fired(r, k) \cup {Len(trail[k]) + 1}
      <4>1. /\ IsFiniteSet(more)
            /\ \/ Cardinality(more) = Cardinality(Fired(r, k))
               \/ Cardinality(more) = Cardinality(Fired(r, k)) + 1
        BY <3>1, FS_AddElement
      <4> QED
        BY <3>1, <3>3, <4>1, <1>4
    <3> QED
      BY <3>2, <3>3, CommitFired
  <2> QED
    BY <1>4, <2>2, <2>3
<1>8. HopsAreCounted(r)'
  <2>1. req[r].hops =< MaxChain
    BY <1>2 DEF RequestIsSound, HopsAreCounted
  <2>2. FiredAtMost(r, MaxChain)'
    <3> SUFFICES ASSUME NEW k \in Tasks
                 PROVE  IsFiniteSet(Fired(r, k)') /\ Cardinality(Fired(r, k)') =< MaxChain
      BY DEF FiredAtMost
    <3>1. IsFiniteSet(Fired(r, k)') /\ Cardinality(Fired(r, k)') =< req[r].hops
      BY <1>7 DEF FiredAtMost
    <3>2. Cardinality(Fired(r, k)') \in Nat
      BY <3>1, FS_CardinalityType
    <3> QED
      BY <3>1, <3>2, <2>1, <1>4, BoundAssumption
  <2> QED
    BY <1>4, <1>7, <2>1, <2>2 DEF HopsAreCounted, FiredAtMost
<1> QED
  BY <1>5, <1>6, <1>8 DEF RequestIsSound

LEMMA CommitStep ==
    ASSUME Inductive, NEW r \in Requests, Commit(r)
    PROVE  Inductive'
<1>1. TypeOK'
  BY CommitEffect, CommitKeepsOwn DEF Inductive, TypeOK, Commit
<1>2. VersionsAreRecorded'
  <2> SUFFICES ASSUME NEW k \in Tasks, Enrolled(k)'
               PROVE  tasks'[k].version =< Len(trail'[k]) + 1
    BY DEF VersionsAreRecorded, Newest
  <2>1. CASE k = req[r].task
    <3>1. /\ trail[k] \in Seq(Record) /\ Len(trail'[k]) = Len(trail[k]) + 1
          /\ tasks'[k].version =< Len(trail[k]) + 2
      BY <2>1, CommitEffect
    <3> QED
      BY <3>1
  <2>2. CASE k # req[r].task
    BY <2>2, CommitEffect DEF Inductive, VersionsAreRecorded, Enrolled, Newest
  <2> QED
    BY <2>1, <2>2
<1>3. RequestsAreSound'
  BY CommitKeepsOwn, CommitKeepsOthers DEF RequestsAreSound
<1>4. ApprovalsAreGranted'
  BY DEF Inductive, ApprovalsAreGranted, Commit
<1> QED
  BY <1>1, <1>2, <1>3, <1>4, CommitKeepsChains, CommitKeepsGates DEF Inductive
-------------------------------------------------------------------------------
(* The next hop *)

LEMMA AdvanceStep ==
    ASSUME Inductive, NEW r \in Requests, Advance(r)
    PROVE  Inductive'
<1> DEFINE k == req[r].task
<1>1. PICK tr \in Candidates(tasks[k].state) :
          req' = [req EXCEPT ![r].pc = "evaluated", ![r].transition = tr,
                             ![r].hops = @ + 1, ![r].seen = tasks[k].version]
  BY DEF Advance
<1>2. req[r].pc = "advancing" /\ req[r].hops < MaxChain /\ UNCHANGED tables
  BY DEF Advance
<1>3. RequestIsSound(r) /\ Moving(r) /\ req[r] \in Req /\ req[r].hops \in Nat
  BY <1>2 DEF Inductive, RequestsAreSound, Moving, TypeOK, Req
<1>4. k \in Tasks /\ Enrolled(k)
  BY <1>3 DEF RequestIsSound, MoveHasTask
<1>5. tasks[k] \in Row /\ tasks[k].version \in Nat /\ tasks[k].version =< Newest(k)
  BY <1>4, RowType DEF Inductive, VersionsAreRecorded, Row
<1>6. tr \in Transitions /\ From[tr] = tasks[k].state
  BY WorkflowAssumption DEF Candidates
<1>7. /\ req'[r] = [req[r] EXCEPT !.pc = "evaluated", !.transition = tr,
                      !.hops = req[r].hops + 1, !.seen = tasks[k].version]
      /\ \A q \in Requests : q # r => req'[q] = req[q]
  BY <1>1, <1>3 DEF Inductive, TypeOK, Req
<1>8. /\ req'[r].pc = "evaluated" /\ req'[r].task = k /\ req'[r].transition = tr
      /\ req'[r].hops = req[r].hops + 1 /\ req'[r].seen = tasks[k].version
      /\ req'[r] \in Req
  <2>1. req[r].hops + 1 \in Nat
    BY <1>3
  <2> HIDE DEF k
  <2>2. req'[r].pc = "evaluated" /\ req'[r].task = k /\ req'[r].transition = tr
    BY <1>3, <1>7 DEF k, Req
  <2>3. req'[r].hops = req[r].hops + 1 /\ req'[r].seen = tasks[k].version
    BY <1>3, <1>7 DEF Req
  <2>4. req'[r] \in Req
    BY <1>3, <1>5, <1>6, <1>7, <2>1 DEF Req
  <2> QED
    BY <2>2, <2>3, <2>4 DEF k
<1>9. req' \in [Requests -> Req]
  BY <1>1, <1>7, <1>8 DEF Inductive, TypeOK
<1>10. (MoveHasTask(r) /\ DecisionIsSound(r) /\ LookIsSound(r) /\ LoadIsSound(r) /\ GateHolds(r))'
  BY <1>2, <1>3, <1>4, <1>5, <1>6, <1>8 DEF MoveHasTask, DecisionIsSound, LookIsSound, LoadIsSound, GateHolds,
     Enrolled, Newest, tables
<1>11. HopsAreCounted(r)'
  <2>1. FiredAtMost(r, MaxChain) /\ FiredAtMost(r, req[r].hops)
    BY <1>3 DEF RequestIsSound, HopsAreCounted
  <2>2. \A j \in Tasks : Fired(r, j)' = Fired(r, j)
    BY <1>2 DEF Fired, tables
  <2>3. \A j \in Tasks : /\ IsFiniteSet(Fired(r, j))
                         /\ Cardinality(Fired(r, j)) \in Nat
                         /\ Cardinality(Fired(r, j)) =< req[r].hops
    BY <2>1, FS_CardinalityType DEF FiredAtMost
  <2>4. req[r].hops + 1 =< MaxChain /\ (req[r].hops + 1) - 1 = req[r].hops
    BY <1>2, <1>3, BoundAssumption
  <2>5. \A j \in Tasks : Cardinality(Fired(r, j)) =< req[r].hops + 1
    BY <2>3, <1>3
  <2> QED
    BY <1>8, <2>1, <2>2, <2>3, <2>4, <2>5 DEF HopsAreCounted, FiredAtMost
<1> QED
  BY <1>2, <1>7, <1>9, <1>10, <1>11, RequestStep DEF RequestIsSound

-------------------------------------------------------------------------------
(* Approvals *)

LEMMA LoadDecisionStep ==
    ASSUME Inductive, NEW r \in Requests, NEW i \in DOMAIN approvals, NEW d \in Decisions,
           LoadDecision(r, i, d)
    PROVE  Inductive'
<1>1. /\ req[r].pc = "idle" /\ UNCHANGED tables
      /\ req' = [req EXCEPT ![r] = [Unused EXCEPT !.pc = "deciding", !.approval = i,
                                                  !.decision = d]]
  BY DEF LoadDecision
<1>2. i \in Nat
  BY DEF Inductive, TypeOK
<1>3. /\ req'[r] = [Unused EXCEPT !.pc = "deciding", !.approval = i, !.decision = d]
      /\ \A q \in Requests : q # r => req'[q] = req[q]
  BY <1>1 DEF Inductive, TypeOK
<1>4. /\ req'[r].pc = "deciding" /\ req'[r].approval = i /\ req'[r].decision = d
      /\ req'[r].hops = 0 /\ req'[r] \in Req
  BY <1>2, <1>3, UnusedType DEF Req
<1>5. req' \in [Requests -> Req]
  BY <1>1, <1>3, <1>4 DEF Inductive, TypeOK
<1>6. HopsAreCounted(r)'
  <2>1. FiredAtMost(r, MaxChain) /\ FiredAtMost(r, 0)
    BY <1>1 DEF Inductive, RequestsAreSound, RequestIsSound, HopsAreCounted
  <2>2. FiredAtMost(r, MaxChain)' /\ FiredAtMost(r, 0)'
    BY <1>1, <2>1 DEF FiredAtMost, Fired, tables
  <2> QED
    BY <1>4, <2>2, BoundAssumption DEF HopsAreCounted, Moving
<1>7. RequestIsSound(r)'
  BY <1>1, <1>4, <1>6 DEF tables, RequestIsSound, Moving, MoveHasTask, DecisionIsSound, LookIsSound, LoadIsSound, GateHolds
<1> QED
  BY <1>1, <1>3, <1>5, <1>7, RequestStep

(* Approvals only ever gain grants, and keep their transition and their task. *)
LEMMA ApprovalFrame ==
    ASSUME Inductive, UNCHANGED <<tasks, trail>>,
           granted \subseteq granted', DOMAIN approvals \subseteq DOMAIN approvals',
           \A a \in granted : /\ approvals'[a].transition = approvals[a].transition
                              /\ approvals'[a].task = approvals[a].task
    PROVE  /\ VersionsAreRecorded' /\ AgreedTrailIsChain' /\ GatedMovesWereApproved'
           /\ \A q \in Requests : req'[q] = req[q] => RequestIsSound(q)'
<1>1. VersionsAreRecorded' /\ AgreedTrailIsChain'
  BY DEF Inductive, VersionsAreRecorded, AgreedTrailIsChain, Agreed, Enrolled, Newest
<1>2. \A tr, k : Granted(tr, k) => Granted(tr, k)'
  BY DEF Granted
<1>3. GatedMovesWereApproved'
  BY <1>2 DEF Inductive, GatedMovesWereApproved, Granted
<1>4. ASSUME NEW q \in Requests, req'[q] = req[q] PROVE RequestIsSound(q)'
  <2>1. RequestIsSound(q)
    BY DEF Inductive, RequestsAreSound
  <2>2. (MoveHasTask(q) /\ DecisionIsSound(q) /\ LookIsSound(q) /\ LoadIsSound(q))'
    BY <1>4, <2>1 DEF RequestIsSound, MoveHasTask, DecisionIsSound, LookIsSound, LoadIsSound, Moving, Enrolled,
       Newest
  <2>3. GateHolds(q)'
    BY <1>2, <1>4, <2>1 DEF RequestIsSound, GateHolds, Granted
  <2>4. HopsAreCounted(q)'
    BY <1>4, <2>1 DEF RequestIsSound, HopsAreCounted, FiredAtMost, Fired, Moving
  <2> QED
    BY <2>2, <2>3, <2>4 DEF RequestIsSound
<1> QED
  BY <1>1, <1>3, <1>4
LEMMA RequestApprovalStep ==
    ASSUME Inductive, NEW tr \in Gated, NEW k \in Tasks, RequestApproval(tr, k)
    PROVE  Inductive'
<1> DEFINE new == [transition |-> tr, task |-> k, status |-> "pending"]
<1>1. approvals' = Append(approvals, new) /\ UNCHANGED <<workflow, enabled, tasks, trail, granted, req>>
  BY DEF RequestApproval
<1>2. approvals \in Seq(Approval) /\ new \in Approval /\ granted \subseteq DOMAIN approvals
  BY WorkflowAssumption DEF Inductive, TypeOK, Approval
<1>3. /\ approvals' \in Seq(Approval) /\ DOMAIN approvals \subseteq DOMAIN approvals'
      /\ \A i \in DOMAIN approvals : approvals'[i] = approvals[i]
      /\ \A i \in DOMAIN approvals' : i \in DOMAIN approvals \/ approvals'[i].status = "pending"
  <2> HIDE DEF new
  <2>1. Len(approvals') = Len(approvals) + 1 /\ approvals' \in Seq(Approval)
    BY <1>1, <1>2
  <2>2. /\ \A i \in 1 .. Len(approvals) : approvals'[i] = approvals[i]
        /\ approvals'[Len(approvals) + 1] = new
    BY <1>1, <1>2
  <2>3. new.status = "pending"
    BY DEF new
  <2> QED
    BY <1>2, <2>1, <2>2, <2>3
<1>4. TypeOK' /\ ApprovalsAreGranted'
  BY <1>1, <1>2, <1>3 DEF Inductive, TypeOK, ApprovalsAreGranted
<1>5. RequestsAreSound' /\ VersionsAreRecorded' /\ AgreedTrailIsChain' /\ GatedMovesWereApproved'
  BY <1>1, <1>2, <1>3, ApprovalFrame DEF RequestsAreSound
<1> QED
  BY <1>4, <1>5 DEF Inductive

LEMMA CommitDecisionStep ==
    ASSUME Inductive, NEW r \in Requests, CommitDecision(r)
    PROVE  Inductive'
<1> DEFINE a == req[r].approval
           d == req[r].decision
<1>1. /\ req[r].pc = "deciding"
      /\ approvals' = [approvals EXCEPT ![a].status = d]
      /\ granted' = IF d = "approved" THEN granted \cup {a} ELSE granted
      /\ req' = [req EXCEPT ![r] = Unused]
      /\ UNCHANGED <<workflow, enabled, tasks, trail>>
  BY DEF CommitDecision
<1>2. RequestIsSound(r) /\ approvals \in Seq(Approval) /\ granted \subseteq DOMAIN approvals
  BY DEF Inductive, RequestsAreSound, TypeOK
<1>3. a \in DOMAIN approvals /\ d \in Decisions
  BY <1>1, <1>2 DEF RequestIsSound, DecisionIsSound
<1> HIDE DEF a, d
<1>4. /\ DOMAIN approvals' = DOMAIN approvals
      /\ approvals'[a] = [approvals[a] EXCEPT !.status = d]
      /\ \A i \in DOMAIN approvals : i # a => approvals'[i] = approvals[i]
  BY <1>1, <1>2, <1>3
<1>5. approvals[a] \in Approval
  BY <1>2, <1>3
<1>6. /\ approvals'[a].status = d /\ approvals'[a].transition = approvals[a].transition
      /\ approvals'[a].task = approvals[a].task /\ approvals'[a] \in Approval
  BY <1>3, <1>4, <1>5 DEF Approval, Decisions
<1>7. approvals' \in Seq(Approval) /\ granted' \subseteq DOMAIN approvals'
  BY <1>1, <1>2, <1>3, <1>4, <1>5, <1>6
<1>8. /\ req'[r] = Unused /\ req' \in [Requests -> Req]
      /\ \A q \in Requests : q # r => req'[q] = req[q]
  BY <1>1, UnusedType DEF Inductive, TypeOK
<1>9. TypeOK'
  BY <1>1, <1>7, <1>8 DEF Inductive, TypeOK
<1>10. ApprovalsAreGranted'
  BY <1>1, <1>3, <1>4, <1>6 DEF Inductive, ApprovalsAreGranted
<1>11. /\ VersionsAreRecorded' /\ AgreedTrailIsChain' /\ GatedMovesWereApproved'
       /\ \A q \in Requests : q # r => RequestIsSound(q)'
  BY <1>1, <1>2, <1>4, <1>6, <1>8, ApprovalFrame
<1>12. RequestIsSound(r)'
  <2>1. FiredAtMost(r, MaxChain) /\ FiredAtMost(r, 0)
    BY <1>1, <1>2 DEF RequestIsSound, HopsAreCounted
  <2>2. FiredAtMost(r, MaxChain)' /\ FiredAtMost(r, 0)'
    BY <1>1, <2>1 DEF FiredAtMost, Fired
  <2>3. req'[r].pc = "idle" /\ req'[r].hops = 0
    BY <1>8, UnusedType
  <2> QED
    BY <2>2, <2>3, BoundAssumption DEF RequestIsSound, Moving, MoveHasTask, DecisionIsSound,
       LookIsSound, LoadIsSound, GateHolds, HopsAreCounted
<1> QED
  BY <1>9, <1>10, <1>11, <1>12 DEF Inductive, RequestsAreSound

-------------------------------------------------------------------------------
(* Enrolment and configuration *)

LEMMA EnrollStep ==
    ASSUME Inductive, NEW k \in Tasks, Enroll(k)
    PROVE  Inductive'
<1> DEFINE new == [state |-> Initial, version |-> 1]
<1>1. /\ tasks[k] = None /\ tasks' = [tasks EXCEPT ![k] = new]
      /\ UNCHANGED <<workflow, enabled, trail, approvals, granted, req>>
  BY DEF Enroll, Enrolled
<1>2. new \in Row /\ new.version = 1 /\ new.state = Initial
  BY WorkflowAssumption DEF Row
<1> HIDE DEF new
<1>3. /\ tasks' \in [Tasks -> Row \cup {None}] /\ tasks'[k] = new
      /\ \A j \in Tasks : j # k => tasks'[j] = tasks[j]
  BY <1>1, <1>2 DEF Inductive, TypeOK
<1>4. TypeOK' /\ ApprovalsAreGranted' /\ GatedMovesWereApproved'
  BY <1>1, <1>3 DEF Inductive, TypeOK, ApprovalsAreGranted, GatedMovesWereApproved
<1>5. VersionsAreRecorded'
  <2> SUFFICES ASSUME NEW j \in Tasks, Enrolled(j)'
               PROVE  tasks'[j].version =< Newest(j)
    BY <1>1 DEF VersionsAreRecorded, Newest
  <2>1. CASE j = k
    BY <1>2, <1>3, <2>1, NewestType
  <2>2. CASE j # k
    BY <1>3, <2>2 DEF Inductive, VersionsAreRecorded, Enrolled
  <2> QED
    BY <2>1, <2>2
<1>6. AgreedTrailIsChain'
  <2> SUFFICES ASSUME NEW j \in Tasks, Agreed(j)'
               PROVE  LET n == Len(trail[j])
                      IN  /\ n = 0 => tasks'[j].state = Initial
                          /\ n > 0 => /\ trail[j][1].from = Initial
                                      /\ trail[j][n].to = tasks'[j].state
                          /\ \A i \in 1 .. (n - 1) : trail[j][i].to = trail[j][i + 1].from
    BY <1>1 DEF AgreedTrailIsChain
  <2>1. CASE j = k
    <3>1. trail[j] \in Seq(Record) /\ Len(trail[j]) = 0
      BY <1>1, <1>2, <1>3, <2>1 DEF Agreed, Inductive, TypeOK
    <3> QED
      BY <1>2, <1>3, <2>1, <3>1
  <2>2. CASE j # k
    BY <1>1, <1>3, <2>2 DEF Inductive, AgreedTrailIsChain, Agreed, Enrolled
  <2> QED
    BY <2>1, <2>2
<1>7. RequestsAreSound'
  <2> SUFFICES ASSUME NEW q \in Requests PROVE RequestIsSound(q)'
    BY DEF RequestsAreSound
  <2>1. RequestIsSound(q) /\ req'[q] = req[q]
    BY <1>1 DEF Inductive, RequestsAreSound
  <2>2. Moving(q) => req[q].task \in Tasks /\ req[q].task # k /\ tasks'[req[q].task] = tasks[req[q].task]
    BY <1>1, <1>3, <2>1 DEF RequestIsSound, MoveHasTask, Enrolled
  <2>3. (MoveHasTask(q) /\ DecisionIsSound(q) /\ LookIsSound(q) /\ LoadIsSound(q))'
    BY <1>1, <2>1, <2>2 DEF RequestIsSound, MoveHasTask, DecisionIsSound, LookIsSound,
       LoadIsSound, Moving, Enrolled, Newest
  <2>4. (GateHolds(q) /\ HopsAreCounted(q))'
    BY <1>1, <2>1 DEF RequestIsSound, GateHolds, Granted, HopsAreCounted, FiredAtMost, Fired,
       Moving
  <2> QED
    BY <2>3, <2>4 DEF RequestIsSound
<1> QED
  BY <1>4, <1>5, <1>6, <1>7 DEF Inductive

(* Nothing an invariant is about depends on the workflow's configuration. *)
LEMMA ConfigureStep ==
    ASSUME Inductive, Configure
    PROVE  Inductive'
<1>1. UNCHANGED <<tasks, trail, approvals, granted, req>>
  BY DEF Configure, SetEnabled, Archive, Restore, Delete
<1>2. workflow' \in {"active", "archived", "deleted"} /\ enabled' \subseteq Transitions
  BY DEF Configure, SetEnabled, Archive, Restore, Delete, Inductive, TypeOK
<1>3. TypeOK' /\ ApprovalsAreGranted'
  BY <1>1, <1>2 DEF Inductive, TypeOK, ApprovalsAreGranted
<1>4. RequestsAreSound' /\ VersionsAreRecorded' /\ AgreedTrailIsChain' /\ GatedMovesWereApproved'
  BY <1>1, ApprovalFrame DEF RequestsAreSound
<1> QED
  BY <1>3, <1>4 DEF Inductive

-------------------------------------------------------------------------------
(* The theorems *)

LEMMA InitInductive == Init => Inductive
<1> SUFFICES ASSUME Init PROVE Inductive
  OBVIOUS
<1>1. TypeOK
  BY UnusedType DEF Init, TypeOK
<1>2. VersionsAreRecorded /\ ApprovalsAreGranted /\ AgreedTrailIsChain
  BY DEF Init, VersionsAreRecorded, ApprovalsAreGranted, AgreedTrailIsChain, Agreed, Enrolled
<1>3. GatedMovesWereApproved
  BY DEF Init, GatedMovesWereApproved
<1>4. RequestsAreSound
  <2> SUFFICES ASSUME NEW r \in Requests PROVE RequestIsSound(r)
    BY DEF RequestsAreSound
  <2>1. req[r].pc = "idle" /\ req[r].hops = 0
    BY UnusedType DEF Init
  <2>2. \A k \in Tasks : Fired(r, k) = {}
    BY DEF Init, Fired
  <2>3. FiredAtMost(r, 0) /\ FiredAtMost(r, MaxChain)
    BY <2>2, FS_EmptySet, BoundAssumption DEF FiredAtMost
  <2> QED
    BY <2>1, <2>3, BoundAssumption DEF RequestIsSound, MoveHasTask, DecisionIsSound,
       LookIsSound, LoadIsSound, GateHolds, HopsAreCounted, Moving
<1> QED
  BY <1>1, <1>2, <1>3, <1>4 DEF Inductive

LEMMA NextInductive == Inductive /\ [Next]_vars => Inductive'
<1> SUFFICES ASSUME Inductive, [Next]_vars PROVE Inductive'
  OBVIOUS
<1>1. CASE UNCHANGED vars
  <2>1. UNCHANGED <<workflow, enabled, tasks, trail, approvals, granted, req>>
    BY <1>1 DEF vars
  <2>2. TypeOK' /\ ApprovalsAreGranted'
    BY <2>1 DEF Inductive, TypeOK, ApprovalsAreGranted
  <2> QED
    BY <2>1, <2>2, ApprovalFrame DEF Inductive, RequestsAreSound
<1>2. ASSUME NEW k \in Tasks, Enroll(k) PROVE Inductive'
  BY <1>2, EnrollStep
<1>3. ASSUME NEW r \in Requests, Execute(r) PROVE Inductive'
  <2>1. ASSUME NEW k \in Tasks, NEW tr \in Transitions, Evaluate(r, k, tr) PROVE Inductive'
    BY <2>1, EvaluateStep
  <2>2. CASE PassRules(r)
    BY <2>2, PassRulesStep
  <2>3. CASE Load(r)
    BY <2>3, LoadStep
  <2>4. CASE Check(r)
    BY <2>4, CheckStep
  <2>5. CASE Commit(r)
    BY <2>5, CommitStep
  <2>6. CASE Advance(r)
    BY <2>6, AdvanceStep
  <2>7. CASE Stop(r)
    BY <2>7, FinishIsSound DEF Stop
  <2>8. CASE Abort(r)
    BY <2>8, FinishIsSound DEF Abort
  <2> QED
    BY <1>3, <2>1, <2>2, <2>3, <2>4, <2>5, <2>6, <2>7, <2>8 DEF Execute
<1>4. ASSUME NEW r \in Requests, Approve(r) PROVE Inductive'
  <2>1. ASSUME NEW i \in DOMAIN approvals, NEW d \in Decisions, LoadDecision(r, i, d)
        PROVE  Inductive'
    BY <2>1, LoadDecisionStep
  <2>2. CASE CommitDecision(r)
    BY <2>2, CommitDecisionStep
  <2> QED
    BY <1>4, <2>1, <2>2 DEF Approve
<1>5. ASSUME NEW tr \in Gated, NEW k \in Tasks, RequestApproval(tr, k) PROVE Inductive'
  BY <1>5, RequestApprovalStep
<1>6. CASE Configure
  BY <1>6, ConfigureStep
<1> QED
  BY <1>1, <1>2, <1>3, <1>4, <1>5, <1>6 DEF Next

(* The inductive invariant, of every workflow and every number of requests. *)
THEOREM WorkflowInductive == Spec => []Inductive
BY InitInductive, NextInductive, PTL DEF Spec

(* Every row and every request has its type (infrastructure/models.py). *)
THEOREM WorkflowTypeOK == Spec => []TypeOK
<1>1. Inductive => TypeOK
  BY DEF Inductive
<1> QED
  BY <1>1, WorkflowInductive, PTL

(* The records of a task whose moves never raced form a chain from the        *)
(* initial state to the state the task is in (_apply_transition).             *)
THEOREM TrailIsChain == Spec => []AgreedTrailIsChain
<1>1. Inductive => AgreedTrailIsChain
  BY DEF Inductive
<1> QED
  BY <1>1, WorkflowInductive, PTL

(* A transition with a REQUIRED_APPROVAL rule is taken by hand only for a      *)
(* task it was approved for (_evaluate_rules, decide_approval).                *)
THEOREM GatesAreKept == Spec => []GatedMovesWereApproved
<1>1. Inductive => GatedMovesWereApproved
  BY DEF Inductive
<1> QED
  BY <1>1, WorkflowInductive, PTL

(* A request fires at most MaxChain automatic transitions of a task, whatever  *)
(* cycles the workflow has and whoever moves the task meanwhile                *)
(* (_auto_advance).                                                            *)
THEOREM ChainIsBounded == Spec => []AutomaticChainIsBounded
<1>1. Inductive => AutomaticChainIsBounded
  BY DEF Inductive, RequestsAreSound, RequestIsSound, HopsAreCounted, FiredAtMost, Fired,
     AutomaticChainIsBounded
<1> QED
  BY <1>1, WorkflowInductive, PTL

(* A move whose transition does not start where the task is needs another      *)
(* move of the task between the request's look and its commit                  *)
(* (execute_transition, _apply_transition).                                    *)
THEOREM OffWorkflowNeedsAnOverlap == Spec => OffWorkflowMovesNeedAnOverlap
<1> DEFINE OnWorkflow == \A r \in Requests, k \in Tasks :
                            (/\ Commit(r)
                             /\ req[r].task = k
                             /\ req[r].seen = tasks[k].version
                             /\ Agreed(k))
                                => From[req[r].transition] = tasks[k].state
<1>1. Inductive => OnWorkflow
  <2> SUFFICES ASSUME Inductive, NEW r \in Requests, NEW k \in Tasks, Commit(r),
                      req[r].task = k, req[r].seen = tasks[k].version, Agreed(k)
               PROVE  From[req[r].transition] = tasks[k].state
    OBVIOUS
  <2>1. LookIsSound(r) /\ req[r].pc = "checked"
    BY DEF Commit, Inductive, RequestsAreSound, RequestIsSound
  <2> QED
    BY <2>1 DEF LookIsSound, Agreed, Newest
<1>2. Inductive => [OnWorkflow]_vars
  BY <1>1
<1> QED
  BY <1>2, WorkflowInductive, PTL DEF OffWorkflowMovesNeedAnOverlap

-----------------------------------------------------------------------------
(* WorkflowAutomation: the job that runs the deferred actions.              *)

(* The processes whose action on p took effect and is not recorded yet, and *)
(* those that hold p and have still to act on it.                           *)
Acted(w, p) == worker[w].acted /\ p \in worker[w].current
Actors(p) == {w \in Workers : Acted(w, p)}
Waiting(p) == {w \in Workers : p \in worker[w].batch /\ ~Acted(w, p)}

(* A process without a job holds nothing. *)
IdleHandsAreEmpty ==
    \A w \in Workers : worker[w].pc \in {"down", "idle"} => worker[w].batch = {}

(* A job handles one row at a time; what it remembers of its action is true. *)
ActionsAreRemembered ==
    \A w \in Workers : \A p \in worker[w].current :
        /\ worker[w].current = {p}
        /\ worker[w].acted => effects[p] > 0
        /\ worker[w].pc = "acted" /\ p \in External => worker[w].acted
        /\ worker[w].pc = "acted" /\ row[p].notice => p \in unaddressed

(* A row that was never listed twice at a time has one holder, and is       *)
(* pending while it is held.                                                *)
UnsharedRowsHaveOneHolder ==
    \A p \in Pendings \ shared : \A w \in Workers :
        p \in worker[w].batch => /\ row[p].status = "pending"
                                 /\ \A v \in Workers : p \in worker[v].batch => v = w

(* While a row is pending each effect belongs to a cut or to a process that *)
(* has still to record it; once it has an outcome only the processes that   *)
(* listed it before can add to its effects.                                 *)
EffectsHaveAnOrigin ==
    \A p \in Pendings :
        /\ row[p].status = "none" => effects[p] = 0
        /\ row[p].status = "pending" => effects[p] <= cuts[p] + Cardinality(Actors(p))
        /\ row[p].status \in {"executed", "failed"} =>
              effects[p] + Cardinality(Waiting(p)) <= cuts[p] + Cardinality(Workers)

(* The same for a row with one holder, without counting. *)
UnsharedEffectsHaveAnOrigin ==
    \A p \in Pendings \ shared :
        /\ effects[p] <= 1 + cuts[p]
        /\ row[p].status = "pending" /\ (\A w \in Workers : ~Acted(w, p)) => effects[p] <= cuts[p]

JobsInductive ==
    /\ JobsAreSound
    /\ IdleHandsAreEmpty
    /\ ActionsAreRemembered
    /\ UnsharedRowsHaveOneHolder
    /\ ExecutedMeansDone
    /\ EntriesMatchTheirRow
    /\ EffectsHaveAnOrigin
    /\ UnsharedEffectsHaveAnOrigin

-----------------------------------------------------------------------------
(* Counting processes *)

LEMMA CountsAreSound ==
  ASSUME NEW p \in Pendings
  PROVE  /\ IsFiniteSet(Actors(p)) /\ IsFiniteSet(Waiting(p))
         /\ Cardinality(Workers) \in Nat
         /\ Cardinality(Actors(p)) \in Nat /\ Cardinality(Waiting(p)) \in Nat
         /\ Cardinality(Actors(p)) + Cardinality(Waiting(p)) <= Cardinality(Workers)
  <1>1. IsFiniteSet(Workers)
    BY RowsAssumption
  <1>2. Actors(p) \subseteq Workers /\ Waiting(p) \subseteq Workers
    BY DEF Actors, Waiting
  <1>3. IsFiniteSet(Actors(p)) /\ IsFiniteSet(Waiting(p))
    BY <1>1, <1>2, FS_Subset
  <1>4. Actors(p) \cup Waiting(p) \subseteq Workers /\ Actors(p) \cap Waiting(p) = {}
    BY <1>2 DEF Actors, Waiting
  <1>5. IsFiniteSet(Actors(p) \cup Waiting(p))
    BY <1>1, <1>4, FS_Subset
  <1>6. Cardinality(Actors(p) \cup Waiting(p)) <= Cardinality(Workers)
    BY <1>1, <1>4, FS_Subset
  <1>7. Cardinality(Actors(p) \cap Waiting(p)) = 0
    BY <1>4, FS_EmptySet
  <1>8. Cardinality(Actors(p) \cup Waiting(p))
          = Cardinality(Actors(p)) + Cardinality(Waiting(p)) - Cardinality(Actors(p) \cap Waiting(p))
    BY <1>3, FS_Union
  <1>9. Cardinality(Actors(p)) \in Nat /\ Cardinality(Waiting(p)) \in Nat /\ Cardinality(Workers) \in Nat
    BY <1>1, <1>3, FS_CardinalityType
  <1> QED BY <1>3, <1>6, <1>7, <1>8, <1>9

LEMMA OneMore ==
  ASSUME NEW S, NEW T, NEW x, IsFiniteSet(S), x \notin S, T = S \cup {x}
  PROVE  Cardinality(T) = Cardinality(S) + 1 /\ Cardinality(S) \in Nat
  BY FS_AddElement, FS_CardinalityType

LEMMA OneLess ==
  ASSUME NEW S, NEW T, NEW x, IsFiniteSet(S), x \in S, T = S \ {x}
  PROVE  Cardinality(T) = Cardinality(S) - 1 /\ Cardinality(S) \in Nat
  BY FS_RemoveElement, FS_CardinalityType

-----------------------------------------------------------------------------
(* What the actions do to their worker, field by field. *)

LEMMA IdleAndDown ==
  /\ Idle.pc = "idle" /\ Idle.batch = {} /\ Idle.current = {} /\ Idle.acted = FALSE
  /\ Down.pc = "down" /\ Down.batch = {} /\ Down.current = {} /\ Down.acted = FALSE
  /\ Idle \in [pc : Phases, batch : SUBSET Pendings, current : SUBSET Pendings, acted : BOOLEAN]
  /\ Down \in [pc : Phases, batch : SUBSET Pendings, current : SUBSET Pendings, acted : BOOLEAN]
  BY DEF Idle, Down, Phases

LEMMA TickWorker ==
  ASSUME JobsTypeOK, NEW w \in Workers, Tick(w)
  PROVE  /\ worker' \in [Workers -> [pc : Phases, batch : SUBSET Pendings,
                                     current : SUBSET Pendings, acted : BOOLEAN]]
         /\ \A v \in Workers \ {w} : worker'[v] = worker[v]
         /\ worker'[w].pc = "batch" /\ worker'[w].batch = Due
         /\ worker'[w].current = {} /\ worker'[w].acted = FALSE
  <1> DEFINE B == [Idle EXCEPT !.pc = "batch", !.batch = Due]
  <1>1. /\ B.pc = "batch" /\ B.batch = Due /\ B.current = {} /\ B.acted = FALSE
        /\ B \in [pc : Phases, batch : SUBSET Pendings, current : SUBSET Pendings, acted : BOOLEAN]
    BY DEF Idle, Due, Phases
  <1>2. worker' = [worker EXCEPT ![w] = B]
    BY DEF Tick
  <1> HIDE DEF B
  <1> QED BY <1>1, <1>2 DEF JobsTypeOK

LEMMA NextRowWorker ==
  ASSUME JobsTypeOK, NEW w \in Workers, worker' = NextRow(w)
  PROVE  /\ worker' \in [Workers -> [pc : Phases, batch : SUBSET Pendings,
                                     current : SUBSET Pendings, acted : BOOLEAN]]
         /\ \A v \in Workers \ {w} : worker'[v] = worker[v]
         /\ worker'[w].pc = IF worker[w].batch = worker[w].current THEN "idle" ELSE "batch"
         /\ worker'[w].batch = worker[w].batch \ worker[w].current
         /\ worker'[w].current = {} /\ worker'[w].acted = FALSE
  BY DEF JobsTypeOK, NextRow, Phases

(* A step that adds no holder and no actor of p leaves the counts alone. *)
LEMMA SameCounts ==
  ASSUME NEW p \in Pendings,
         \A v \in Workers : Acted(v, p)' <=> Acted(v, p),
         \A v \in Workers : p \in worker'[v].batch <=> p \in worker[v].batch
  PROVE  Actors(p)' = Actors(p) /\ Waiting(p)' = Waiting(p)
  BY DEF Actors, Waiting

-----------------------------------------------------------------------------
(* One lemma per action. *)

LEMMA InitIsInductive == JobsInit => JobsInductive
  <1> SUFFICES ASSUME JobsInit PROVE JobsInductive
    OBVIOUS
  <1> USE RowsAssumption, IdleAndDown DEF JobsInit
  <1>1. \A w \in Workers : worker[w] = Idle
    OBVIOUS
  <1>2. JobsTypeOK
    BY DEF JobsTypeOK, Statuses
  <1>3. JobsAreSound
    BY <1>1, <1>2 DEF JobsAreSound
  <1>4. IdleHandsAreEmpty /\ ActionsAreRemembered /\ UnsharedRowsHaveOneHolder
    BY <1>1 DEF IdleHandsAreEmpty, ActionsAreRemembered, UnsharedRowsHaveOneHolder
  <1>5. ExecutedMeansDone /\ EntriesMatchTheirRow
    BY DEF ExecutedMeansDone, EntriesMatchTheirRow
  <1>6. EffectsHaveAnOrigin /\ UnsharedEffectsHaveAnOrigin
    BY DEF EffectsHaveAnOrigin, UnsharedEffectsHaveAnOrigin
  <1> QED BY <1>3, <1>4, <1>5, <1>6 DEF JobsInductive

(* The environment's steps leave the jobs alone. *)
LEMMA EnvironmentStep ==
  ASSUME JobsInductive, (\E p \in Pendings : Enqueue(p) \/ BecomesDue(p)) \/ DeleteWorkflow
  PROVE  JobsInductive'
  <1>0. /\ row \in [Pendings -> [status : Statuses, due : BOOLEAN, notice : BOOLEAN]] /\ live \in BOOLEAN
        /\ \A p \in External : ~row[p].notice
    BY DEF JobsInductive, JobsAreSound, JobsTypeOK
  <1> DEFINE Kept ==
        /\ live' \in BOOLEAN
        /\ row' \in [Pendings -> [status : Statuses, due : BOOLEAN, notice : BOOLEAN]]
        /\ \A p \in Pendings :
              \/ row'[p].status = row[p].status /\ row'[p].notice = row[p].notice
              \/ row[p].status = "none" /\ row'[p].status = "pending"
        /\ \A p \in External : ~row'[p].notice
  <1>1. Kept
    <2>1. ASSUME NEW p \in Pendings, Enqueue(p) PROVE Kept
      <3>1. PICK now \in BOOLEAN, notice \in {FALSE, (p \notin External)} :
               row' = [row EXCEPT ![p] = [status |-> "pending", due |-> now, notice |-> notice]]
        BY <2>1 DEF Enqueue
      <3>3. notice \in BOOLEAN /\ (p \in External => ~notice)
        OBVIOUS
      <3>2. row[p].status = "none" /\ live' = live
        BY <2>1 DEF Enqueue
      <3> QED BY <1>0, <3>1, <3>2, <3>3, RowsAssumption DEF Statuses
    <2>2. ASSUME NEW p \in Pendings, BecomesDue(p) PROVE Kept
      <3>1. row' = [row EXCEPT ![p].due = TRUE] /\ live' = live
        BY <2>2 DEF BecomesDue
      <3> QED BY <1>0, <3>1, RowsAssumption
    <2>3. CASE DeleteWorkflow
      <3>1. row' = row /\ live' = FALSE
        BY <2>3 DEF DeleteWorkflow
      <3> QED BY <1>0, <3>1
    <2> QED BY <2>1, <2>2, <2>3
  <1>2. UNCHANGED <<effects, entries, worker, faults, cuts, shared, unaddressed>>
    BY DEF Enqueue, BecomesDue, DeleteWorkflow, counters, history
  <1>3. JobsAreSound'
    BY <1>1, <1>2 DEF JobsInductive, JobsAreSound, JobsTypeOK
  <1>4. IdleHandsAreEmpty' /\ ActionsAreRemembered'
    <2>1. \A w \in Workers : \A p \in worker[w].current : p \in Pendings /\ row[p].status # "none"
      BY DEF JobsInductive, JobsAreSound, JobsTypeOK
    <2> QED BY <1>1, <1>2, <2>1 DEF JobsInductive, IdleHandsAreEmpty, ActionsAreRemembered
  <1>5. UnsharedRowsHaveOneHolder'
    BY <1>1, <1>2 DEF JobsInductive, JobsAreSound, UnsharedRowsHaveOneHolder
  <1>6. ExecutedMeansDone' /\ EntriesMatchTheirRow'
    BY <1>1, <1>2 DEF JobsInductive, ExecutedMeansDone, EntriesMatchTheirRow, Enters
  <1>7. EffectsHaveAnOrigin'
    <2> SUFFICES ASSUME NEW p \in Pendings
                 PROVE  /\ row'[p].status = "none" => effects[p] = 0
                        /\ row'[p].status = "pending" => effects[p] <= cuts[p] + Cardinality(Actors(p))
                        /\ row'[p].status \in {"executed", "failed"} =>
                              effects[p] + Cardinality(Waiting(p)) <= cuts[p] + Cardinality(Workers)
      BY <1>2 DEF EffectsHaveAnOrigin, Actors, Waiting, Acted
    <2>1. Cardinality(Actors(p)) \in Nat /\ cuts[p] \in Nat
      BY CountsAreSound DEF JobsInductive, JobsAreSound, JobsTypeOK
    <2> QED BY <1>1, <2>1 DEF JobsInductive, EffectsHaveAnOrigin
  <1>8. UnsharedEffectsHaveAnOrigin'
    <2> SUFFICES ASSUME NEW p \in Pendings \ shared
                 PROVE  /\ effects[p] <= 1 + cuts[p]
                        /\ row'[p].status = "pending" /\ (\A w \in Workers : ~Acted(w, p)) => effects[p] <= cuts[p]
      BY <1>2 DEF UnsharedEffectsHaveAnOrigin, Acted
    <2>1. effects[p] \in Nat /\ cuts[p] \in Nat
      BY DEF JobsInductive, JobsAreSound, JobsTypeOK
    <2> QED BY <1>1, <2>1 DEF JobsInductive, UnsharedEffectsHaveAnOrigin, EffectsHaveAnOrigin
  <1> QED BY <1>3, <1>4, <1>5, <1>6, <1>7, <1>8 DEF JobsInductive

LEMMA TickStep ==
  ASSUME JobsInductive, NEW w \in Workers, Tick(w)
  PROVE  JobsInductive'
  <1>0. JobsTypeOK /\ JobsAreSound
    BY DEF JobsInductive, JobsAreSound
  <1>1. /\ \A v \in Workers \ {w} : worker'[v] = worker[v]
        /\ worker'[w].pc = "batch" /\ worker'[w].batch = Due
        /\ worker'[w].current = {} /\ worker'[w].acted = FALSE
    BY <1>0, TickWorker
  <1>2. /\ UNCHANGED <<row, live, effects, entries, faults, cuts, unaddressed>>
        /\ worker[w].pc = "idle" /\ Due # {}
        /\ shared' = shared \cup (Due \cap HeldByOthers(w))
    BY DEF Tick, counters
  <1>3. worker[w].current = {} /\ worker[w].batch = {}
    BY <1>0, <1>2 DEF JobsAreSound, JobsInductive, IdleHandsAreEmpty
  <1>4. JobsTypeOK'
    BY <1>0, <1>2, TickWorker DEF JobsTypeOK, Due
  <1>5. JobsAreSound'
    BY <1>0, <1>1, <1>2, <1>4 DEF JobsAreSound, Due
  <1>6. IdleHandsAreEmpty' /\ ActionsAreRemembered'
    BY <1>1, <1>2 DEF JobsInductive, IdleHandsAreEmpty, ActionsAreRemembered
  <1>7. UnsharedRowsHaveOneHolder'
    <2> SUFFICES ASSUME NEW p \in Pendings, p \notin shared', NEW u \in Workers, p \in worker'[u].batch
                 PROVE  /\ row[p].status = "pending"
                        /\ \A v \in Workers : p \in worker'[v].batch => v = u
      BY <1>2 DEF UnsharedRowsHaveOneHolder
    <2>1. p \notin shared /\ (p \in Due => \A v \in Workers \ {w} : p \notin worker[v].batch)
      BY <1>2 DEF HeldByOthers
    <2> QED BY <1>1, <2>1 DEF JobsInductive, UnsharedRowsHaveOneHolder, Due
  <1>8. ExecutedMeansDone' /\ EntriesMatchTheirRow'
    BY <1>2 DEF JobsInductive, ExecutedMeansDone, EntriesMatchTheirRow, Enters
  <1>9. \A v \in Workers, p \in Pendings : Acted(v, p)' <=> Acted(v, p)
    BY <1>1, <1>3 DEF Acted
  <1>10. EffectsHaveAnOrigin'
    <2> SUFFICES ASSUME NEW p \in Pendings
                 PROVE  /\ row[p].status = "none" => effects[p] = 0
                        /\ row[p].status = "pending" => effects[p] <= cuts[p] + Cardinality(Actors(p)')
                        /\ row[p].status \in {"executed", "failed"} =>
                              effects[p] + Cardinality(Waiting(p)') <= cuts[p] + Cardinality(Workers)
      BY <1>2 DEF EffectsHaveAnOrigin
    <2>1. Actors(p)' = Actors(p)
      BY <1>9 DEF Actors
    <2>2. CASE p \in Due
      BY <2>1, <2>2 DEF JobsInductive, EffectsHaveAnOrigin, Due
    <2>3. CASE p \notin Due
      <3>1. Waiting(p)' = Waiting(p)
        BY <1>1, <1>3, <1>9, <2>3, SameCounts
      <3> QED BY <2>1, <3>1 DEF JobsInductive, EffectsHaveAnOrigin
    <2> QED BY <2>2, <2>3
  <1>11. UnsharedEffectsHaveAnOrigin'
    BY <1>2, <1>9 DEF JobsInductive, UnsharedEffectsHaveAnOrigin
  <1> QED BY <1>5, <1>6, <1>7, <1>8, <1>10, <1>11 DEF JobsInductive

(* Steps that neither act, record nor leave: Take, CommitFails and Start    *)
(* change what a job is at, and nothing that the invariant counts.          *)
LEMMA QuietStep ==
  ASSUME JobsInductive, NEW w \in Workers,
         (\E p \in Pendings : Take(w, p)) \/ CommitFails(w) \/ Start(w)
  PROVE  JobsInductive'
  <1>0. JobsTypeOK /\ JobsAreSound
    BY DEF JobsInductive, JobsAreSound
  <1> DEFINE Quiet ==
        /\ UNCHANGED <<row, live, effects, entries, cuts, shared, unaddressed>>
        /\ faults' \in 0..MaxFaults
        /\ worker' \in [Workers -> [pc : Phases, batch : SUBSET Pendings,
                                    current : SUBSET Pendings, acted : BOOLEAN]]
        /\ \A v \in Workers \ {w} : worker'[v] = worker[v]
        /\ worker'[w].batch = worker[w].batch
        /\ worker'[w].acted = worker[w].acted
        /\ \/ /\ worker[w].pc = "batch" /\ worker'[w].pc \in {"execute", "gone"} /\ ~worker[w].acted
              /\ \E p \in worker[w].batch : worker'[w].current = {p}
           \/ /\ worker[w].pc = "acted" /\ worker'[w].pc = "refused"
              /\ worker'[w].current = worker[w].current
           \/ /\ worker[w].pc = "down" /\ worker'[w].pc = "idle"
              /\ worker[w].current = {} /\ worker'[w].current = {}
  <1>1. Quiet
    <2>1. ASSUME NEW p \in Pendings, Take(w, p) PROVE Quiet
      <3>1. /\ UNCHANGED <<row, live, effects, entries, faults, cuts, shared, unaddressed>>
            /\ worker[w].pc = "batch" /\ p \in worker[w].batch
        BY <2>1 DEF Take, counters, history
      <3>2. PICK pc \in {"execute", "gone"} :
               worker' = [worker EXCEPT ![w].pc = pc, ![w].current = {p}, ![w].acted = FALSE]
        BY <2>1 DEF Take
      <3>3. worker[w].acted = FALSE
        BY <1>0, <3>1 DEF JobsAreSound, JobsTypeOK
      <3> QED BY <1>0, <3>1, <3>2, <3>3 DEF JobsTypeOK, Phases
    <2>2. CASE CommitFails(w)
      <3>1. /\ UNCHANGED <<row, live, effects, entries, cuts, shared, unaddressed>>
            /\ worker[w].pc = "acted" /\ worker' = [worker EXCEPT ![w].pc = "refused"]
        BY <2>2 DEF CommitFails, counters, history
      <3>2. faults' \in 0..MaxFaults
        BY <1>0, <2>2, RowsAssumption DEF CommitFails, JobsTypeOK
      <3> QED BY <1>0, <3>1, <3>2 DEF JobsTypeOK, Phases
    <2>3. CASE Start(w)
      <3>1. worker[w].pc = "down" /\ worker' = [worker EXCEPT ![w] = Idle]
            /\ UNCHANGED <<row, live, effects, entries, faults, cuts, shared, unaddressed>>
        BY <2>3 DEF Start, counters, history
      <3>2. worker[w].batch = {} /\ worker[w].current = {} /\ worker[w].acted = FALSE
        BY <1>0, <3>1 DEF JobsInductive, IdleHandsAreEmpty, JobsAreSound, JobsTypeOK
      <3> QED BY <1>0, <3>1, <3>2, IdleAndDown DEF JobsTypeOK
    <2> QED BY <2>1, <2>2, <2>3
  <1>2. \A v \in Workers, p \in Pendings : Acted(v, p)' <=> Acted(v, p)
    BY <1>0, <1>1 DEF Acted, JobsAreSound
  <1>3. \A v \in Workers : worker'[v].batch = worker[v].batch
    BY <1>1
  <1>4. JobsAreSound'
    <2>1. JobsTypeOK'
      BY <1>0, <1>1 DEF JobsTypeOK
    <2> QED BY <1>0, <1>1, <2>1 DEF JobsAreSound
  <1>5. IdleHandsAreEmpty'
    BY <1>1 DEF JobsInductive, IdleHandsAreEmpty
  <1>6. ActionsAreRemembered'
    BY <1>1 DEF JobsInductive, ActionsAreRemembered
  <1>7. UnsharedRowsHaveOneHolder'
    BY <1>1, <1>3 DEF JobsInductive, UnsharedRowsHaveOneHolder
  <1>8. ExecutedMeansDone' /\ EntriesMatchTheirRow'
    BY <1>1 DEF JobsInductive, ExecutedMeansDone, EntriesMatchTheirRow, Enters
  <1>9. \A p \in Pendings : Actors(p)' = Actors(p) /\ Waiting(p)' = Waiting(p)
    BY <1>2, <1>3, SameCounts
  <1>10. EffectsHaveAnOrigin'
    BY <1>1, <1>9 DEF JobsInductive, EffectsHaveAnOrigin
  <1>11. UnsharedEffectsHaveAnOrigin'
    BY <1>1, <1>2 DEF JobsInductive, UnsharedEffectsHaveAnOrigin
  <1> QED BY <1>4, <1>5, <1>6, <1>7, <1>8, <1>10, <1>11 DEF JobsInductive

(* An action takes effect, or is refused before or after it did: w turns    *)
(* from a process that waits for its row into one that acted on it.         *)
LEMMA ActStep ==
  ASSUME JobsInductive, NEW w \in Workers, NEW p0 \in Pendings,
         RunAction(w, p0) \/ Notify(w, p0) \/ Refuse(w, p0)
  PROVE  JobsInductive'
  <1>0. JobsTypeOK /\ JobsAreSound
    BY DEF JobsInductive, JobsAreSound
  <1>1. /\ UNCHANGED <<row, live, entries, cuts, shared>>
        /\ worker[w].pc = "execute" /\ worker[w].current = {p0}
        /\ faults' \in 0..MaxFaults
        /\ unaddressed \subseteq unaddressed' /\ unaddressed' \subseteq Pendings
    BY <1>0, RowsAssumption DEF RunAction, Notify, Refuse, history, counters, JobsTypeOK
  <1>2. PICK late \in BOOLEAN, pc \in {"acted", "refused"} :
           /\ effects' = [effects EXCEPT ![p0] = IF late THEN @ + 1 ELSE @]
           /\ worker' = [worker EXCEPT ![w].pc = pc, ![w].acted = late]
           /\ (pc = "acted" /\ p0 \in External) => late
           /\ (pc = "acted" /\ row[p0].notice) => p0 \in unaddressed'
    <2>1. CASE RunAction(w, p0)
      <3>1. (p0 \in External) = TRUE \/ (p0 \in External) = FALSE
        OBVIOUS
      <3>2. PICK late \in BOOLEAN : late = (p0 \in External)
        BY <3>1
      <3>3. effects' = [effects EXCEPT ![p0] = IF late THEN @ + 1 ELSE @]
        BY <2>1, <3>2 DEF RunAction
      <3>4. worker' = [worker EXCEPT ![w].pc = "acted", ![w].acted = late]
        BY <2>1, <3>2 DEF RunAction
      <3>5. ~row[p0].notice
        BY <2>1 DEF RunAction
      <3> QED BY <3>2, <3>3, <3>4, <3>5
    <2>2. CASE Refuse(w, p0)
      <3>1. PICK late \in {FALSE, (p0 \in External)} :
              /\ effects' = [effects EXCEPT ![p0] = IF late THEN @ + 1 ELSE @]
              /\ worker' = [worker EXCEPT ![w].pc = "refused", ![w].acted = late]
        BY <2>2 DEF Refuse
      <3>2. late = TRUE \/ late = FALSE
        OBVIOUS
      <3> QED BY <3>1, <3>2
    <2>3. CASE Notify(w, p0)
      <3>1. PICK found \in BOOLEAN :
              /\ worker' = [worker EXCEPT ![w].pc = IF found THEN "refused" ELSE "acted"]
              /\ unaddressed' = unaddressed \cup (IF found THEN {} ELSE {p0})
        BY <2>3 DEF Notify
      <3>2. effects' = effects /\ row[p0].notice
        BY <2>3 DEF Notify, counters
      <3>3. p0 \notin External
        BY <1>0, <3>2 DEF JobsTypeOK
      <3>4. worker[w].acted = FALSE
        BY <1>0, <1>1 DEF JobsAreSound, JobsTypeOK
      <3>5. effects' = [effects EXCEPT ![p0] = IF FALSE THEN @ + 1 ELSE @]
        BY <1>0, <3>2 DEF JobsTypeOK
      <3>6. \A pc \in {"acted", "refused"} :
              [worker EXCEPT ![w].pc = pc, ![w].acted = FALSE] = [worker EXCEPT ![w].pc = pc]
        BY <1>0, <3>4 DEF JobsTypeOK
      <3>7. CASE found
        BY <3>1, <3>3, <3>5, <3>6, <3>7
      <3>8. CASE ~found
        BY <3>1, <3>3, <3>5, <3>6, <3>8
      <3> QED BY <3>7, <3>8
    <2> QED BY <2>1, <2>2, <2>3
  <1>3. /\ worker' \in [Workers -> [pc : Phases, batch : SUBSET Pendings,
                                    current : SUBSET Pendings, acted : BOOLEAN]]
        /\ \A v \in Workers \ {w} : worker'[v] = worker[v]
        /\ worker'[w].pc = pc /\ worker'[w].acted = late
        /\ worker'[w].batch = worker[w].batch /\ worker'[w].current = {p0}
    BY <1>0, <1>1, <1>2 DEF JobsTypeOK, Phases
  <1>4. /\ effects' \in [Pendings -> Nat]
        /\ \A p \in Pendings \ {p0} : effects'[p] = effects[p]
        /\ effects'[p0] = IF late THEN effects[p0] + 1 ELSE effects[p0]
    BY <1>0, <1>2 DEF JobsTypeOK
  <1>5. p0 \in worker[w].batch /\ worker[w].acted = FALSE /\ row[p0].status # "none"
    BY <1>0, <1>1 DEF JobsAreSound, JobsTypeOK
  <1>6. JobsAreSound'
    <2>1. JobsTypeOK'
      BY <1>0, <1>1, <1>3, <1>4 DEF JobsTypeOK
    <2> QED BY <1>0, <1>1, <1>3, <1>5, <2>1 DEF JobsAreSound
  <1>7. IdleHandsAreEmpty' /\ UnsharedRowsHaveOneHolder'
    BY <1>1, <1>3 DEF JobsInductive, IdleHandsAreEmpty, UnsharedRowsHaveOneHolder
  <1>8. ActionsAreRemembered'
    <2> SUFFICES ASSUME NEW v \in Workers, NEW p \in worker'[v].current
                 PROVE  /\ worker'[v].current = {p}
                        /\ worker'[v].acted => effects'[p] > 0
                        /\ (worker'[v].pc = "acted" /\ p \in External) => worker'[v].acted
                        /\ (worker'[v].pc = "acted" /\ row[p].notice) => p \in unaddressed'
      BY <1>1 DEF ActionsAreRemembered
    <2>1. CASE v = w
      <3>1. p = p0 /\ effects[p0] \in Nat
        BY <1>0, <1>3, <2>1 DEF JobsTypeOK
      <3> QED BY <1>2, <1>3, <1>4, <2>1, <3>1
    <2>2. CASE v # w
      <3>1. worker'[v] = worker[v] /\ p \in Pendings
        BY <1>0, <1>3, <2>2 DEF JobsTypeOK
      <3>2. effects[p] \in Nat /\ effects'[p] \in Nat /\ effects'[p] >= effects[p]
        BY <1>0, <1>4, <3>1 DEF JobsTypeOK
      <3>3. /\ worker[v].current = {p}
            /\ worker[v].acted => effects[p] > 0
            /\ (worker[v].pc = "acted" /\ p \in External) => worker[v].acted
            /\ (worker[v].pc = "acted" /\ row[p].notice) => p \in unaddressed
        BY <3>1 DEF JobsInductive, ActionsAreRemembered
      <3>4. worker[v].acted => effects'[p] > 0
        BY <3>2, <3>3
      <3> QED BY <1>1, <3>1, <3>3, <3>4
    <2> QED BY <2>1, <2>2
  <1>9. ExecutedMeansDone' /\ EntriesMatchTheirRow'
    BY <1>0, <1>1, <1>4 DEF JobsInductive, ExecutedMeansDone, EntriesMatchTheirRow, Enters, JobsTypeOK
  <1>10. \A v \in Workers, p \in Pendings :
            Acted(v, p)' <=> Acted(v, p) \/ (v = w /\ p = p0 /\ late)
    BY <1>1, <1>3, <1>5 DEF Acted
  <1>11. \A v \in Workers : worker'[v].batch = worker[v].batch
    BY <1>3
  <1>12. EffectsHaveAnOrigin'
    <2> SUFFICES ASSUME NEW p \in Pendings
                 PROVE  /\ row[p].status = "none" => effects'[p] = 0
                        /\ row[p].status = "pending" => effects'[p] <= cuts[p] + Cardinality(Actors(p)')
                        /\ row[p].status \in {"executed", "failed"} =>
                              effects'[p] + Cardinality(Waiting(p)') <= cuts[p] + Cardinality(Workers)
      BY <1>1 DEF EffectsHaveAnOrigin
    <2>1. CASE p # p0 \/ ~late
      <3>1. Actors(p)' = Actors(p) /\ Waiting(p)' = Waiting(p)
        BY <1>10, <1>11, <2>1, SameCounts
      <3>2. effects'[p] = effects[p]
        BY <1>4, <2>1
      <3> QED BY <3>1, <3>2 DEF JobsInductive, EffectsHaveAnOrigin
    <2>2. CASE p = p0 /\ late
      <3>1. w \notin Actors(p) /\ Actors(p)' = Actors(p) \cup {w}
        BY <1>5, <1>10, <2>2 DEF Actors, Acted
      <3>2. w \in Waiting(p) /\ Waiting(p)' = Waiting(p) \ {w}
        BY <1>3, <1>5, <1>10, <1>11, <2>2 DEF Waiting, Acted
      <3>3. Cardinality(Actors(p)') = Cardinality(Actors(p)) + 1
        BY <3>1, OneMore, CountsAreSound
      <3>4. Cardinality(Waiting(p)') = Cardinality(Waiting(p)) - 1
        BY <3>2, OneLess, CountsAreSound
      <3>5. effects'[p] = effects[p] + 1 /\ effects[p] \in Nat /\ cuts[p] \in Nat
        BY <1>0, <1>4, <2>2 DEF JobsTypeOK
      <3>6. /\ Cardinality(Actors(p)) \in Nat /\ Cardinality(Waiting(p)) \in Nat
            /\ Cardinality(Workers) \in Nat
        BY CountsAreSound
      <3>7. /\ row[p].status = "pending" => effects[p] <= cuts[p] + Cardinality(Actors(p))
            /\ row[p].status \in {"executed", "failed"} =>
                  effects[p] + Cardinality(Waiting(p)) <= cuts[p] + Cardinality(Workers)
        BY DEF JobsInductive, EffectsHaveAnOrigin
      <3> QED BY <1>5, <2>2, <3>3, <3>4, <3>5, <3>6, <3>7
    <2> QED BY <2>1, <2>2
  <1>13. UnsharedEffectsHaveAnOrigin'
    <2> SUFFICES ASSUME NEW p \in Pendings \ shared
                 PROVE  /\ effects'[p] <= 1 + cuts[p]
                        /\ row[p].status = "pending" /\ (\A v \in Workers : ~Acted(v, p)') => effects'[p] <= cuts[p]
      BY <1>1 DEF UnsharedEffectsHaveAnOrigin
    <2>1. CASE p # p0 \/ ~late
      BY <1>4, <1>10, <2>1 DEF JobsInductive, UnsharedEffectsHaveAnOrigin
    <2>2. CASE p = p0 /\ late
      <3>1. row[p].status = "pending" /\ \A v \in Workers : p \in worker[v].batch => v = w
        BY <1>5, <2>2 DEF JobsInductive, UnsharedRowsHaveOneHolder
      <3>2. \A v \in Workers : ~Acted(v, p)
        BY <1>0, <1>5, <3>1, <2>2 DEF Acted, JobsAreSound
      <3>3. effects[p] <= cuts[p] /\ effects[p] \in Nat /\ cuts[p] \in Nat
        BY <1>0, <3>1, <3>2 DEF JobsInductive, UnsharedEffectsHaveAnOrigin, JobsTypeOK
      <3>4. Acted(w, p)'
        BY <1>10, <2>2
      <3> QED BY <1>4, <2>2, <3>3, <3>4
    <2> QED BY <2>1, <2>2
  <1> QED BY <1>6, <1>7, <1>8, <1>9, <1>12, <1>13 DEF JobsInductive

(* The outcome of the row is recorded, whatever its status is by now, and   *)
(* the job goes on with the next.                                           *)
LEMMA RecordStep ==
  ASSUME JobsInductive, NEW w \in Workers, NEW p0 \in Pendings, MarkExecuted(w, p0) \/ MarkFailed(w, p0)
  PROVE  JobsInductive'
  <1>0. JobsTypeOK /\ JobsAreSound
    BY DEF JobsInductive, JobsAreSound
  <1>1. /\ UNCHANGED <<live, effects, faults, cuts, shared, unaddressed>>
        /\ worker[w].pc \in {"acted", "gone", "refused"} /\ worker[w].current = {p0}
        /\ worker' = NextRow(w)
    BY DEF MarkExecuted, MarkFailed, history, counters
  <1>2. PICK s \in {"executed", "failed"} :
           /\ row' = [row EXCEPT ![p0].status = s]
           /\ s = "executed" => worker[w].pc = "acted"
           /\ entries' = [entries EXCEPT ![p0] = IF s = "executed" /\ Enters(p0) THEN @ + 1 ELSE @]
    <2>1. CASE MarkExecuted(w, p0)
      <3>1. entries' = [entries EXCEPT ![p0] = IF Enters(p0) THEN @ + 1 ELSE @]
        BY <2>1 DEF MarkExecuted
      <3>2. row' = [row EXCEPT ![p0].status = "executed"] /\ worker[w].pc = "acted"
        BY <2>1 DEF MarkExecuted
      <3>3. entries' = [entries EXCEPT ![p0] = IF "executed" = "executed" /\ Enters(p0) THEN @ + 1 ELSE @]
        BY <3>1
      <3> QED BY <3>2, <3>3
    <2>2. CASE MarkFailed(w, p0)
      <3>1. row' = [row EXCEPT ![p0].status = "failed"] /\ entries' = entries
        BY <2>2 DEF MarkFailed, counters
      <3>2. entries' = [entries EXCEPT ![p0] = IF "failed" = "executed" /\ Enters(p0) THEN @ + 1 ELSE @]
        BY <1>0, <3>1 DEF JobsTypeOK
      <3> QED BY <3>1, <3>2
    <2> QED BY <2>1, <2>2
  <1>3. /\ worker' \in [Workers -> [pc : Phases, batch : SUBSET Pendings,
                                    current : SUBSET Pendings, acted : BOOLEAN]]
        /\ \A v \in Workers \ {w} : worker'[v] = worker[v]
        /\ worker'[w].pc = IF worker[w].batch = {p0} THEN "idle" ELSE "batch"
        /\ worker'[w].batch = worker[w].batch \ {p0}
        /\ worker'[w].current = {} /\ worker'[w].acted = FALSE
    BY <1>0, <1>1, NextRowWorker
  <1>4. /\ row' \in [Pendings -> [status : Statuses, due : BOOLEAN, notice : BOOLEAN]]
        /\ \A p \in Pendings \ {p0} : row'[p] = row[p]
        /\ \A p \in Pendings : row'[p].notice = row[p].notice
        /\ row'[p0].status = s /\ s \in {"executed", "failed"}
    BY <1>0, <1>2 DEF JobsTypeOK, Statuses
  <1>5. /\ entries' \in [Pendings -> Nat]
        /\ \A p \in Pendings \ {p0} : entries'[p] = entries[p]
        /\ entries'[p0] = IF s = "executed" /\ Enters(p0) THEN entries[p0] + 1 ELSE entries[p0]
    BY <1>0, <1>2 DEF JobsTypeOK
  <1>6. p0 \in worker[w].batch /\ row[p0].status # "none"
    BY <1>0, <1>1 DEF JobsAreSound
  <1>7. JobsAreSound'
    <2>1. JobsTypeOK'
      BY <1>0, <1>1, <1>3, <1>4, <1>5, RowsAssumption DEF JobsTypeOK
    <2>2. \A p \in Pendings : row[p].status # "none" => row'[p].status # "none"
      BY <1>4
    <2>3. \A v \in Workers : worker'[v].batch \subseteq worker[v].batch
      BY <1>3
    <2>4. \A v \in Workers : \A p \in worker'[v].batch : row'[p].status # "none"
      BY <1>0, <2>2, <2>3 DEF JobsAreSound, JobsTypeOK
    <2> QED BY <1>0, <1>3, <1>6, <2>1, <2>4 DEF JobsAreSound
  <1>8. IdleHandsAreEmpty'
    BY <1>3 DEF JobsInductive, IdleHandsAreEmpty
  <1>9. ActionsAreRemembered'
    <2>1. \A v \in Workers : worker'[v].current \subseteq Pendings
      BY <1>0, <1>3 DEF JobsTypeOK
    <2> QED BY <1>1, <1>3, <1>4, <2>1 DEF JobsInductive, ActionsAreRemembered
  <1>10. p0 \notin shared => /\ row[p0].status = "pending"
                            /\ \A v \in Workers : p0 \notin worker'[v].batch
    BY <1>3, <1>6 DEF JobsInductive, UnsharedRowsHaveOneHolder
  <1>11. UnsharedRowsHaveOneHolder'
    <2>1. \A v \in Workers : worker'[v].batch \subseteq worker[v].batch
      BY <1>3
    <2>2. SUFFICES ASSUME NEW p \in Pendings \ shared, NEW v \in Workers, p \in worker'[v].batch
                   PROVE  /\ row'[p].status = "pending"
                          /\ \A u \in Workers : p \in worker'[u].batch => u = v
      BY <1>1 DEF UnsharedRowsHaveOneHolder
    <2>3. p # p0 /\ p \in worker[v].batch
      BY <1>10, <2>1, <2>2
    <2>4. /\ row[p].status = "pending"
          /\ \A u \in Workers : p \in worker[u].batch => u = v
      BY <2>3 DEF JobsInductive, UnsharedRowsHaveOneHolder
    <2> QED BY <1>4, <2>1, <2>3, <2>4
  <1>12. ExecutedMeansDone'
    <2> SUFFICES ASSUME NEW p \in Pendings, row'[p].status = "executed"
                 PROVE  /\ p \in External => effects[p] > 0
                        /\ Enters(p) => entries'[p] > 0
                        /\ row[p].notice => p \in unaddressed
      BY <1>1, <1>4 DEF ExecutedMeansDone, Enters
    <2>1. CASE p # p0
      BY <1>4, <1>5, <2>1 DEF JobsInductive, ExecutedMeansDone
    <2>2. CASE p = p0
      <3>1. s = "executed" /\ worker[w].pc = "acted"
        BY <1>2, <1>4, <2>2
      <3>2. (p0 \in External => effects[p0] > 0) /\ (row[p0].notice => p0 \in unaddressed)
        BY <1>1, <3>1 DEF JobsInductive, ActionsAreRemembered
      <3>3. Enters(p0) => entries'[p0] > 0
        BY <1>0, <1>5, <3>1 DEF JobsTypeOK
      <3> QED BY <2>2, <3>2, <3>3
    <2> QED BY <2>1, <2>2
  <1>13. EntriesMatchTheirRow'
    <2> SUFFICES ASSUME NEW p \in Pendings \ shared
                 PROVE  entries'[p] = IF row'[p].status = "executed" /\ Enters(p) THEN 1 ELSE 0
      BY <1>1, <1>4 DEF EntriesMatchTheirRow, Enters
    <2>1. CASE p # p0
      BY <1>4, <1>5, <2>1 DEF JobsInductive, EntriesMatchTheirRow
    <2>2. CASE p = p0
      <3>1. entries[p0] = 0
        BY <1>10, <2>2 DEF JobsInductive, EntriesMatchTheirRow
      <3> QED BY <1>4, <1>5, <2>2, <3>1
    <2> QED BY <2>1, <2>2
  <1>14. \A p \in Pendings \ {p0}, v \in Workers :
            /\ Acted(v, p)' <=> Acted(v, p)
            /\ p \in worker'[v].batch <=> p \in worker[v].batch
    BY <1>1, <1>3 DEF Acted
  <1>15. EffectsHaveAnOrigin'
    <2> SUFFICES ASSUME NEW p \in Pendings
                 PROVE  /\ row'[p].status = "none" => effects[p] = 0
                        /\ row'[p].status = "pending" => effects[p] <= cuts[p] + Cardinality(Actors(p)')
                        /\ row'[p].status \in {"executed", "failed"} =>
                              effects[p] + Cardinality(Waiting(p)') <= cuts[p] + Cardinality(Workers)
      BY <1>1 DEF EffectsHaveAnOrigin
    <2>1. CASE p # p0
      <3>1. Actors(p)' = Actors(p) /\ Waiting(p)' = Waiting(p)
        BY <1>14, <2>1, SameCounts
      <3> QED BY <1>4, <2>1, <3>1 DEF JobsInductive, EffectsHaveAnOrigin
    <2>2. CASE p = p0
      <3>1. /\ IsFiniteSet(Waiting(p)) /\ Cardinality(Workers) \in Nat
            /\ Cardinality(Actors(p)) \in Nat /\ Cardinality(Waiting(p)) \in Nat
            /\ Cardinality(Actors(p)) + Cardinality(Waiting(p)) <= Cardinality(Workers)
        BY CountsAreSound
      <3>2. effects[p] \in Nat /\ cuts[p] \in Nat
        BY <1>0 DEF JobsTypeOK
      <3>3. Waiting(p)' = Waiting(p) \ {w}
        BY <1>3, <2>2 DEF Waiting, Acted
      <3>4. Waiting(p)' \subseteq Waiting(p)
        BY <3>3
      <3>5. Cardinality(Waiting(p)') \in Nat /\ Cardinality(Waiting(p)') <= Cardinality(Waiting(p))
        BY <3>1, <3>4, FS_Subset, FS_CardinalityType
      <3>6. row[p].status = "pending" \/ row[p].status \in {"executed", "failed"}
        BY <1>0, <1>6, <2>2 DEF JobsTypeOK, Statuses
      <3>7. \/ effects[p] <= cuts[p] + Cardinality(Actors(p))
            \/ effects[p] + Cardinality(Waiting(p)) <= cuts[p] + Cardinality(Workers)
        BY <3>6 DEF JobsInductive, EffectsHaveAnOrigin
      <3>8. effects[p] + Cardinality(Waiting(p)') <= cuts[p] + Cardinality(Workers)
        BY <3>1, <3>2, <3>5, <3>7
      <3> QED BY <1>4, <2>2, <3>8
    <2> QED BY <2>1, <2>2
  <1>16. UnsharedEffectsHaveAnOrigin'
    <2> SUFFICES ASSUME NEW p \in Pendings \ shared
                 PROVE  /\ effects[p] <= 1 + cuts[p]
                        /\ row'[p].status = "pending" /\ (\A v \in Workers : ~Acted(v, p)') => effects[p] <= cuts[p]
      BY <1>1 DEF UnsharedEffectsHaveAnOrigin
    <2>1. CASE p # p0
      BY <1>4, <1>14, <2>1 DEF JobsInductive, UnsharedEffectsHaveAnOrigin
    <2>2. CASE p = p0
      BY <1>4, <2>2 DEF JobsInductive, UnsharedEffectsHaveAnOrigin
    <2> QED BY <2>1, <2>2
  <1> QED BY <1>7, <1>8, <1>9, <1>11, <1>12, <1>13, <1>15, <1>16 DEF JobsInductive

(* A batch is left: every effect whose record is lost is counted as a cut.  *)
LEMMA LeaveStep ==
  ASSUME JobsInductive, NEW w \in Workers, NEW to \in {Idle, Down}, Leave(w, to), faults' \in 0..MaxFaults
  PROVE  JobsInductive'
  <1>0. JobsTypeOK /\ JobsAreSound
    BY DEF JobsInductive, JobsAreSound
  <1>1. UNCHANGED <<row, live, effects, entries, shared, unaddressed>>
    BY DEF Leave, counters
  <1>2. /\ worker' \in [Workers -> [pc : Phases, batch : SUBSET Pendings,
                                    current : SUBSET Pendings, acted : BOOLEAN]]
        /\ \A v \in Workers \ {w} : worker'[v] = worker[v]
        /\ worker'[w].pc \in {"down", "idle"}
        /\ worker'[w].batch = {} /\ worker'[w].current = {} /\ worker'[w].acted = FALSE
    <2>1. worker' = [worker EXCEPT ![w] = to]
      BY DEF Leave
    <2> QED BY <1>0, <2>1, IdleAndDown DEF JobsTypeOK
  <1>3. /\ cuts' \in [Pendings -> Nat]
        /\ \A p \in Pendings : cuts'[p] = IF Acted(w, p) THEN cuts[p] + 1 ELSE cuts[p]
    BY <1>0 DEF Leave, JobsTypeOK, Acted
  <1>4. JobsAreSound'
    <2>1. JobsTypeOK'
      BY <1>0, <1>1, <1>2, <1>3 DEF JobsTypeOK
    <2> QED BY <1>0, <1>1, <1>2, <2>1 DEF JobsAreSound
  <1>5. IdleHandsAreEmpty' /\ ActionsAreRemembered'
    BY <1>1, <1>2 DEF JobsInductive, IdleHandsAreEmpty, ActionsAreRemembered
  <1>6. UnsharedRowsHaveOneHolder'
    BY <1>1, <1>2 DEF JobsInductive, UnsharedRowsHaveOneHolder
  <1>7. ExecutedMeansDone' /\ EntriesMatchTheirRow'
    BY <1>1 DEF JobsInductive, ExecutedMeansDone, EntriesMatchTheirRow, Enters
  <1>8. EffectsHaveAnOrigin'
    <2> SUFFICES ASSUME NEW p \in Pendings
                 PROVE  /\ row[p].status = "none" => effects[p] = 0
                        /\ row[p].status = "pending" => effects[p] <= cuts'[p] + Cardinality(Actors(p)')
                        /\ row[p].status \in {"executed", "failed"} =>
                              effects[p] + Cardinality(Waiting(p)') <= cuts'[p] + Cardinality(Workers)
      BY <1>1 DEF EffectsHaveAnOrigin
    <2>1. /\ IsFiniteSet(Actors(p)) /\ IsFiniteSet(Waiting(p)) /\ Cardinality(Workers) \in Nat
          /\ Cardinality(Actors(p)) \in Nat /\ Cardinality(Waiting(p)) \in Nat
          /\ effects[p] \in Nat /\ cuts[p] \in Nat
      BY <1>0, CountsAreSound DEF JobsTypeOK
    <2>2. /\ row[p].status = "none" => effects[p] = 0
          /\ row[p].status = "pending" => effects[p] <= cuts[p] + Cardinality(Actors(p))
          /\ row[p].status \in {"executed", "failed"} =>
                effects[p] + Cardinality(Waiting(p)) <= cuts[p] + Cardinality(Workers)
      BY DEF JobsInductive, EffectsHaveAnOrigin
    <2>3. Waiting(p)' \subseteq Waiting(p)
      BY <1>2 DEF Waiting, Acted
    <2>4. Cardinality(Waiting(p)') \in Nat /\ Cardinality(Waiting(p)') <= Cardinality(Waiting(p))
      BY <2>1, <2>3, FS_Subset, FS_CardinalityType
    <2>5. CASE Acted(w, p)
      <3>1. w \in Actors(p) /\ Actors(p)' = Actors(p) \ {w}
        BY <1>2, <2>5 DEF Actors, Acted
      <3>2. Cardinality(Actors(p)') = Cardinality(Actors(p)) - 1
        BY <2>1, <3>1, OneLess
      <3>3. cuts'[p] = cuts[p] + 1
        BY <1>3, <2>5
      <3> QED BY <2>1, <2>2, <2>4, <3>2, <3>3
    <2>6. CASE ~Acted(w, p)
      <3>1. Actors(p)' = Actors(p)
        BY <1>2, <2>6 DEF Actors, Acted
      <3>2. cuts'[p] = cuts[p]
        BY <1>3, <2>6
      <3> QED BY <2>1, <2>2, <2>4, <3>1, <3>2
    <2> QED BY <2>5, <2>6
  <1>9. UnsharedEffectsHaveAnOrigin'
    <2> SUFFICES ASSUME NEW p \in Pendings \ shared
                 PROVE  /\ effects[p] <= 1 + cuts'[p]
                        /\ row[p].status = "pending" /\ (\A v \in Workers : ~Acted(v, p)') => effects[p] <= cuts'[p]
      BY <1>1 DEF UnsharedEffectsHaveAnOrigin
    <2>1. effects[p] \in Nat /\ cuts[p] \in Nat /\ effects[p] <= 1 + cuts[p]
      BY <1>0 DEF JobsInductive, UnsharedEffectsHaveAnOrigin, JobsTypeOK
    <2>2. CASE Acted(w, p)
      BY <1>3, <2>1, <2>2
    <2>3. CASE ~Acted(w, p)
      <3>1. cuts'[p] = cuts[p]
        BY <1>3, <2>3
      <3>2. \A v \in Workers : Acted(v, p) => Acted(v, p)'
        BY <1>2, <2>3 DEF Acted
      <3> QED BY <2>1, <3>1, <3>2 DEF JobsInductive, UnsharedEffectsHaveAnOrigin
    <2> QED BY <2>2, <2>3
  <1> QED BY <1>4, <1>5, <1>6, <1>7, <1>8, <1>9 DEF JobsInductive

LEMMA StepIsInductive == JobsInductive /\ [JobsNext]_jobVars => JobsInductive'
  <1> SUFFICES ASSUME JobsInductive, [JobsNext]_jobVars PROVE JobsInductive'
    OBVIOUS
  <1>1. CASE \E p \in Pendings : Enqueue(p) \/ BecomesDue(p)
    BY <1>1, EnvironmentStep
  <1>2. CASE DeleteWorkflow
    BY <1>2, EnvironmentStep
  <1>3. ASSUME NEW w \in Workers, Proceed(w) PROVE JobsInductive'
    <2>1. CASE Tick(w)
      BY <2>1, TickStep
    <2>2. CASE Start(w) \/ \E p \in Pendings : Take(w, p)
      BY <2>2, QuietStep
    <2>3. CASE Expire(w)
      <3>1. Leave(w, Idle) /\ faults' \in 0..MaxFaults
        BY <2>3 DEF Expire, JobsInductive, JobsAreSound, JobsTypeOK
      <3> QED BY <3>1, LeaveStep
    <2>4. CASE \E p \in Pendings : RunAction(w, p) \/ Notify(w, p)
      BY <2>4, ActStep
    <2>5. CASE \E p \in Pendings : MarkExecuted(w, p) \/ MarkFailed(w, p)
      BY <2>5, RecordStep
    <2> QED BY <1>3, <2>1, <2>2, <2>3, <2>4, <2>5 DEF Proceed
  <1>4. ASSUME NEW w \in Workers, Fault(w) PROVE JobsInductive'
    <2>1. CASE Timeout(w)
      <3>1. Leave(w, Idle) /\ faults' \in 0..MaxFaults
        BY <2>1, RowsAssumption DEF Timeout, JobsInductive, JobsAreSound, JobsTypeOK
      <3> QED BY <3>1, LeaveStep
    <2>2. CASE StopOrCrash(w)
      <3>1. Leave(w, Down) /\ faults' \in 0..MaxFaults
        BY <2>2, RowsAssumption DEF StopOrCrash, JobsInductive, JobsAreSound, JobsTypeOK
      <3> QED BY <3>1, LeaveStep
    <2>3. CASE CommitFails(w)
      BY <2>3, QuietStep
    <2>4. CASE \E p \in Pendings : Refuse(w, p)
      BY <2>4, ActStep
    <2> QED BY <1>4, <2>1, <2>2, <2>3, <2>4 DEF Fault
  <1>5. CASE UNCHANGED jobVars
    <2>1. UNCHANGED <<row, live, effects, entries, worker, faults, cuts, shared, unaddressed>>
      BY <1>5 DEF jobVars, counters, history
    <2>2. JobsAreSound'
      BY <2>1 DEF JobsInductive, JobsAreSound, JobsTypeOK
    <2>3. IdleHandsAreEmpty' /\ ActionsAreRemembered' /\ UnsharedRowsHaveOneHolder'
      BY <2>1 DEF JobsInductive, IdleHandsAreEmpty, ActionsAreRemembered, UnsharedRowsHaveOneHolder
    <2>4. ExecutedMeansDone' /\ EntriesMatchTheirRow'
      BY <2>1 DEF JobsInductive, ExecutedMeansDone, EntriesMatchTheirRow, Enters
    <2>5. EffectsHaveAnOrigin' /\ UnsharedEffectsHaveAnOrigin'
      BY <2>1 DEF JobsInductive, EffectsHaveAnOrigin, UnsharedEffectsHaveAnOrigin, Actors, Waiting, Acted
    <2> QED BY <2>2, <2>3, <2>4, <2>5 DEF JobsInductive
  <1> QED BY <1>1, <1>2, <1>3, <1>4, <1>5 DEF JobsNext

-----------------------------------------------------------------------------
(* Theorems *)

(* The inductive invariant of the automation job holds in every reachable   *)
(* state, for any processes, rows and number of faults.                     *)
THEOREM AutomationInductive == JobsSpec => []JobsInductive
  <1> QED BY InitIsInductive, StepIsInductive, PTL DEF JobsSpec

(* The rows, the jobs and what they hold always have their types; a job     *)
(* handles one stored row at a time.                                        *)
THEOREM JobsStaySound == JobsSpec => []JobsAreSound
  <1>1. JobsInductive => JobsAreSound
    BY DEF JobsInductive
  <1> QED BY <1>1, AutomationInductive, PTL

(* A row that says "executed" had its effect or its activity entry, or is a *)
(* notification that a run found no recipient for; and a row that only one  *)
(* process listed at a time has exactly the entries that its status says.   *)
THEOREM RecordsStayTrue == JobsSpec => []RecordsAreTrue
  <1>1. JobsInductive => RecordsAreTrue
    BY DEF JobsInductive, RecordsAreTrue
  <1> QED BY <1>1, AutomationInductive, PTL

(* An action takes effect once, and once more for each run that was cut off *)
(* after its effect; processes that list the row at the same time add at    *)
(* most one effect each.                                                    *)
THEOREM EffectsStayAccountedFor == JobsSpec => []EffectsAreAccountedFor
  <1>1. JobsInductive => EffectsAreAccountedFor
    <2> SUFFICES ASSUME JobsInductive, NEW p \in Pendings
                 PROVE  /\ effects[p] <= Cardinality(Workers) + cuts[p]
                        /\ p \notin shared => effects[p] <= 1 + cuts[p]
      BY DEF EffectsAreAccountedFor
    <2>1. /\ Cardinality(Workers) \in Nat
          /\ Cardinality(Actors(p)) \in Nat /\ Cardinality(Waiting(p)) \in Nat
          /\ Cardinality(Actors(p)) + Cardinality(Waiting(p)) <= Cardinality(Workers)
      BY CountsAreSound
    <2>2. effects[p] \in Nat /\ cuts[p] \in Nat /\ row[p].status \in Statuses
      BY DEF JobsInductive, JobsAreSound, JobsTypeOK
    <2>3. \/ effects[p] = 0
          \/ effects[p] <= cuts[p] + Cardinality(Actors(p))
          \/ effects[p] + Cardinality(Waiting(p)) <= cuts[p] + Cardinality(Workers)
      BY <2>2 DEF JobsInductive, EffectsHaveAnOrigin, Statuses
    <2>4. effects[p] <= Cardinality(Workers) + cuts[p]
      BY <2>1, <2>2, <2>3
    <2>5. p \notin shared => effects[p] <= 1 + cuts[p]
      BY DEF JobsInductive, UnsharedEffectsHaveAnOrigin
    <2> QED BY <2>4, <2>5
  <1> QED BY <1>1, AutomationInductive, PTL

(* Nothing but a process that ran the same row at the same time changes the *)
(* outcome a row has.                                                       *)
THEOREM OutcomesStayFinal == JobsSpec => OutcomesAreFinal
  <1>1. JobsInductive /\ [JobsNext]_jobVars =>
          [\A p \in Pendings \ shared :
              row[p].status \in {"executed", "failed"} => row'[p] = row[p]]_jobVars
    <2> SUFFICES ASSUME JobsInductive, JobsNext, NEW p \in Pendings \ shared,
                        row[p].status \in {"executed", "failed"}
                 PROVE  row'[p] = row[p]
      OBVIOUS
    <2>1. row \in [Pendings -> [status : Statuses, due : BOOLEAN, notice : BOOLEAN]]
      BY DEF JobsInductive, JobsAreSound, JobsTypeOK
    <2>2. \A w \in Workers : p \notin worker[w].batch
      BY DEF JobsInductive, UnsharedRowsHaveOneHolder
    <2>3. \A w \in Workers : worker[w].current \subseteq worker[w].batch
      BY DEF JobsInductive, JobsAreSound
    <2>4. CASE row' = row
      BY <2>4
    <2>5. ASSUME NEW q \in Pendings, Enqueue(q) PROVE row'[p] = row[p]
      BY <2>1, <2>5 DEF Enqueue
    <2>6. ASSUME NEW q \in Pendings, BecomesDue(q) PROVE row'[p] = row[p]
      BY <2>1, <2>6 DEF BecomesDue
    <2>7. ASSUME NEW w \in Workers, NEW q \in Pendings, MarkExecuted(w, q) \/ MarkFailed(w, q)
          PROVE  row'[p] = row[p]
      <3>1. q \in worker[w].current
        BY <2>7 DEF MarkExecuted, MarkFailed
      <3>2. q # p
        BY <2>2, <2>3, <3>1
      <3> QED BY <2>1, <2>7, <3>2 DEF MarkExecuted, MarkFailed
    <2>8. \/ row' = row
          \/ \E q \in Pendings : Enqueue(q) \/ BecomesDue(q)
          \/ \E w \in Workers, q \in Pendings : MarkExecuted(w, q) \/ MarkFailed(w, q)
      BY DEF JobsNext, Proceed, Fault, DeleteWorkflow, Tick, Start, Expire, Take, RunAction, Notify,
             Timeout, StopOrCrash, CommitFails, Refuse, Leave
    <2> QED BY <2>4, <2>5, <2>6, <2>7, <2>8
  <1>2. JobsSpec => []JobsInductive /\ [][JobsNext]_jobVars
    BY AutomationInductive, PTL DEF JobsSpec
  <1> QED BY <1>1, <1>2, PTL DEF OutcomesAreFinal

=============================================================================
