----------------------------- MODULE Transactions -----------------------------
(***************************************************************************)
(* What the CRUD contexts (tasks, boards, projects, identity) share: a     *)
(* request reads committed rows, checks its guards on them and commits its *)
(* writes at the end, in one transaction under READ COMMITTED.             *)
(*                                                                         *)
(* The version check of a repository's update() is made on a row that is   *)
(* read again before the flush; the flush itself compares nothing, so a    *)
(* request may pass the check and still commit over another one's commit   *)
(* (TicketLifecycle models that window step by step).  Here the check is   *)
(* one of the reasons why a request may abort, and its second reading of a *)
(* row is no step of its own; the loads of a request and the commits of    *)
(* others interleave freely.                                               *)
(***************************************************************************)
EXTENDS FiniteSets

CONSTANTS
    Requests,    \* requests of a behaviour; each is used once
    None         \* no row, no reference

VARIABLES
    db,          \* committed rows: table -> key -> row or None
    req,         \* the open transaction of each request
    raced        \* history: <<written, overtaken>> columns or tables of late commits

txns == <<db, req, raced>>

Fresh == [pc |-> "new", writes |-> {}, since |-> {}, walk |-> None]
Closed == [Fresh EXCEPT !.pc = "done"]

InitTransactions == req = [r \in Requests |-> Fresh] /\ raced = {}

(* A schema gives each table its keys and rows, and whether its rows stay  *)
(* for good: a row that may be deleted carries the id of its insert, for   *)
(* another may have its key later.                                         *)
Table(keys, rows) == [keys |-> keys, rows |-> rows, kept |-> TRUE]
Volatile(keys, rows) == [keys |-> keys, rows |-> rows, kept |-> FALSE]

HasSchema(d, Schema) ==
    /\ DOMAIN d = DOMAIN Schema
    /\ \A table \in DOMAIN Schema : d[table] \in [Schema[table].keys -> Schema[table].rows \cup {None}]

(* The rows a table holds.                                                 *)
Rows(d, table) == {k \in DOMAIN d[table] : d[table][k] # None}
Stored(table) == Rows(db, table)

(* A change of one row: add, update and delete of a repository.            *)
Insert(table, key, row) == [table |-> table, key |-> key, old |-> None, new |-> row]
Update(table, key, row) == [table |-> table, key |-> key, old |-> db[table][key], new |-> row]
Delete(table, key) == [table |-> table, key |-> key, old |-> db[table][key], new |-> None]

(* What a change touches: the table that gains or loses the row, or the    *)
(* columns in which the new row differs from the row that was read.        *)
Touched(c) ==
    IF None \in {c.old, c.new} THEN {c.table}
    ELSE {f \in DOMAIN c.new : c.new[f] # c.old[f]}

(* The row that was read is still there.                                   *)
SameRow(row, old) == row # None /\ ("id" \in DOMAIN old => row.id = old.id)

(* What a flush does to a row.  An INSERT needs its unique key free; an    *)
(* UPDATE writes the touched columns and needs its row; a DELETE of a row  *)
(* that is gone already is only a warning.                                 *)
Fails(row, c) ==
    \/ c.old = None /\ row # None
    \/ None \notin {c.old, c.new} /\ ~SameRow(row, c.old)

Updated(row, c) == [f \in DOMAIN row |-> IF f \in Touched(c) THEN c.new[f] ELSE row[f]]

Written(row, c) ==
    CASE c.old = None -> c.new
      [] c.old # None /\ c.new = None -> IF SameRow(row, c.old) THEN None ELSE row
      [] OTHER -> Updated(row, c)

(* The changes of a request are of different rows, so a flush comes to the *)
(* same in any order; its failure undoes all of it.                        *)
Changes(writes, table, key) == {c \in writes : c.table = table /\ c.key = key}

FlushFails(d, writes) == \E c \in writes : Fails(d[c.table][c.key], c)

Flushed(d, writes) ==
    [table \in DOMAIN d |-> [key \in DOMAIN d[table] |->
        IF Changes(writes, table, key) = {} THEN d[table][key]
        ELSE Written(d[table][key], CHOOSE c \in Changes(writes, table, key) : TRUE)]]

-----------------------------------------------------------------------------
(* A request whose guards hold has its writes ready.  The marks are names  *)
(* its commit is to leave in the history beside those of overtaken writes. *)
StageMarked(r, writes, marks) ==
    /\ req[r].pc = "new"
    /\ req' = [req EXCEPT ![r].pc = "staged", ![r].writes = writes, ![r].since = marks]
    /\ UNCHANGED <<db, raced>>

Stage(r, writes) == StageMarked(r, writes, {})

Save(r, table, key, row) == Stage(r, {Update(table, key, row)})

(* update() of a table whose rows carry no version reads the row again and *)
(* writes every column in which the entity, read before, differs from it.  *)
Reload(r, Unversioned) ==
    LET Again(c) == c.table \in Unversioned /\ None \notin {c.old, c.new}
        Reread(c) == IF Again(c) THEN [c EXCEPT !.old = db[c.table][c.key]] ELSE c
        fresh == {Reread(c) : c \in req[r].writes}
    IN  /\ req[r].pc = "staged"
        /\ \A c \in req[r].writes : Again(c) => SameRow(db[c.table][c.key], c.old)
        /\ fresh # req[r].writes
        /\ req' = [req EXCEPT ![r].writes = fresh]
        /\ UNCHANGED <<db, raced>>

(* The tables after the flush of a request, and what it touched.           *)
Outcome(r) == Flushed(db, req[r].writes)
TouchedBy(r) == UNION {Touched(c) : c \in req[r].writes}

(* The commit: all writes or none, and only if the constraints admitted    *)
(* them; the request goes on as the given record.                          *)
CommitTo(r, admitted, then) ==
    /\ req[r].pc = "staged"
    /\ ~FlushFails(db, req[r].writes) /\ admitted
    /\ db' = Outcome(r)
    /\ raced' = raced \cup (TouchedBy(r) \X req[r].since)
    /\ req' = [s \in Requests |->
                 CASE s = r -> then
                   [] s # r /\ req[s].pc \in {"walk", "staged"} -> [req[s] EXCEPT !.since = @ \cup TouchedBy(r)]
                   [] OTHER -> req[s]]

CommitUnder(r, admitted) == CommitTo(r, admitted, Closed)

(* A failed version check, a constraint, an error or a lost connection:    *)
(* the session rolls back and nothing of the request remains.              *)
Abort(r) ==
    /\ req[r].pc \in {"walk", "staged"}
    /\ req' = [req EXCEPT ![r] = Closed]
    /\ UNCHANGED <<db, raced>>

(* The rows a request is about to insert: their ids are new.               *)
Pending(table) ==
    {c.key : c \in {w \in UNION {req[r].writes : r \in Requests} : w.table = table /\ w.old = None}}

IsNew(table, key) == db[table][key] = None /\ key \notin Pending(table)

(* No commit that wrote one of A overtook a commit that wrote one of B.    *)
Undisturbed(A, B) == raced \cap (A \X B) = {}

RequestsAreSound ==
    /\ \A r \in Requests :
          /\ req[r].pc \in {"new", "walk", "staged", "done"}
          /\ req[r].pc # "staged" => req[r].writes = {}
          /\ \A c, e \in req[r].writes : c.table = e.table /\ c.key = e.key => c = e
          /\ req[r].pc = "walk" => req[r].walk # None
          /\ req[r].pc \in {"new", "done"} => req[r] \in {Fresh, Closed}

=============================================================================
