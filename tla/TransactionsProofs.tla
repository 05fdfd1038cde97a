-------------------------- MODULE TransactionsProofs --------------------------
(***************************************************************************)
(* What holds of every context that commits by way of Transactions, for    *)
(* any schema and any requests: a flush writes the rows of its changes and *)
(* leaves the others, keeps the types, and leaves the columns it does not  *)
(* touch; a row that a request has read is still there, and has the columns *)
(* that no commit touched since (ReadsAreCurrent).  A commit that is not   *)
(* recorded as overtaken therefore wrote what its guards had seen.         *)
(***************************************************************************)
EXTENDS Transactions, TLAPS

(* A request is a record, also while it is closed.                         *)
RequestsTyped ==
    /\ DOMAIN req = Requests
    /\ \A r \in Requests :
          /\ DOMAIN req[r] = {"pc", "writes", "since", "walk"}
          /\ req[r].pc \in {"new", "walk", "staged", "done"}
          /\ req[r].pc # "staged" => req[r].writes = {}

(* No row is None, and the columns of two rows of a table can be mixed.    *)
IsSchema(Schema) ==
    \A table \in DOMAIN Schema :
       /\ None \notin Schema[table].rows
       /\ \A row, new \in Schema[table].rows : DOMAIN row = DOMAIN new
       /\ \A row, old, new \in Schema[table].rows :
             [f \in DOMAIN row |-> IF f \in {g \in DOMAIN new : new[g] # old[g]} THEN new[f] ELSE row[f]]
                \in Schema[table].rows

(* A change of a row of the schema, that keeps the row's id.               *)
IsChange(c, Schema) ==
    /\ DOMAIN c = {"table", "key", "old", "new"}
    /\ c.table \in DOMAIN Schema /\ c.key \in Schema[c.table].keys
    /\ c.old \in Schema[c.table].rows \cup {None} /\ c.new \in Schema[c.table].rows \cup {None}
    /\ c.old # None \/ c.new # None
    /\ Schema[c.table].kept => c.new # None
    /\ c.old # None /\ c.new # None => ("id" \in DOMAIN c.old => c.new["id"] = c.old["id"])

AreChanges(writes, Schema) ==
    /\ \A c \in writes : IsChange(c, Schema)
    /\ \A c, e \in writes : c.table = e.table /\ c.key = e.key => c = e

WritesTyped(Schema) == \A r \in Requests : AreChanges(req[r].writes, Schema)

(* The row that was read is there unless its table lost or gained rows,    *)
(* and has the columns that nobody wrote in the meantime.                  *)
IsCurrent(c, since, Schema) ==
    c.old # None /\ (Schema[c.table].kept \/ c.table \notin since) =>
        /\ SameRow(db[c.table][c.key], c.old)
        /\ \A f \in DOMAIN c.old \ since : db[c.table][c.key][f] = c.old[f]

ReadsAreCurrent(Schema) == \A r \in Requests : \A c \in req[r].writes : IsCurrent(c, req[r].since, Schema)

Shared(Schema) ==
    IsSchema(Schema) /\ HasSchema(db, Schema) /\ RequestsTyped /\ WritesTyped(Schema)

-----------------------------------------------------------------------------
LEMMA ChosenChange ==
    ASSUME NEW writes, NEW c \in writes, \A e \in writes : c.table = e.table /\ c.key = e.key => c = e
    PROVE  Changes(writes, c.table, c.key) = {c} /\ (CHOOSE e \in Changes(writes, c.table, c.key) : TRUE) = c
  BY DEF Changes

(* What a commit makes of the row of one of its changes.                   *)
LEMMA CommitWrites ==
    ASSUME NEW Schema, Shared(Schema), NEW r \in Requests, NEW admitted, NEW then, CommitTo(r, admitted, then),
           NEW c \in req[r].writes
    PROVE  db'[c.table][c.key] = Written(db[c.table][c.key], c) /\ ~Fails(db[c.table][c.key], c)
<1>1. c.table \in DOMAIN db /\ c.key \in DOMAIN db[c.table]
  BY DEF Shared, HasSchema, WritesTyped, AreChanges, IsChange
<1>2. Changes(req[r].writes, c.table, c.key) = {c} /\ (CHOOSE e \in Changes(req[r].writes, c.table, c.key) : TRUE) = c
  BY ChosenChange DEF Shared, WritesTyped, AreChanges
<1>3. db'[c.table][c.key] = Written(db[c.table][c.key], c)
  BY <1>1, <1>2 DEF CommitTo, Outcome, Flushed
<1>4. QED
  BY <1>3 DEF CommitTo, FlushFails

(* And of the others.                                                      *)
LEMMA CommitLeaves ==
    ASSUME NEW Schema, Shared(Schema), NEW r \in Requests, NEW admitted, NEW then, CommitTo(r, admitted, then),
           NEW table \in DOMAIN Schema, NEW k \in Schema[table].keys,
           \A c \in req[r].writes : c.table = table => c.key # k
    PROVE  db'[table][k] = db[table][k]
<1>1. table \in DOMAIN db /\ k \in DOMAIN db[table]
  BY DEF Shared, HasSchema
<1>2. Changes(req[r].writes, table, k) = {}
  BY DEF Changes
<1>3. QED
  BY <1>1, <1>2 DEF CommitTo, Outcome, Flushed

(* A change leaves the columns that it does not touch, the row if it does  *)
(* not touch the table, and its id.                                        *)
Leaves(new, row, table, touched) ==
    /\ table \notin touched => (new = None <=> row = None)
    /\ row # None /\ new # None =>
          /\ DOMAIN new = DOMAIN row
          /\ \A f \in DOMAIN row \ touched : new[f] = row[f]
          /\ "id" \in DOMAIN row => new["id"] = row["id"]

LEMMA WrittenRow ==
    ASSUME NEW Schema, IsSchema(Schema), NEW c, IsChange(c, Schema),
           NEW row \in Schema[c.table].rows \cup {None}, ~Fails(row, c)
    PROVE  /\ Written(row, c) \in Schema[c.table].rows \cup {None}
           /\ Schema[c.table].kept => Written(row, c) # None
           /\ Leaves(Written(row, c), row, c.table, Touched(c))
<1>1. CASE c.old = None
  BY <1>1 DEF Fails, Written, IsChange, Touched, Leaves
<1>2. CASE c.old # None /\ c.new = None
  BY <1>2 DEF Fails, Written, IsChange, Touched, Leaves
<1>3. CASE c.old # None /\ c.new # None
  <2>1. row \in Schema[c.table].rows /\ c.old \in Schema[c.table].rows /\ c.new \in Schema[c.table].rows
    BY <1>3 DEF Fails, SameRow, IsChange
  <2>2. Touched(c) = {g \in DOMAIN c.new : c.new[g] # c.old[g]}
    BY <1>3 DEF Touched
  <2>3. Written(row, c) = [f \in DOMAIN row |-> IF f \in Touched(c) THEN c.new[f] ELSE row[f]]
    BY <1>3 DEF Written, Updated
  <2>4. Written(row, c) \in Schema[c.table].rows /\ Written(row, c) # None
    BY <2>1, <2>2, <2>3 DEF IsSchema, IsChange
  <2>5. DOMAIN row = DOMAIN c.new /\ DOMAIN c.old = DOMAIN c.new
    BY <2>1 DEF IsSchema, IsChange
  <2>6. "id" \in DOMAIN row => "id" \notin Touched(c)
    BY <1>3, <2>2, <2>5 DEF IsChange
  <2>7. row # None
    BY <2>1 DEF IsSchema, IsChange
  <2>8. /\ DOMAIN Written(row, c) = DOMAIN row
        /\ \A f \in DOMAIN row \ Touched(c) : Written(row, c)[f] = row[f]
    BY <2>3
  <2>9. QED
    BY <2>4, <2>6, <2>7, <2>8 DEF Leaves
<1>4. QED
  BY <1>1, <1>2, <1>3

(* What a commit makes of any row.                                         *)
LEMMA CommitRow ==
    ASSUME NEW Schema, Shared(Schema), NEW r \in Requests, NEW admitted, NEW then, CommitTo(r, admitted, then),
           NEW table \in DOMAIN Schema, NEW k \in Schema[table].keys
    PROVE  /\ db'[table][k] \in Schema[table].rows \cup {None}
           /\ Schema[table].kept /\ db[table][k] # None => db'[table][k] # None
           /\ Leaves(db'[table][k], db[table][k], table, TouchedBy(r))
<1> DEFINE row == db[table][k]
<1>0. row \in Schema[table].rows \cup {None}
  BY DEF Shared, HasSchema
<1>1. CASE \E c \in req[r].writes : c.table = table /\ c.key = k
  <2>1. PICK c \in req[r].writes : c.table = table /\ c.key = k
    BY <1>1
  <2>2. db'[table][k] = Written(row, c) /\ ~Fails(row, c)
    BY <2>1, CommitWrites
  <2>3. IsChange(c, Schema) /\ IsSchema(Schema)
    BY DEF Shared, WritesTyped, AreChanges
  <2>4. Touched(c) \subseteq TouchedBy(r)
    BY DEF TouchedBy
  <2>5. /\ Written(row, c) \in Schema[table].rows \cup {None}
        /\ Schema[table].kept => Written(row, c) # None
        /\ Leaves(Written(row, c), row, table, Touched(c))
    BY <1>0, <2>1, <2>2, <2>3, WrittenRow
  <2>6. QED
    BY <2>2, <2>4, <2>5 DEF Leaves
<1>2. CASE ~\E c \in req[r].writes : c.table = table /\ c.key = k
  BY <1>0, <1>2, CommitLeaves DEF Leaves
<1>3. QED
  BY <1>1, <1>2

LEMMA CommitKeepsSchema ==
    ASSUME NEW Schema, Shared(Schema), NEW r \in Requests, NEW admitted, NEW then, CommitTo(r, admitted, then)
    PROVE  HasSchema(db, Schema)'
<1>1. DOMAIN db' = DOMAIN Schema
  BY DEF CommitTo, Outcome, Flushed, Shared, HasSchema
<1>2. ASSUME NEW table \in DOMAIN Schema PROVE db'[table] \in [Schema[table].keys -> Schema[table].rows \cup {None}]
  <2>1. db'[table] = [key \in Schema[table].keys |-> db'[table][key]]
    BY DEF CommitTo, Outcome, Flushed, Shared, HasSchema
  <2>2. QED
    BY <2>1, CommitRow
<1>3. QED
  BY <1>1, <1>2 DEF HasSchema

(* What was current stays so but for what the commit touches.              *)
LEMMA CommitKeepsCurrent ==
    ASSUME NEW Schema, Shared(Schema), NEW r \in Requests, NEW admitted, NEW then, CommitTo(r, admitted, then),
           NEW c, IsChange(c, Schema), NEW since, IsCurrent(c, since, Schema), NEW later, later = since \cup TouchedBy(r)
    PROVE  IsCurrent(c, later, Schema)'
<1>1. c.table \in DOMAIN Schema /\ c.key \in Schema[c.table].keys /\ c.old \in Schema[c.table].rows \cup {None}
  BY DEF IsChange
<1> DEFINE row == db[c.table][c.key]
           new == db'[c.table][c.key]
<1>2. /\ Schema[c.table].kept /\ row # None => new # None
      /\ Leaves(new, row, c.table, TouchedBy(r))
  BY <1>1, CommitRow
<1>3. SUFFICES ASSUME c.old # None, Schema[c.table].kept \/ c.table \notin later
               PROVE  SameRow(new, c.old) /\ \A f \in DOMAIN c.old \ later : new[f] = c.old[f]
  BY DEF IsCurrent
<1>4. SameRow(row, c.old) /\ \A f \in DOMAIN c.old \ since : row[f] = c.old[f]
  BY <1>3 DEF IsCurrent
<1>5. row \in Schema[c.table].rows /\ c.old \in Schema[c.table].rows
  BY <1>1, <1>3, <1>4 DEF Shared, HasSchema, SameRow
<1>6. DOMAIN row = DOMAIN c.old
  BY <1>1, <1>5 DEF Shared, IsSchema
<1>7. new # None
  BY <1>2, <1>3, <1>4 DEF Leaves, SameRow
<1>8. QED
  BY <1>2, <1>4, <1>6, <1>7 DEF Leaves, SameRow

LEMMA CommitKeepsReadsCurrent ==
    ASSUME NEW Schema, Shared(Schema), NEW r \in Requests, NEW admitted, NEW then, CommitTo(r, admitted, then),
           NEW s \in Requests \ {r}, NEW c \in req[s].writes, IsCurrent(c, req[s].since, Schema)
    PROVE  /\ req'[s].writes = req[s].writes /\ req'[s].since = req[s].since \cup TouchedBy(r)
           /\ IsCurrent(c, req[s].since, Schema)'
<1>1. req[s].pc = "staged" /\ IsChange(c, Schema)
  BY DEF Shared, RequestsTyped, WritesTyped, AreChanges
<1>2. req'[s] = [req[s] EXCEPT !.since = req[s].since \cup TouchedBy(r)]
  BY <1>1 DEF CommitTo
<1>3. req'[s].since = req[s].since \cup TouchedBy(r) /\ req'[s].writes = req[s].writes
  BY <1>2 DEF Shared, RequestsTyped
<1>4. ASSUME NEW later, later = req'[s].since PROVE IsCurrent(c, later, Schema)'
  BY <1>1, <1>3, <1>4, CommitKeepsCurrent
<1>5. QED
  BY <1>3, <1>4

(* A row that was read and not overtaken takes the columns of its change.  *)
LEMMA CleanColumn ==
    ASSUME NEW Schema, Shared(Schema), NEW r \in Requests, NEW admitted, NEW then, CommitTo(r, admitted, then),
           NEW c \in req[r].writes, c.old # None, c.new # None, NEW since, IsCurrent(c, since, Schema),
           Schema[c.table].kept \/ c.table \notin since, NEW f \in DOMAIN c.new, f \notin since
    PROVE  db'[c.table][c.key][f] = c.new[f]
<1> DEFINE row == db[c.table][c.key]
<1>1. IsChange(c, Schema) /\ IsSchema(Schema) /\ HasSchema(db, Schema)
  BY DEF Shared, WritesTyped, AreChanges
<1>2. SameRow(row, c.old) /\ \A g \in DOMAIN c.old \ since : row[g] = c.old[g]
  BY DEF IsCurrent
<1>3. row \in Schema[c.table].rows /\ c.old \in Schema[c.table].rows /\ c.new \in Schema[c.table].rows
  BY <1>1, <1>2 DEF IsChange, HasSchema, SameRow
<1>4. DOMAIN row = DOMAIN c.new /\ DOMAIN c.old = DOMAIN c.new
  BY <1>1, <1>3 DEF IsChange, IsSchema
<1>5. db'[c.table][c.key] = Updated(row, c) /\ Touched(c) = {g \in DOMAIN c.new : c.new[g] # c.old[g]}
  BY CommitWrites DEF Written, Touched
<1>6. QED
  BY <1>2, <1>4, <1>5 DEF Updated

(* What becomes of the requests.                                           *)
LEMMA CommitRequests ==
    ASSUME NEW Schema, Shared(Schema), NEW r \in Requests, NEW admitted, NEW then, CommitTo(r, admitted, then)
    PROVE  /\ DOMAIN req' = Requests /\ req'[r] = then
           /\ \A s \in Requests \ {r} :
                 /\ DOMAIN req'[s] = {"pc", "writes", "since", "walk"}
                 /\ req'[s].pc = req[s].pc /\ req'[s].writes = req[s].writes /\ req'[s].walk = req[s].walk
                 /\ req[s].pc \in {"walk", "staged"} => req'[s].since = req[s].since \cup TouchedBy(r)
                 /\ req[s].pc \in {"new", "done"} => req'[s] = req[s]
<1>1. DOMAIN req' = Requests /\ req'[r] = then
  BY DEF CommitTo
<1>2. ASSUME NEW s \in Requests \ {r}
      PROVE  /\ DOMAIN req'[s] = {"pc", "writes", "since", "walk"}
             /\ req'[s].pc = req[s].pc /\ req'[s].writes = req[s].writes /\ req'[s].walk = req[s].walk
             /\ req[s].pc \in {"walk", "staged"} => req'[s].since = req[s].since \cup TouchedBy(r)
             /\ req[s].pc \in {"new", "done"} => req'[s] = req[s]
  <2>1. DOMAIN req[s] = {"pc", "writes", "since", "walk"} /\ req[s].pc \in {"new", "walk", "staged", "done"}
    BY DEF Shared, RequestsTyped
  <2>2. CASE req[s].pc \in {"walk", "staged"}
    <3>1. req'[s] = [req[s] EXCEPT !.since = @ \cup TouchedBy(r)]
      BY <2>2 DEF CommitTo
    <3>2. QED
      BY <2>1, <2>2, <3>1
  <2>3. CASE req[s].pc \in {"new", "done"}
    <3>1. req'[s] = req[s]
      BY <2>3 DEF CommitTo
    <3>2. QED
      BY <2>1, <2>3, <3>1
  <2>4. QED
    BY <2>1, <2>2, <2>3
<1>3. QED
  BY <1>1, <1>2

LEMMA CommitKeepsShared ==
    ASSUME NEW Schema, Shared(Schema), NEW r \in Requests, NEW admitted, NEW then, CommitTo(r, admitted, then),
           DOMAIN then = {"pc", "writes", "since", "walk"}, then.pc \in {"new", "walk", "staged", "done"},
           then.pc # "staged" => then.writes = {}, AreChanges(then.writes, Schema)
    PROVE  Shared(Schema)'
<1>1. HasSchema(db, Schema)'
  BY CommitKeepsSchema
<1>2. RequestsTyped'
  BY CommitRequests DEF Shared, RequestsTyped
<1>3. WritesTyped(Schema)'
  BY CommitRequests DEF Shared, WritesTyped
<1>4. QED
  BY <1>1, <1>2, <1>3 DEF Shared

(* A commit that stays undisturbed wrote none of A or overtook none of B.  *)
LEMMA CommitRaces ==
    ASSUME NEW r, NEW admitted, NEW then, CommitTo(r, admitted, then), NEW A, NEW B, Undisturbed(A, B)'
    PROVE  Undisturbed(A, B) /\ (TouchedBy(r) \cap A = {} \/ req[r].since \cap B = {})
<1>1. raced' = raced \cup (TouchedBy(r) \X req[r].since) /\ raced' \cap (A \X B) = {}
  BY DEF CommitTo, Undisturbed
<1>2. Undisturbed(A, B)
  BY <1>1 DEF Undisturbed
<1>3. ASSUME NEW f \in TouchedBy(r) \cap A, NEW g \in req[r].since \cap B PROVE FALSE
  <2>1. <<f, g>> \in raced' \cap (A \X B)
    BY <1>1, <1>3
  <2>2. QED
    BY <1>1, <2>1
<1>4. QED
  BY <1>2, <1>3

-----------------------------------------------------------------------------
(* The other steps change one request and nothing else.                    *)
Only(r) ==
    /\ UNCHANGED <<db, raced>>
    /\ DOMAIN req' = Requests
    /\ \A s \in Requests \ {r} : req'[s] = req[s]

(* A row that is about to be changed is the one that is there.             *)
Reads(c) == c.old = None \/ c.old = db[c.table][c.key]

LEMMA StagingKeepsShared ==
    ASSUME NEW Schema, Shared(Schema), ReadsAreCurrent(Schema), RequestsAreSound, NEW r \in Requests,
           NEW writes, NEW marks, StageMarked(r, writes, marks), AreChanges(writes, Schema), \A c \in writes : Reads(c)
    PROVE  /\ Shared(Schema)' /\ ReadsAreCurrent(Schema)' /\ RequestsAreSound'
           /\ Only(r) /\ req'[r].writes = writes /\ req'[r].since = marks
<1>1. req[r].pc = "new" /\ DOMAIN req = Requests /\ DOMAIN req[r] = {"pc", "writes", "since", "walk"}
  BY DEF Shared, RequestsTyped, StageMarked
<1>2. /\ Only(r) /\ DOMAIN req'[r] = DOMAIN req[r]
      /\ req'[r].pc = "staged" /\ req'[r].writes = writes /\ req'[r].since = marks
  BY <1>1 DEF StageMarked, Only
<1>3. Shared(Schema)'
  BY <1>1, <1>2 DEF Only, Shared, RequestsTyped, WritesTyped, HasSchema
<1>4. ReadsAreCurrent(Schema)'
  <2>1. \A c \in writes : IsCurrent(c, marks, Schema)
    BY DEF Reads, IsCurrent, SameRow
  <2>2. QED
    BY <1>2, <2>1 DEF Only, ReadsAreCurrent, IsCurrent
<1>5. RequestsAreSound'
  BY <1>2 DEF Only, RequestsAreSound, AreChanges
<1>6. QED
  BY <1>2, <1>3, <1>4, <1>5

LEMMA AbortKeepsShared ==
    ASSUME NEW Schema, Shared(Schema), ReadsAreCurrent(Schema), RequestsAreSound, NEW r \in Requests, Abort(r)
    PROVE  /\ Shared(Schema)' /\ ReadsAreCurrent(Schema)' /\ RequestsAreSound'
           /\ Only(r) /\ req'[r].writes = {} /\ req'[r].since = {}
<1>1. DOMAIN Closed = {"pc", "writes", "since", "walk"} /\ Closed.pc = "done" /\ Closed.writes = {} /\ Closed.since = {}
  BY DEF Closed, Fresh
<1>2. Only(r) /\ req'[r] = Closed
  BY DEF Shared, RequestsTyped, Abort, Only
<1>3. Shared(Schema)'
  BY <1>1, <1>2 DEF Only, Shared, RequestsTyped, WritesTyped, HasSchema, AreChanges
<1>4. ReadsAreCurrent(Schema)'
  BY <1>1, <1>2 DEF Only, ReadsAreCurrent, IsCurrent
<1>5. RequestsAreSound'
  BY <1>1, <1>2 DEF Only, RequestsAreSound
<1>6. QED
  BY <1>1, <1>2, <1>3, <1>4, <1>5

(* A change whose row was read again.                                      *)
Again(e, c) ==
    /\ DOMAIN e = DOMAIN c /\ e.table = c.table /\ e.key = c.key /\ e.new = c.new
    /\ e.old # c.old => c.old # None /\ c.new # None /\ e.old = db[c.table][c.key] /\ SameRow(e.old, c.old)

LEMMA Rereads ==
    ASSUME NEW Schema, Shared(Schema), NEW r \in Requests, NEW Unversioned, Reload(r, Unversioned)
    PROVE  /\ Only(r) /\ DOMAIN req'[r] = DOMAIN req[r] /\ req[r].pc = "staged" /\ req'[r].pc = "staged"
           /\ req'[r].since = req[r].since /\ req'[r].walk = req[r].walk
           /\ AreChanges(req'[r].writes, Schema)
           /\ \A e \in req'[r].writes : \E c \in req[r].writes : Again(e, c) /\ (c.table \notin Unversioned => e = c)
           /\ \A c \in req[r].writes : \E e \in req'[r].writes : Again(e, c) /\ (c.table \notin Unversioned => e = c)
<1> DEFINE Reread(c) == IF c.table \in Unversioned /\ None \notin {c.old, c.new}
                        THEN [c EXCEPT !.old = db[c.table][c.key]] ELSE c
           fresh == {Reread(c) : c \in req[r].writes}
<1>1. /\ req[r].pc = "staged" /\ DOMAIN req = Requests /\ DOMAIN req[r] = {"pc", "writes", "since", "walk"}
      /\ req' = [req EXCEPT ![r].writes = fresh] /\ UNCHANGED <<db, raced>>
      /\ AreChanges(req[r].writes, Schema)
  BY DEF Shared, RequestsTyped, WritesTyped, Reload
<1>2. ASSUME NEW c \in req[r].writes
      PROVE  /\ Again(Reread(c), c) /\ (c.table \notin Unversioned => Reread(c) = c)
             /\ IsChange(Reread(c), Schema)
  <2>1. IsChange(c, Schema)
    BY <1>1 DEF AreChanges
  <2>2. CASE c.table \in Unversioned /\ None \notin {c.old, c.new}
    <3> DEFINE row == db[c.table][c.key]
    <3>1. SameRow(row, c.old)
      BY <2>2 DEF Reload
    <3>2. /\ DOMAIN Reread(c) = DOMAIN c /\ Reread(c).table = c.table /\ Reread(c).key = c.key
          /\ Reread(c).new = c.new /\ Reread(c).old = row
      BY <2>1, <2>2 DEF IsChange
    <3>3. row \in Schema[c.table].rows /\ c.old \in Schema[c.table].rows /\ DOMAIN row = DOMAIN c.old
      BY <2>1, <2>2, <3>1 DEF IsChange, Shared, HasSchema, IsSchema, SameRow
    <3>4. "id" \in DOMAIN row => row.id = c.new["id"]
      BY <2>1, <2>2, <3>1, <3>3 DEF IsChange, SameRow
    <3> HIDE DEF Reread
    <3>5. IsChange(Reread(c), Schema)
      BY <2>1, <2>2, <3>1, <3>2, <3>3, <3>4 DEF IsChange, SameRow
    <3>6. QED
      BY <2>2, <3>1, <3>2, <3>5 DEF Again
  <2>3. CASE ~(c.table \in Unversioned /\ None \notin {c.old, c.new})
    BY <2>1, <2>3 DEF Again
  <2>4. QED
    BY <2>2, <2>3
<1>3. /\ Only(r) /\ DOMAIN req'[r] = DOMAIN req[r] /\ req'[r].pc = "staged" /\ req'[r].since = req[r].since
      /\ req'[r].walk = req[r].walk /\ req'[r].writes = fresh
  BY <1>1 DEF Only
<1>4. AreChanges(fresh, Schema)
  <2>1. \A e \in fresh : IsChange(e, Schema)
    BY <1>2
  <2>2. ASSUME NEW c \in req[r].writes, NEW d \in req[r].writes,
               Reread(c).table = Reread(d).table, Reread(c).key = Reread(d).key
        PROVE  Reread(c) = Reread(d)
    BY <1>1, <1>2, <2>2 DEF Again, AreChanges
  <2> HIDE DEF Reread
  <2>3. \A e, f \in fresh : e.table = f.table /\ e.key = f.key => e = f
    BY <2>2
  <2>4. QED
    BY <2>1, <2>3 DEF AreChanges
<1>5. /\ \A e \in fresh : \E c \in req[r].writes : Again(e, c) /\ (c.table \notin Unversioned => e = c)
      /\ \A c \in req[r].writes : \E e \in fresh : Again(e, c) /\ (c.table \notin Unversioned => e = c)
  BY <1>2
<1> HIDE DEF fresh
<1>6. QED
  BY <1>1, <1>3, <1>4, <1>5

(* What was read again is as current as what was read before.              *)
LEMMA RereadIsCurrent ==
    ASSUME NEW Schema, NEW c, NEW e, Again(e, c), NEW since, IsCurrent(c, since, Schema)
    PROVE  IsCurrent(e, since, Schema)
  BY DEF Again, IsCurrent, SameRow

LEMMA ReloadKeepsShared ==
    ASSUME NEW Schema, Shared(Schema), ReadsAreCurrent(Schema), RequestsAreSound, NEW r \in Requests,
           NEW Unversioned, Reload(r, Unversioned)
    PROVE  /\ Shared(Schema)' /\ ReadsAreCurrent(Schema)' /\ RequestsAreSound'
           /\ Only(r) /\ req'[r].since = req[r].since
           /\ \A e \in req'[r].writes : \E c \in req[r].writes : Again(e, c) /\ (c.table \notin Unversioned => e = c)
           /\ \A c \in req[r].writes : \E e \in req'[r].writes : Again(e, c) /\ (c.table \notin Unversioned => e = c)
<1>1. /\ Only(r) /\ DOMAIN req'[r] = DOMAIN req[r] /\ req[r].pc = "staged" /\ req'[r].pc = "staged"
      /\ req'[r].since = req[r].since /\ req'[r].walk = req[r].walk /\ AreChanges(req'[r].writes, Schema)
      /\ \A e \in req'[r].writes : \E c \in req[r].writes : Again(e, c) /\ (c.table \notin Unversioned => e = c)
      /\ \A c \in req[r].writes : \E e \in req'[r].writes : Again(e, c) /\ (c.table \notin Unversioned => e = c)
  BY Rereads
<1>2. Shared(Schema)'
  BY <1>1 DEF Only, Shared, RequestsTyped, WritesTyped, HasSchema
<1>3. ReadsAreCurrent(Schema)'
  <2>1. \A e \in req'[r].writes : IsCurrent(e, req[r].since, Schema)
    BY <1>1, RereadIsCurrent DEF ReadsAreCurrent
  <2>2. QED
    BY <1>1, <2>1 DEF Only, ReadsAreCurrent, IsCurrent
<1>4. RequestsAreSound'
  BY <1>1 DEF Only, RequestsAreSound, AreChanges
<1>5. QED
  BY <1>1, <1>2, <1>3, <1>4

(* A commit keeps what is typed; the row that is there afterwards is the   *)
(* old one, a new one, or the old one with the columns of one change.      *)
LEMMA CommitKeepsRequests ==
    ASSUME NEW Schema, Shared(Schema), ReadsAreCurrent(Schema), RequestsAreSound, NEW r \in Requests,
           NEW admitted, CommitUnder(r, admitted)
    PROVE  /\ Shared(Schema)' /\ ReadsAreCurrent(Schema)' /\ RequestsAreSound'
           /\ req'[r].writes = {} /\ req'[r].since = {}
           /\ \A s \in Requests \ {r} :
                 /\ req'[s].writes = req[s].writes
                 /\ req[s].writes # {} => req'[s].since = req[s].since \cup TouchedBy(r)
<1>0. CommitTo(r, admitted, Closed)
  BY DEF CommitUnder
<1>1. /\ DOMAIN Closed = {"pc", "writes", "since", "walk"}
      /\ Closed.pc = "done" /\ Closed.writes = {} /\ Closed.since = {}
  BY DEF Closed, Fresh
<1>2. /\ DOMAIN req' = Requests /\ req'[r] = Closed
      /\ \A s \in Requests \ {r} :
            /\ req'[s].pc = req[s].pc /\ req'[s].writes = req[s].writes /\ req'[s].walk = req[s].walk
            /\ req[s].pc \in {"walk", "staged"} => req'[s].since = req[s].since \cup TouchedBy(r)
            /\ req[s].pc \in {"new", "done"} => req'[s] = req[s]
            /\ req[s].pc # "staged" => req[s].writes = {}
  BY <1>0, CommitRequests DEF Shared, RequestsTyped
<1>3. Shared(Schema)'
  BY <1>0, <1>1, CommitKeepsShared DEF AreChanges
<1>4. ReadsAreCurrent(Schema)'
  <2>1. ASSUME NEW s \in Requests, NEW c \in req'[s].writes PROVE IsCurrent(c, req[s].since, Schema)'
    <3>1. s # r /\ c \in req[s].writes
      BY <1>1, <1>2, <2>1
    <3>2. IsCurrent(c, req[s].since, Schema)
      BY <3>1 DEF ReadsAreCurrent
    <3>3. QED
      BY <1>0, <3>1, <3>2, CommitKeepsReadsCurrent
  <2>2. QED
    BY <2>1 DEF ReadsAreCurrent
<1>5. RequestsAreSound'
  BY <1>1, <1>2 DEF RequestsAreSound
<1>6. QED
  BY <1>1, <1>2, <1>3, <1>4, <1>5

(* A row that is another one after the commit, and the change it comes of. *)
ComesOf(c, table, k, Schema) ==
    /\ c.table = table /\ c.key = k
    /\ c.old = None => db[table][k] = None /\ db'[table][k] = c.new /\ c.new \in Schema[table].rows
    /\ c.old # None /\ c.new = None => db'[table][k] = None
    /\ c.old # None /\ c.new # None =>
          /\ c.old \in Schema[table].rows /\ c.new \in Schema[table].rows /\ db[table][k] \in Schema[table].rows
          /\ db'[table][k] \in Schema[table].rows
          /\ SameRow(db[table][k], c.old)
          /\ \A f \in DOMAIN c.new : db'[table][k][f] = IF c.new[f] # c.old[f] THEN c.new[f] ELSE db[table][k][f]

LEMMA CommitRowBy ==
    ASSUME NEW Schema, Shared(Schema), NEW r \in Requests, NEW admitted, NEW then, CommitTo(r, admitted, then),
           NEW table \in DOMAIN Schema, NEW k \in Schema[table].keys, db'[table][k] # db[table][k]
    PROVE  \E c \in req[r].writes : ComesOf(c, table, k, Schema)
<1>1. PICK c \in req[r].writes : c.table = table /\ c.key = k
  BY CommitLeaves
<1>2. db'[table][k] = Written(db[table][k], c) /\ ~Fails(db[table][k], c)
  BY <1>1, CommitWrites
<1>3. IsChange(c, Schema) /\ IsSchema(Schema) /\ db[table][k] \in Schema[table].rows \cup {None}
      /\ db'[table][k] \in Schema[table].rows \cup {None}
  BY CommitRow DEF Shared, WritesTyped, AreChanges, HasSchema
<1>4. CASE c.old = None
  BY <1>1, <1>2, <1>3, <1>4 DEF ComesOf, Written, Fails, IsChange
<1>5. CASE c.old # None /\ c.new = None
  BY <1>1, <1>2, <1>5 DEF ComesOf, Written
<1>6. CASE c.old # None /\ c.new # None
  <2>1. db[table][k] \in Schema[table].rows /\ c.old \in Schema[table].rows /\ c.new \in Schema[table].rows
        /\ SameRow(db[table][k], c.old)
    BY <1>1, <1>2, <1>3, <1>6 DEF Fails, SameRow, IsChange
  <2>2. DOMAIN db[table][k] = DOMAIN c.new
    BY <1>3, <2>1 DEF IsSchema
  <2>3. db'[table][k] = [f \in DOMAIN c.new |-> IF c.new[f] # c.old[f] THEN c.new[f] ELSE db[table][k][f]]
    BY <1>2, <1>6, <2>2 DEF Written, Updated, Touched
  <2>4. db'[table][k] \in Schema[table].rows
    BY <1>2, <1>3, <1>6, <2>1, <2>2 DEF Written, Updated, Touched, IsSchema
  <2>5. QED
    BY <1>1, <1>6, <2>1, <2>3, <2>4 DEF ComesOf
<1>7. QED
  BY <1>1, <1>4, <1>5, <1>6

(* Columns that are bound to each other keep what they were, or are those  *)
(* of a change that had read them all as they were.                        *)
LEMMA CommitColumns ==
    ASSUME NEW Schema, Shared(Schema), ReadsAreCurrent(Schema), NEW r \in Requests, NEW admitted, NEW then,
           CommitTo(r, admitted, then), NEW table \in DOMAIN Schema, NEW k \in Schema[table].keys, db'[table][k] # None,
           NEW A, \A row \in Schema[table].rows : A \subseteq DOMAIN row,
           \/ TouchedBy(r) \cap A = {}
           \/ req[r].since \cap A = {} /\ (Schema[table].kept \/ table \notin req[r].since)
    PROVE  \/ db[table][k] # None /\ \A f \in A : db'[table][k][f] = db[table][k][f]
           \/ \E c \in req[r].writes :
                 c.table = table /\ c.key = k /\ c.new # None /\ \A f \in A : db'[table][k][f] = c.new[f]
<1>1. CASE db'[table][k] = db[table][k]
  BY <1>1
<1>2. CASE db'[table][k] # db[table][k]
  <2>1. PICK c \in req[r].writes : ComesOf(c, table, k, Schema)
    BY <1>2, CommitRowBy
  <2>2. c.table = table /\ c.key = k /\ IsCurrent(c, req[r].since, Schema) /\ c.new # None
    BY <2>1 DEF ComesOf, ReadsAreCurrent, Shared, WritesTyped, AreChanges, IsChange
  <2>3. CASE c.old = None
    BY <2>1, <2>2, <2>3 DEF ComesOf
  <2>4. CASE c.old # None
    <3>1. /\ c.old \in Schema[table].rows /\ c.new \in Schema[table].rows /\ db[table][k] \in Schema[table].rows
          /\ \A f \in DOMAIN c.new : db'[table][k][f] = IF c.new[f] # c.old[f] THEN c.new[f] ELSE db[table][k][f]
      BY <2>1, <2>2, <2>4 DEF ComesOf
    <3>2. A \subseteq DOMAIN c.new /\ A \subseteq DOMAIN c.old /\ db[table][k] # None
      BY <3>1 DEF Shared, IsSchema
    <3>3. CASE TouchedBy(r) \cap A = {}
      <4>1. \A f \in A : c.new[f] = c.old[f]
        BY <2>2, <2>4, <3>2, <3>3 DEF TouchedBy, Touched
      <4>2. QED
        BY <3>1, <3>2, <4>1
    <3>4. CASE req[r].since \cap A = {} /\ (Schema[table].kept \/ table \notin req[r].since)
      <4>1. \A f \in A : db[table][k][f] = c.old[f]
        BY <2>2, <2>4, <3>2, <3>4 DEF IsCurrent
      <4>2. QED
        BY <2>2, <3>1, <3>2, <4>1
    <3>5. QED
      BY <3>3, <3>4
  <2>5. QED
    BY <2>3, <2>4
<1>3. QED
  BY <1>1, <1>2
=============================================================================
