------------------------ MODULE TicketLifecycleProofs ------------------------
(***************************************************************************)
(* TicketLifecycle for every number of organisations, channels, tickets,   *)
(* requests and accounts: its invariants, and that it implements           *)
(* TicketDesk.                                                             *)
(*                                                                         *)
(* The inductive invariant turns on one number.  The audit trail of a      *)
(* ticket grows with every commit and no version ever exceeds it, so a     *)
(* request whose base row has the version `audit[t]` was checked against   *)
(* the row that is still there: only such a commit can leave the ticket    *)
(* agreed, and it is a legal move of the row it replaces.                  *)
(***************************************************************************)
EXTENDS TicketLifecycle, TLAPS

(* The domain transition that produced `entity` from `row`, version aside. *)
SansVersion(entity, row) == [entity EXCEPT !.version = row.version]

IsMove(row, e) ==
    \/ CanClaim(row) /\ \E who \in TicketActor : e = Claimed(row, who)
    \/ CanUnclaim(row) /\ e = Unclaimed(row)
    \/ CanTransfer(row) /\ \E who \in TicketActor : e = Transferred(row, who)
    \/ CanClose(row) /\ e = Closed(row)

SameTicket(row, other) ==
    row.org = other.org /\ row.channel = other.channel /\ row.number = other.number

VersionsAreAudited ==
    \A t \in Tickets : Exists(t) => tickets[t].version =< audit[t]

Updating(r) == Busy(r, "loaded") \/ Busy(r, "checked")

(* An open update: its entity is one version ahead of its base once it has *)
(* been checked, and a base that nothing has overtaken is the current row. *)
UpdateIsSound(r) ==
    LET t == txn[r].ticket IN
    /\ Exists(t)
    /\ SameTicket(txn[r].entity, tickets[t])
    /\ SameTicket(txn[r].base, tickets[t])
    /\ txn[r].base.version =< audit[t]
    /\ Busy(r, "loaded")  => txn[r].entity.version = txn[r].base.version
    /\ Busy(r, "checked") => txn[r].entity.version = txn[r].base.version + 1
    /\ txn[r].base.version = audit[t] =>
          /\ txn[r].base = tickets[t]
          /\ IsMove(txn[r].base, SansVersion(txn[r].entity, txn[r].base))

UpdatesAreSound == \A r \in Requests : Updating(r) => UpdateIsSound(r)

(* An open creation holds the sequence lock of its organisation, the next  *)
(* number and a ticket id of its own.                                      *)
CreationIsSound(r) ==
    /\ ~ Exists(txn[r].ticket)
    /\ \E o \in Orgs, c \in Channels : txn[r].entity = Opened(o, c, sequence[o] + 1)
    /\ \A q \in Requests : Busy(q, "numbered") =>
          ((txn[q].entity.org = txn[r].entity.org \/ txn[q].ticket = txn[r].ticket)
              => q = r)

CreationsAreSound == \A r \in Requests : Busy(r, "numbered") => CreationIsSound(r)

NumbersAreIssued ==
    \A t \in Tickets : Exists(t) => tickets[t].number =< sequence[tickets[t].org]

StoredNumbersAreDistinct ==
    \A t, u \in Tickets :
        (Exists(t) /\ Exists(u) /\ tickets[t].org = tickets[u].org
             /\ tickets[t].number = tickets[u].number) => t = u

Inductive ==
    /\ TypeOK
    /\ VersionsAreAudited
    /\ UpdatesAreSound
    /\ CreationsAreSound
    /\ NumbersAreIssued
    /\ StoredNumbersAreDistinct
    /\ NumbersHaveNoGap
    /\ OneActivePerChannel
    /\ AgreedTicketsAreCoherent
    /\ ActiveTicketIsNewest

-------------------------------------------------------------------------------
(* Rows and transitions *)

(* The UPDATE statement stores a row, with the entity's version if that is  *)
(* not the base's, and the whole entity if nothing overtook the base.       *)
LEMMA WrittenIsRow ==
    ASSUME NEW row \in Row, NEW base \in Row, NEW entity \in Row
    PROVE  /\ Written(row, base, entity) \in Row
           /\ base = row => Written(row, base, entity) = entity
           /\ entity.version # base.version
                 => Written(row, base, entity).version = entity.version
           /\ SameTicket(entity, row) /\ SameTicket(base, row)
                 => SameTicket(Written(row, base, entity), row)
  <1> DEFINE new == Written(row, base, entity)
  <1>1. new \in Row
    BY DEF Written, Columns, Row
  <1>2. ASSUME base = row PROVE new = entity
    BY <1>2, <1>1 DEF Written, Columns, Row
  <1>3. entity.version # base.version => new.version = entity.version
    BY DEF Written, Columns
  <1>4. SameTicket(entity, row) /\ SameTicket(base, row) => SameTicket(new, row)
    BY DEF Written, Columns, SameTicket
  <1> QED BY <1>1, <1>2, <1>3, <1>4

(* What the four domain transitions do to a row. *)
LEMMA TransitionsKeepTheTicket ==
    ASSUME NEW row \in Row, NEW e, IsMove(row, e)
    PROVE  /\ e \in Row
           /\ SameTicket(e, row)
           /\ e.version = row.version
           /\ Active(e) => Active(row)
           /\ Coherent(row) => Coherent(e)
  <1>1. CASE CanClaim(row) /\ \E who \in TicketActor : e = Claimed(row, who)
    BY <1>1 DEF CanClaim, Claimed, TicketActor, Row, Status, SameTicket, Active, Coherent
  <1>2. CASE CanUnclaim(row) /\ e = Unclaimed(row)
    BY <1>2 DEF CanUnclaim, Unclaimed, Row, Status, SameTicket, Active, Coherent
  <1>3. CASE CanTransfer(row) /\ \E who \in TicketActor : e = Transferred(row, who)
    BY <1>3 DEF CanTransfer, Transferred, TicketActor, Row, Status, SameTicket, Active, Coherent
  <1>4. CASE CanClose(row) /\ e = Closed(row)
    BY <1>4 DEF CanClose, Closed, TicketActor, Row, Status, SameTicket, Active, Coherent
  <1> QED BY <1>1, <1>2, <1>3, <1>4 DEF IsMove

LEMMA OpenedIsRow ==
    ASSUME NEW o \in Orgs, NEW c \in Channels, NEW n \in Nat \ {0}
    PROVE  Opened(o, c, n) \in Row /\ Coherent(Opened(o, c, n)) /\ Active(Opened(o, c, n))
  BY DEF Opened, Row, Status, Coherent, Active

-------------------------------------------------------------------------------
(* The inductive invariant, one lemma per kind of step *)

LEMMA InitInductive == Init => Inductive
  <1> SUFFICES ASSUME Init PROVE Inductive
    OBVIOUS
  <1> USE DEF Init
  <1>1. TypeOK
    BY DEF TypeOK
  <1>2. \A t \in Tickets : ~ Exists(t)
    BY DEF Exists
  <1>3. \A r \in Requests : \A pc \in {"loaded", "checked", "numbered"} : ~ Busy(r, pc)
    BY DEF Busy
  <1>4. NumbersHaveNoGap
    BY DEF NumbersHaveNoGap
  <1> QED
    BY <1>1, <1>2, <1>3, <1>4
       DEF Inductive, VersionsAreAudited, UpdatesAreSound, Updating, CreationsAreSound,
           NumbersAreIssued, StoredNumbersAreDistinct, OneActivePerChannel,
           AgreedTicketsAreCoherent, Agreed, ActiveTicketIsNewest

(* The parts of the invariant that speak of the tables only. *)
TablesAreSound ==
    /\ VersionsAreAudited
    /\ NumbersAreIssued
    /\ StoredNumbersAreDistinct
    /\ NumbersHaveNoGap
    /\ OneActivePerChannel
    /\ AgreedTicketsAreCoherent
    /\ ActiveTicketIsNewest

LEMMA TablesUnchanged ==
    ASSUME TablesAreSound, UNCHANGED <<tickets, sequence, audit>>
    PROVE  TablesAreSound'
  BY DEF TablesAreSound, VersionsAreAudited, NumbersAreIssued, StoredNumbersAreDistinct,
         NumbersHaveNoGap, OneActivePerChannel, AgreedTicketsAreCoherent,
         ActiveTicketIsNewest, Exists, Agreed, Disputed

(* get_by_id and the domain method: the new entity is a move of its row. *)
LEMMA HoldInductive ==
    ASSUME Inductive, NEW r \in Requests, NEW t \in Tickets, NEW e,
           txn[r] = None, Exists(t), IsMove(tickets[t], e), Holds(r, t, e)
    PROVE  Inductive'
  <1> USE DEF Inductive
  <1>1. tickets[t] \in Row
    BY DEF TypeOK, Exists
  <1>2. /\ e \in Row
        /\ SameTicket(e, tickets[t])
        /\ e.version = tickets[t].version
    BY <1>1, TransitionsKeepTheTicket
  <1>3. TypeOK'
    BY <1>1, <1>2 DEF TypeOK, Holds, Txn
  <1>4. TablesAreSound'
    BY TablesUnchanged DEF TablesAreSound, Holds
  <1>5. /\ txn'[r] # None
        /\ txn'[r] = [pc |-> "loaded", ticket |-> t, entity |-> e, base |-> tickets[t]]
        /\ \A q \in Requests : q # r => txn'[q] = txn[q]
    BY <1>3, <1>1, <1>2, NoneAssumption DEF TypeOK, Holds, Txn
  <1>6. UpdatesAreSound'
    <2> SUFFICES ASSUME NEW q \in Requests, Updating(q)'
                 PROVE  UpdateIsSound(q)'
      BY DEF UpdatesAreSound
    <2>1. CASE q # r
      BY <2>1, <1>5 DEF UpdatesAreSound, UpdateIsSound, Updating, Busy, Holds, Exists, SameTicket
    <2>2. CASE q = r
      <3>1. SansVersion(e, tickets[t]) = e
        BY <1>1, <1>2 DEF SansVersion, Row
      <3>2. SameTicket(tickets[t], tickets[t]) /\ tickets[t].version =< audit[t]
        BY DEF SameTicket, VersionsAreAudited
      <3> QED BY <2>2, <3>1, <3>2, <1>5, <1>2 DEF UpdateIsSound, Holds, Busy, Exists, SameTicket
    <2> QED BY <2>1, <2>2
  <1>7. CreationsAreSound'
    BY <1>5 DEF CreationsAreSound, CreationIsSound, Busy, Holds, Exists
  <1> QED BY <1>3, <1>4, <1>6, <1>7 DEF TablesAreSound

(* update(): the entity passes the check only with the current version, so  *)
(* if nothing has overtaken the row it is still the row it was loaded from. *)
LEMMA CheckInductive ==
    ASSUME Inductive, NEW r \in Requests, Check(r)
    PROVE  Inductive'
  <1> USE DEF Inductive
  <1> DEFINE t == txn[r].ticket
             row == tickets[t]
             entity == txn[r].entity
             next == [entity EXCEPT !.version = @ + 1]
             checked == [pc |-> "checked", ticket |-> t, base |-> row, entity |-> next]
  <1>1. /\ txn[r] \in Txn
        /\ t \in Tickets
        /\ row \in Row
        /\ entity \in Row
        /\ UpdateIsSound(r)
        /\ Busy(r, "loaded")
    BY DEF TypeOK, Check, Busy, Txn, UpdatesAreSound, UpdateIsSound, Updating, Exists
  <1>2. /\ next \in Row
        /\ SameTicket(next, row)
        /\ next.version = entity.version + 1
    BY <1>1 DEF UpdateIsSound, SameTicket, Row
  <1>3. /\ \A q \in Requests : q # r => txn'[q] = txn[q]
        /\ \/ txn'[r] = None
           \/ VersionMatches(row, entity) /\ txn'[r] = checked
    BY DEF Check, TypeOK
  <1>4. UNCHANGED <<tickets, sequence, audit>>
    BY DEF Check
  <1>5. TypeOK'
    <2>1. checked \in Txn
      BY <1>1, <1>2 DEF Txn
    <2> QED BY <2>1, <1>4 DEF TypeOK, Check
  <1>6. TablesAreSound'
    BY TablesUnchanged, <1>4 DEF TablesAreSound
  <1>7. UpdatesAreSound'
    <2> SUFFICES ASSUME NEW q \in Requests, Updating(q)'
                 PROVE  UpdateIsSound(q)'
      BY DEF UpdatesAreSound
    <2>1. CASE q # r
      BY <2>1, <1>3, <1>4 DEF UpdatesAreSound, UpdateIsSound, Updating, Busy, Exists, SameTicket
    <2>2. CASE q = r
      <3>1. txn'[r] = checked /\ row.version = entity.version
        BY <2>2, <1>3 DEF Updating, Busy, VersionMatches
      <3>2. row.version =< audit[t] /\ SameTicket(row, row)
        BY <1>1 DEF VersionsAreAudited, UpdateIsSound, SameTicket
      <3>3. ASSUME row.version = audit[t]
            PROVE  IsMove(row, SansVersion(next, row))
        <4>1. txn[r].base = row /\ IsMove(row, SansVersion(entity, row))
          BY <3>1, <3>3, <1>1 DEF UpdateIsSound
        <4>2. SansVersion(next, row) = SansVersion(entity, row)
          BY <1>1 DEF SansVersion, Row
        <4> QED BY <4>1, <4>2
      <3>4. next.version = row.version + 1
        BY <3>1, <1>2
      <3> HIDE DEF next
      <3> QED BY <2>2, <3>1, <3>2, <3>3, <3>4, <1>1, <1>2, <1>4
             DEF UpdateIsSound, Busy, Exists, SameTicket
    <2> QED BY <2>1, <2>2
  <1>8. CreationsAreSound'
    BY <1>3, <1>4 DEF CreationsAreSound, CreationIsSound, Busy, Exists
  <1> QED BY <1>5, <1>6, <1>7, <1>8 DEF TablesAreSound

LEMMA RollbackInductive ==
    ASSUME Inductive, NEW r \in Requests, Rollback(r)
    PROVE  Inductive'
  <1> USE DEF Inductive
  <1>1. /\ \A q \in Requests : q # r => txn'[q] = txn[q]
        /\ txn'[r] = None
        /\ UNCHANGED <<tickets, sequence, audit>>
    BY DEF Rollback, TypeOK
  <1>2. TypeOK'
    BY DEF TypeOK, Rollback
  <1>3. TablesAreSound'
    BY TablesUnchanged, <1>1 DEF TablesAreSound
  <1>4. UpdatesAreSound'
    BY <1>1 DEF UpdatesAreSound, UpdateIsSound, Updating, Busy, Exists, SameTicket
  <1>5. CreationsAreSound'
    BY <1>1 DEF CreationsAreSound, CreationIsSound, Busy, Exists
  <1> QED BY <1>2, <1>3, <1>4, <1>5 DEF TablesAreSound

(* next_ticket_number(): the lock makes the number and the id the only ones *)
(* of their kind among the open creations.                                  *)
LEMMA AllocateInductive ==
    ASSUME Inductive, NEW r \in Requests, NEW o \in Orgs, NEW c \in Channels,
           NEW t \in Tickets, AllocateNumber(r, o, c, t)
    PROVE  Inductive'
  <1> USE DEF Inductive
  <1> DEFINE entity == Opened(o, c, sequence[o] + 1)
             new == [pc |-> "numbered", ticket |-> t, entity |-> entity, base |-> entity]
  <1>1. entity \in Row /\ entity.org = o
    <2>1. sequence[o] + 1 \in Nat \ {0}
      BY DEF TypeOK
    <2> QED BY <2>1, OpenedIsRow DEF Opened
  <1>2. /\ \A q \in Requests : q # r => txn'[q] = txn[q]
        /\ txn[r] = None
        /\ txn'[r] = new
        /\ UNCHANGED <<tickets, sequence, audit>>
    BY DEF AllocateNumber, TypeOK
  <1>3. new \in Txn
    BY <1>1 DEF Txn
  <1>4. TypeOK'
    BY <1>3 DEF TypeOK, AllocateNumber
  <1>5. TablesAreSound'
    BY TablesUnchanged, <1>2 DEF TablesAreSound
  <1>6. UpdatesAreSound'
    <2>1. \A q \in Requests : Updating(q)' => q # r /\ Updating(q)
      BY <1>2 DEF Updating, Busy
    <2> QED BY <2>1, <1>2 DEF UpdatesAreSound, UpdateIsSound, Updating, Busy, Exists, SameTicket
  <1>7. CreationsAreSound'
    <2>1. /\ ~ Exists(t)
          /\ \A q \in Requests : Busy(q, "numbered") => txn[q].ticket # t /\ txn[q].entity.org # o
      BY DEF AllocateNumber, Fresh, SequenceUnlocked
    <2> HIDE DEF entity
    <2> SUFFICES ASSUME NEW q \in Requests, Busy(q, "numbered")'
                 PROVE  CreationIsSound(q)'
      BY DEF CreationsAreSound
    <2>2. CASE q # r
      BY <2>1, <2>2, <1>1, <1>2 DEF CreationsAreSound, CreationIsSound, Busy, Exists
    <2>3. CASE q = r
      <3>1. txn'[r].entity = Opened(o, c, sequence'[o] + 1)
        BY <1>2 DEF entity
      <3> QED BY <2>1, <2>3, <3>1, <1>1, <1>2 DEF CreationIsSound, Busy, Exists
    <2> QED BY <2>2, <2>3
  <1> QED BY <1>4, <1>5, <1>6, <1>7 DEF TablesAreSound

(* A commit over a row that another request has changed since the check     *)
(* leaves the ticket disputed; any other commit stores the entity itself,   *)
(* which is a move of the row it replaces.                                  *)
LEMMA CommittedUpdate ==
    ASSUME Inductive, NEW r \in Requests, CommitUpdate(r)
    PROVE  LET t == txn[r].ticket IN
           /\ t \in Tickets
           /\ Exists(t)
           /\ tickets'[t] \in Row
           /\ SameTicket(tickets'[t], tickets[t])
           /\ tickets'[t].version =< audit'[t]
           /\ audit'[t] = audit[t] + 1
           /\ IndexAdmits(t, tickets'[t])
           /\ \A u \in Tickets : u # t => tickets'[u] = tickets[u] /\ audit'[u] = audit[u]
           /\ tickets'[t].version = audit'[t] =>
                 /\ ~ Disputed(t)
                 /\ IsMove(tickets[t], SansVersion(tickets'[t], tickets[t]))
  <1> USE DEF Inductive
  <1> DEFINE t == txn[r].ticket
             row == tickets[t]
             base == txn[r].base
             entity == txn[r].entity
             new == Written(row, base, entity)
  <1>1. /\ t \in Tickets
        /\ Exists(t)
        /\ row \in Row
        /\ base \in Row
        /\ entity \in Row
        /\ audit[t] \in Nat
        /\ UpdateIsSound(r)
        /\ Busy(r, "checked")
    BY DEF TypeOK, CommitUpdate, Busy, Txn, UpdatesAreSound, UpdateIsSound, Updating, Exists
  <1>2. /\ tickets' = [tickets EXCEPT ![t] = new]
        /\ audit' = [audit EXCEPT ![t] = @ + 1]
        /\ IndexAdmits(t, new)
    BY DEF CommitUpdate
  <1>3. /\ tickets'[t] = new
        /\ audit'[t] = audit[t] + 1
        /\ \A u \in Tickets : u # t => tickets'[u] = tickets[u] /\ audit'[u] = audit[u]
    BY <1>1, <1>2 DEF TypeOK
  <1>4. entity.version = base.version + 1 /\ base.version \in Nat /\ base.version =< audit[t]
    BY <1>1 DEF UpdateIsSound, Row
  <1>5. /\ new \in Row
        /\ base = row => new = entity
        /\ new.version = entity.version
        /\ SameTicket(new, row)
    BY <1>1, <1>4, WrittenIsRow DEF UpdateIsSound
  <1>6. ASSUME new.version = audit[t] + 1
        PROVE  ~ Disputed(t) /\ IsMove(row, SansVersion(new, row))
    <2>1. base.version = audit[t]
      BY <1>6, <1>4, <1>5, <1>1
    <2>2. base = row /\ IsMove(row, SansVersion(entity, row))
      BY <2>1, <1>1 DEF UpdateIsSound
    <2> QED BY <2>1, <2>2, <1>5 DEF Disputed
  <1> HIDE DEF new
  <1> QED BY <1>1, <1>2, <1>3, <1>4, <1>5, <1>6

LEMMA CommitUpdateInductive ==
    ASSUME Inductive, NEW r \in Requests, CommitUpdate(r)
    PROVE  Inductive'
  <1> USE DEF Inductive
  <1>0. PICK t \in Tickets : t = txn[r].ticket
    BY CommittedUpdate
  <1>1. /\ Exists(t)
        /\ tickets'[t] \in Row
        /\ SameTicket(tickets'[t], tickets[t])
        /\ tickets'[t].version =< audit'[t]
        /\ audit'[t] = audit[t] + 1
        /\ IndexAdmits(t, tickets'[t])
        /\ \A u \in Tickets : u # t => tickets'[u] = tickets[u] /\ audit'[u] = audit[u]
        /\ tickets'[t].version = audit'[t] =>
              /\ ~ Disputed(t)
              /\ IsMove(tickets[t], SansVersion(tickets'[t], tickets[t]))
    BY <1>0, CommittedUpdate
  <1>2. /\ \A q \in Requests : q # r => txn'[q] = txn[q]
        /\ txn'[r] = None
        /\ UNCHANGED sequence
    BY DEF CommitUpdate, TypeOK
  <1>3. /\ tickets[t] \in Row
        /\ audit[t] \in Nat
        /\ \A u \in Tickets : Exists(u)' <=> Exists(u)
    BY <1>1, NoneAssumption DEF TypeOK, Exists
  <1>4. \A u \in Tickets : Exists(u) => SameTicket(tickets'[u], tickets[u])
    BY <1>1 DEF SameTicket
  <1>5. Agreed(t)' =>
          /\ Agreed(t)
          /\ Active(tickets'[t]) => Active(tickets[t])
          /\ Coherent(tickets'[t])
    <2> SUFFICES ASSUME Agreed(t)'
                 PROVE  /\ Agreed(t)
                        /\ Active(tickets'[t]) => Active(tickets[t])
                        /\ Coherent(tickets'[t])
      OBVIOUS
    <2> DEFINE e == SansVersion(tickets'[t], tickets[t])
    <2>1. Agreed(t) /\ IsMove(tickets[t], e)
      BY <1>1 DEF Agreed, Disputed
    <2>2. /\ Active(e) => Active(tickets[t])
          /\ Coherent(tickets[t]) => Coherent(e)
      BY <2>1, <1>3, TransitionsKeepTheTicket
    <2>3. (Active(e) <=> Active(tickets'[t])) /\ (Coherent(e) <=> Coherent(tickets'[t]))
      BY <1>1 DEF SansVersion, Row, Active, Coherent
    <2>4. Coherent(tickets[t])
      BY <2>1, <1>1 DEF AgreedTicketsAreCoherent
    <2> QED BY <2>1, <2>2, <2>3, <2>4
  <1>6. TypeOK'
    BY <1>0, <1>1 DEF TypeOK, CommitUpdate
  <1>7. VersionsAreAudited'
    BY <1>1, <1>3 DEF VersionsAreAudited
  <1>8. NumbersAreIssued' /\ StoredNumbersAreDistinct' /\ NumbersHaveNoGap'
    <2>1. NumbersAreIssued'
      BY <1>2, <1>3, <1>4 DEF NumbersAreIssued, SameTicket
    <2>2. StoredNumbersAreDistinct'
      BY <1>3, <1>4 DEF StoredNumbersAreDistinct, SameTicket
    <2>3. NumbersHaveNoGap'
      BY <1>2, <1>3, <1>4 DEF NumbersHaveNoGap, SameTicket
    <2> QED BY <2>1, <2>2, <2>3
  <1>9. OneActivePerChannel'
    BY <1>1, <1>3 DEF OneActivePerChannel, IndexAdmits, Exists
  <1>10. AgreedTicketsAreCoherent'
    BY <1>1, <1>5 DEF AgreedTicketsAreCoherent, Agreed, Disputed, Exists
  <1>11. ActiveTicketIsNewest'
    <2> SUFFICES ASSUME NEW u \in Tickets, NEW v \in Tickets,
                        Agreed(u)', Active(tickets'[u]), Exists(v)',
                        tickets'[v].org = tickets'[u].org,
                        tickets'[v].channel = tickets'[u].channel
                 PROVE  tickets'[v].number =< tickets'[u].number
      BY DEF ActiveTicketIsNewest, Active
    <2>1. Agreed(u) /\ Active(tickets[u])
      BY <1>1, <1>5 DEF Agreed, Disputed, Exists
    <2>2. SameTicket(tickets'[u], tickets[u]) /\ SameTicket(tickets'[v], tickets[v]) /\ Exists(v)
      BY <1>3, <1>4, <2>1 DEF Agreed
    <2> QED BY <2>1, <2>2 DEF ActiveTicketIsNewest, SameTicket
  <1>12. UpdatesAreSound'
    <2> SUFFICES ASSUME NEW q \in Requests, Updating(q)'
                 PROVE  UpdateIsSound(q)'
      BY DEF UpdatesAreSound
    <2> DEFINE u == txn[q].ticket
    <2>1. /\ q # r
          /\ txn'[q] = txn[q]
          /\ Updating(q)
          /\ UpdateIsSound(q)
      BY <1>2 DEF Updating, Busy, UpdatesAreSound
    <2>2. u \in Tickets /\ Exists(u) /\ txn[q].base.version \in Nat
      BY <2>1 DEF TypeOK, Updating, Busy, Txn, Row, UpdateIsSound
    <2>3. SameTicket(tickets'[u], tickets[u])
      BY <1>4, <2>2
    <2>4. CASE u = t
      <3>1. txn[q].base.version # audit'[u] /\ txn[q].base.version =< audit'[u]
        BY <2>1, <2>2, <2>4, <1>1, <1>3 DEF UpdateIsSound
      <3> QED BY <3>1, <2>1, <2>2, <2>3, <1>3 DEF UpdateIsSound, Busy, SameTicket
    <2>5. CASE u # t
      BY <2>1, <2>2, <2>5, <1>1, <1>3 DEF UpdateIsSound, Busy
    <2> QED BY <2>4, <2>5
  <1>13. CreationsAreSound'
    <2>1. \A q \in Requests : Busy(q, "numbered")' => Busy(q, "numbered") /\ txn'[q] = txn[q]
      BY <1>2 DEF Busy
    <2>2. \A q \in Requests : Busy(q, "numbered") => txn[q].ticket \in Tickets
      BY DEF TypeOK, Busy, Txn
    <2> QED BY <2>1, <2>2, <1>2, <1>3 DEF CreationsAreSound, CreationIsSound
  <1> QED BY <1>6, <1>7, <1>8, <1>9, <1>10, <1>11, <1>12, <1>13

(* What a committed creation has done to the tables. *)
LEMMA CommittedCreate ==
    ASSUME Inductive, NEW r \in Requests, CommitCreate(r)
    PROVE  \E t \in Tickets, o \in Orgs, c \in Channels :
           LET row == Opened(o, c, sequence[o] + 1) IN
           /\ t = txn[r].ticket
           /\ ~ Exists(t)
           /\ row \in Row
           /\ txn[r].entity = row
           /\ IndexAdmits(t, row)
           /\ tickets' = [tickets EXCEPT ![t] = row]
           /\ sequence' = [sequence EXCEPT ![o] = @ + 1]
           /\ audit' = [audit EXCEPT ![t] = 1]
  <1> USE DEF Inductive
  <1>1. /\ Busy(r, "numbered")
        /\ txn[r].ticket \in Tickets
        /\ CreationIsSound(r)
    BY DEF CommitCreate, TypeOK, Busy, Txn, CreationsAreSound
  <1>2. PICK o \in Orgs, c \in Channels : txn[r].entity = Opened(o, c, sequence[o] + 1)
    BY <1>1 DEF CreationIsSound
  <1> DEFINE row == Opened(o, c, sequence[o] + 1)
  <1>3. row \in Row /\ row.org = o /\ row.number = sequence[o] + 1
    <2>1. sequence[o] + 1 \in Nat \ {0}
      BY DEF TypeOK
    <2> QED BY <2>1, OpenedIsRow DEF Opened
  <1>4. sequence' = [sequence EXCEPT ![o] = @ + 1]
    BY <1>2, <1>3 DEF CommitCreate
  <1>5. /\ IndexAdmits(txn[r].ticket, row)
        /\ tickets' = [tickets EXCEPT ![txn[r].ticket] = row]
        /\ audit' = [audit EXCEPT ![txn[r].ticket] = 1]
    BY <1>2 DEF CommitCreate
  <1> QED BY <1>1, <1>2, <1>3, <1>4, <1>5 DEF CreationIsSound

LEMMA CommitCreateInductive ==
    ASSUME Inductive, NEW r \in Requests, CommitCreate(r)
    PROVE  Inductive'
  <1> USE DEF Inductive
  <1>1. PICK t \in Tickets, o \in Orgs, c \in Channels :
            LET row == Opened(o, c, sequence[o] + 1) IN
            /\ t = txn[r].ticket
            /\ ~ Exists(t)
            /\ row \in Row
            /\ txn[r].entity = row
            /\ IndexAdmits(t, row)
            /\ tickets' = [tickets EXCEPT ![t] = row]
            /\ sequence' = [sequence EXCEPT ![o] = @ + 1]
            /\ audit' = [audit EXCEPT ![t] = 1]
    BY CommittedCreate
  <1> DEFINE row == Opened(o, c, sequence[o] + 1)
  <1>2. /\ row.org = o
        /\ row.channel = c
        /\ row.number = sequence[o] + 1
        /\ row.version = 1
        /\ Coherent(row)
        /\ Active(row)
    BY DEF Opened, Coherent, Active
  <1>3. /\ tickets'[t] = row
        /\ audit'[t] = 1
        /\ Exists(t)'
        /\ \A u \in Tickets : u # t =>
              /\ tickets'[u] = tickets[u]
              /\ audit'[u] = audit[u]
              /\ Exists(u)' <=> Exists(u)
    BY <1>1, NoneAssumption DEF TypeOK, Exists
  <1>4. /\ \A q \in Requests : q # r => txn'[q] = txn[q]
        /\ txn'[r] = None
        /\ Busy(r, "numbered")
        /\ CreationIsSound(r)
        /\ sequence[o] \in Nat
        /\ sequence'[o] = sequence[o] + 1
        /\ \A p \in Orgs : p # o => sequence'[p] = sequence[p]
    BY <1>1 DEF CommitCreate, TypeOK, CreationsAreSound
  <1>5. \A u \in Tickets : Exists(u) =>
            /\ u # t
            /\ tickets[u] \in Row
            /\ tickets[u].number \in Nat \ {0}
            /\ tickets[u].org \in Orgs
            /\ tickets[u].number =< sequence[tickets[u].org]
    BY <1>1 DEF TypeOK, Exists, Row, NumbersAreIssued
  <1> HIDE DEF row
  <1>6. TypeOK'
    <2>1. /\ tickets' \in [Tickets -> Row \cup {None}]
          /\ audit' \in [Tickets -> Nat]
      BY <1>1 DEF TypeOK, row
    <2>2. sequence' \in [Orgs -> Nat]
      BY <1>1 DEF TypeOK
    <2>3. txn' \in [Requests -> Txn \cup {None}]
      BY DEF TypeOK, CommitCreate
    <2> QED BY <2>1, <2>2, <2>3 DEF TypeOK
  <1>7. VersionsAreAudited'
    BY <1>2, <1>3 DEF VersionsAreAudited
  <1>8. NumbersAreIssued'
    BY <1>2, <1>3, <1>4, <1>5 DEF NumbersAreIssued
  <1>9. StoredNumbersAreDistinct'
    BY <1>2, <1>3, <1>4, <1>5 DEF StoredNumbersAreDistinct
  <1>10. NumbersHaveNoGap'
    <2> SUFFICES ASSUME NEW p \in Orgs, NEW n \in 1 .. sequence'[p]
                 PROVE  \E u \in Tickets :
                            Exists(u)' /\ tickets'[u].org = p /\ tickets'[u].number = n
      BY DEF NumbersHaveNoGap
    <2>1. CASE p = o /\ n = sequence[o] + 1
      BY <2>1, <1>2, <1>3
    <2>2. CASE ~ (p = o /\ n = sequence[o] + 1)
      <3>1. n \in 1 .. sequence[p]
        BY <2>2, <1>4 DEF TypeOK
      <3>2. PICK u \in Tickets : Exists(u) /\ tickets[u].org = p /\ tickets[u].number = n
        BY <3>1 DEF NumbersHaveNoGap
      <3> QED BY <3>2, <1>3, <1>5
    <2> QED BY <2>1, <2>2
  <1>11. OneActivePerChannel'
    BY <1>1, <1>2, <1>3 DEF OneActivePerChannel, IndexAdmits, row
  <1>12. AgreedTicketsAreCoherent'
    BY <1>2, <1>3 DEF AgreedTicketsAreCoherent, Agreed, Disputed
  <1>13. ActiveTicketIsNewest'
    <2> SUFFICES ASSUME NEW u \in Tickets, NEW v \in Tickets,
                        Agreed(u)', Active(tickets'[u]), Exists(v)',
                        tickets'[v].org = tickets'[u].org,
                        tickets'[v].channel = tickets'[u].channel
                 PROVE  tickets'[v].number =< tickets'[u].number
      BY DEF ActiveTicketIsNewest, Active
    <2>1. CASE u = t /\ v = t
      BY <2>1, <1>2, <1>3, <1>4
    <2>2. CASE u = t /\ v # t
      BY <2>2, <1>2, <1>3, <1>4, <1>5
    <2>3. CASE u # t /\ v = t
      <3>1. Exists(u) /\ Active(tickets[u]) /\ tickets[u].channel = c
        BY <2>3, <1>2, <1>3 DEF Agreed
      <3> QED BY <3>1, <2>3, <1>1, <1>2 DEF IndexAdmits, row
    <2>4. CASE u # t /\ v # t
      BY <2>4, <1>3 DEF ActiveTicketIsNewest, Agreed, Disputed
    <2> QED BY <2>1, <2>2, <2>3, <2>4
  <1>14. UpdatesAreSound'
    <2> SUFFICES ASSUME NEW q \in Requests, Updating(q)'
                 PROVE  UpdateIsSound(q)'
      BY DEF UpdatesAreSound
    <2>1. q # r /\ txn'[q] = txn[q] /\ Updating(q) /\ UpdateIsSound(q)
      BY <1>4 DEF Updating, Busy, UpdatesAreSound
    <2>2. txn[q].ticket \in Tickets /\ txn[q].ticket # t
      BY <2>1, <1>5 DEF UpdateIsSound, TypeOK, Updating, Busy, Txn
    <2> QED BY <2>1, <2>2, <1>3 DEF UpdateIsSound, Busy
  <1>15. CreationsAreSound'
    <2> SUFFICES ASSUME NEW q \in Requests, Busy(q, "numbered")'
                 PROVE  CreationIsSound(q)'
      BY DEF CreationsAreSound
    <2>1. q # r /\ txn'[q] = txn[q] /\ Busy(q, "numbered") /\ CreationIsSound(q)
      BY <1>4 DEF Busy, CreationsAreSound
    <2>2. txn[q].ticket \in Tickets /\ txn[q].ticket # t /\ txn[q].entity.org # o
      BY <2>1, <1>1, <1>2, <1>4 DEF CreationIsSound, TypeOK, Busy, Txn, row
    <2>3. PICK p \in Orgs, d \in Channels : txn[q].entity = Opened(p, d, sequence[p] + 1)
      BY <2>1 DEF CreationIsSound
    <2>4. txn'[q].entity = Opened(p, d, sequence'[p] + 1)
      <3>1. p # o
        BY <2>2, <2>3 DEF Opened
      <3> QED BY <3>1, <2>1, <2>3, <1>4
    <2>5. \A s \in Requests : Busy(s, "numbered")' => Busy(s, "numbered") /\ txn'[s] = txn[s]
      BY <1>4 DEF Busy
    <2> QED BY <2>1, <2>2, <2>4, <2>5, <1>3 DEF CreationIsSound
  <1> QED BY <1>6, <1>7, <1>8, <1>9, <1>10, <1>11, <1>12, <1>13, <1>14, <1>15

-------------------------------------------------------------------------------
(* Every step of the system is one of the steps above. *)

LEMMA UpdateIsMove ==
    ASSUME NEW r \in Requests, Update(r)
    PROVE  \E t \in Tickets : \E e :
              /\ txn[r] = None
              /\ Exists(t)
              /\ IsMove(tickets[t], e)
              /\ Holds(r, t, e)
  <1> PICK t \in Tickets, scope \in Orgs \cup {None} :
        \/ \E who \in TicketActor : Claim(r, t, scope, who)
        \/ Unclaim(r, t, scope)
        \/ \E who \in TicketActor : Transfer(r, t, scope, who)
        \/ Close(r, t, scope)
    BY DEF Update
  <1> QED BY DEF Claim, Unclaim, Transfer, Close, Loads, IsMove

LEMMA StepInductive ==
    ASSUME Inductive, [Next]_vars
    PROVE  Inductive'
  <1>1. ASSUME NEW r \in Requests, Update(r)
        PROVE  Inductive'
    BY <1>1, UpdateIsMove, HoldInductive
  <1>2. ASSUME NEW r \in Requests, Check(r)
        PROVE  Inductive'
    BY <1>2, CheckInductive
  <1>3. ASSUME NEW r \in Requests, CommitUpdate(r)
        PROVE  Inductive'
    BY <1>3, CommitUpdateInductive
  <1>4. ASSUME NEW r \in Requests, Create(r)
        PROVE  Inductive'
    BY <1>4, AllocateInductive DEF Create
  <1>5. ASSUME NEW r \in Requests, CommitCreate(r)
        PROVE  Inductive'
    BY <1>5, CommitCreateInductive
  <1>6. ASSUME NEW r \in Requests, Rollback(r)
        PROVE  Inductive'
    BY <1>6, RollbackInductive
  <1>7. CASE UNCHANGED vars
    <2>1. TypeOK'
      BY <1>7 DEF Inductive, TypeOK, vars
    <2>2. TablesAreSound'
      BY <1>7, TablesUnchanged DEF Inductive, TablesAreSound, vars
    <2>3. UpdatesAreSound' /\ CreationsAreSound'
      BY <1>7 DEF Inductive, vars, UpdatesAreSound, UpdateIsSound, Updating, Busy, Exists,
                  SameTicket, CreationsAreSound, CreationIsSound
    <2> QED BY <2>1, <2>2, <2>3 DEF Inductive, TablesAreSound
  <1> QED BY <1>1, <1>2, <1>3, <1>4, <1>5, <1>6, <1>7 DEF Next

(* The strengthening of all the invariants below holds in every state. *)
THEOREM InductiveInvariant == Spec => []Inductive
  <1>1. Init => Inductive
    BY InitInductive
  <1>2. Inductive /\ [Next]_vars => Inductive'
    BY StepInductive
  <1> QED BY <1>1, <1>2, PTL DEF Spec

(* Every variable of the ticket system keeps its type. *)
THEOREM TypeCorrect == Spec => []TypeOK
  <1>1. Inductive => TypeOK
    BY DEF Inductive
  <1> QED BY <1>1, InductiveInvariant, PTL

(* Each organisation's tickets carry exactly the numbers 1 .. sequence[o],  *)
(* whatever creations overlapped, failed or were rolled back.               *)
THEOREM NumberingHasNoGap == Spec => []NumbersHaveNoGap
  <1>1. Inductive => NumbersHaveNoGap
    BY DEF Inductive
  <1> QED BY <1>1, InductiveInvariant, PTL

(* No number is given to two tickets, so the row lock alone makes creations *)
(* safe: the unique constraint never refuses one.                           *)
THEOREM NumberingIsInjective == Spec => []NumbersAreDistinct
  <1>1. Inductive => NumbersAreDistinct
    <2> SUFFICES ASSUME Inductive PROVE NumbersAreDistinct
      OBVIOUS
    <2> SUFFICES ASSUME NEW r \in Requests, Busy(r, "numbered")
                 PROVE  /\ NumberIsFree(txn[r].entity)
                        /\ \A q \in Requests :
                              (Busy(q, "numbered") /\ txn[q].entity.org = txn[r].entity.org
                                 /\ txn[q].entity.number = txn[r].entity.number) => q = r
      BY DEF Inductive, NumbersAreDistinct, StoredNumbersAreDistinct
    <2>1. CreationIsSound(r)
      BY DEF Inductive, CreationsAreSound
    <2>2. PICK o \in Orgs, c \in Channels : txn[r].entity = Opened(o, c, sequence[o] + 1)
      BY <2>1 DEF CreationIsSound
    <2>3. txn[r].entity.org = o /\ txn[r].entity.number = sequence[o] + 1 /\ sequence[o] \in Nat
      BY <2>2 DEF Opened, Inductive, TypeOK
    <2>4. NumberIsFree(txn[r].entity)
      <3> SUFFICES ASSUME NEW u \in Tickets, Exists(u), tickets[u].org = o
                   PROVE  tickets[u].number # sequence[o] + 1
        BY <2>3 DEF NumberIsFree
      <3>1. tickets[u].number =< sequence[o] /\ tickets[u].number \in Nat
        BY DEF Inductive, NumbersAreIssued, TypeOK, Row, Exists
      <3> QED BY <3>1, <2>3
    <2> QED BY <2>1, <2>4 DEF CreationIsSound
  <1> QED BY <1>1, InductiveInvariant, PTL

(* Both together: an organisation's tickets are numbered 1 .. sequence[o],  *)
(* each number once.                                                        *)
THEOREM NumberingIsSound == Spec => []NumberingIsDense
  <1>1. NumbersHaveNoGap /\ NumbersAreDistinct => NumberingIsDense
    BY DEF NumberingIsDense
  <1> QED BY <1>1, NumberingHasNoGap, NumberingIsInjective, PTL

(* No Discord channel ever has two active tickets. *)
THEOREM ChannelsHaveOneTicket == Spec => []OneActivePerChannel
  <1>1. Inductive => OneActivePerChannel
    BY DEF Inductive
  <1> QED BY <1>1, InductiveInvariant, PTL

(* A ticket no race has touched has a claimant exactly when it is claimed   *)
(* and a closing time exactly when it is closed.                            *)
THEOREM AgreementIsCoherent == Spec => []AgreedTicketsAreCoherent
  <1>1. Inductive => AgreedTicketsAreCoherent
    BY DEF Inductive
  <1> QED BY <1>1, InductiveInvariant, PTL

(* The lookup by channel finds the active ticket, races apart. *)
THEOREM LookupFindsActive == Spec => []ActiveTicketIsNewest
  <1>1. Inductive => ActiveTicketIsNewest
    BY DEF Inductive
  <1> QED BY <1>1, InductiveInvariant, PTL

(* An update whose ticket still is the row it was checked against never     *)
(* disputes it: a dispute needs a commit inside another request's window.   *)
THEOREM DisputesComeFromWindows == Spec => DisputesNeedAWindow
  <1>1. ASSUME Inductive, NEW r \in Requests, NEW t \in Tickets, CommitUpdate(r),
               txn[r].ticket = t, txn[r].base = tickets[t], Agreed(t)
        PROVE  Agreed(t)'
    <2>1. /\ tickets[t] \in Row
          /\ txn[r].base \in Row
          /\ txn[r].entity \in Row
          /\ tickets[t].version = audit[t]
          /\ audit[t] \in Nat
          /\ UpdateIsSound(r)
          /\ Busy(r, "checked")
      BY <1>1 DEF Inductive, TypeOK, CommitUpdate, Busy, Txn, Agreed, Disputed, Exists,
                  UpdatesAreSound, Updating
    <2>2. tickets'[t] = txn[r].entity /\ audit'[t] = audit[t] + 1
      BY <1>1, <2>1, WrittenIsRow DEF CommitUpdate, Inductive, TypeOK
    <2>3. txn[r].entity.version = audit[t] + 1
      BY <1>1, <2>1 DEF UpdateIsSound
    <2> QED BY <2>1, <2>2, <2>3, NoneAssumption DEF Agreed, Exists, Disputed
  <1>2. Inductive /\ [Next]_vars =>
          [\A r \in Requests, t \in Tickets :
              (/\ CommitUpdate(r)
               /\ txn[r].ticket = t
               /\ txn[r].base = tickets[t]
               /\ Agreed(t)) => Agreed(t)']_vars
    BY <1>1
  <1> QED BY <1>2, InductiveInvariant, PTL DEF Spec, DisputesNeedAWindow

-------------------------------------------------------------------------------
(* The refinement of TicketDesk *)

LEMMA DeskEntryIsEntry ==
    ASSUME Inductive, NEW t \in Tickets, Exists(t)
    PROVE  DeskEntry(t) \in Desk!Entry /\ DeskEntry(t) # None
  <1>1. tickets[t] \in Row
    BY DEF Inductive, TypeOK, Exists
  <1>2. ASSUME ~ Disputed(t) PROVE Holder(tickets[t]) \in TicketActor \cup {None}
    <2>1. Coherent(tickets[t])
      BY <1>2 DEF Inductive, AgreedTicketsAreCoherent, Agreed
    <2> QED BY <1>1, <2>1 DEF Holder, Coherent, Row, Status, TicketActor
  <1>3. DeskEntry(t) \in Desk!Entry
    BY <1>1, <1>2 DEF DeskEntry, Desk!Entry, Desk!Phase, Row, Status
  <1> QED BY <1>3, NoEntryIsNone

(* What a move of the row is on the desk. *)
LEMMA HolderAfterMove ==
    ASSUME NEW row \in Row, NEW e, IsMove(row, e), Coherent(row)
    PROVE  \/ /\ row.status = "open" /\ e.status = "claimed"
              /\ Holder(e) \in TicketActor
           \/ /\ row.status = "claimed" /\ e.status = "open" /\ Holder(e) = None
           \/ /\ row.status = "claimed" /\ e.status = "claimed"
              /\ Holder(e) \in TicketActor
           \/ /\ row.status \in {"open", "claimed"} /\ e.status = "closed"
              /\ Holder(e) = Holder(row)
  <1>1. CASE CanClaim(row) /\ \E who \in TicketActor : e = Claimed(row, who)
    <2>1. e.status = "claimed" /\ [discord |-> e.discord, user |-> e.user] \in TicketActor
      BY <1>1 DEF Claimed, TicketActor, Row
    <2>2. ~ (e.discord = None /\ e.user = None)
      BY <2>1, NoneAssumption DEF TicketActor
    <2> QED BY <1>1, <2>1, <2>2 DEF CanClaim, Holder
  <1>2. CASE CanUnclaim(row) /\ e = Unclaimed(row)
    BY <1>2 DEF CanUnclaim, Unclaimed, Row, Holder
  <1>3. CASE CanTransfer(row) /\ \E who \in TicketActor : e = Transferred(row, who)
    <2>1. e.status = row.status /\ [discord |-> e.discord, user |-> e.user] \in TicketActor
      BY <1>3 DEF Transferred, TicketActor, Row
    <2>2. ~ (e.discord = None /\ e.user = None)
      BY <2>1, NoneAssumption DEF TicketActor
    <2> QED BY <1>3, <2>1, <2>2 DEF CanTransfer, Holder
  <1>4. CASE CanClose(row) /\ e = Closed(row)
    BY <1>4 DEF CanClose, Closed, Row, Status, Holder
  <1> QED BY <1>1, <1>2, <1>3, <1>4 DEF IsMove

(* A committed update is one move of the desk, or a dispute. *)
LEMMA CommitUpdateOnDesk ==
    ASSUME Inductive, Inductive', NEW r \in Requests, CommitUpdate(r)
    PROVE  Desk!Next
  <1> DEFINE desk == [t \in Tickets |-> DeskEntry(t)]
  <1>0. PICK t \in Tickets : t = txn[r].ticket
    BY CommittedUpdate
  <1>1. /\ Exists(t)
        /\ tickets'[t] \in Row
        /\ SameTicket(tickets'[t], tickets[t])
        /\ \A u \in Tickets : u # t => tickets'[u] = tickets[u] /\ audit'[u] = audit[u]
        /\ tickets'[t].version = audit'[t] =>
              /\ ~ Disputed(t)
              /\ IsMove(tickets[t], SansVersion(tickets'[t], tickets[t]))
    BY <1>0, CommittedUpdate
  <1>2. UNCHANGED sequence
    BY DEF CommitUpdate
  <1>3. tickets[t] \in Row /\ Exists(t)'
    BY <1>1, NoneAssumption DEF Inductive, TypeOK, Exists
  <1>4. /\ DeskEntry(t) \in Desk!Entry
        /\ DeskEntry(t) # None
    BY <1>1, DeskEntryIsEntry
  <1>5. ASSUME NEW p, NEW h, DeskEntry(t)' =
                  [org |-> tickets[t].org, number |-> tickets[t].number,
                   phase |-> p, holder |-> h]
        PROVE  desk' = [desk EXCEPT ![t] = [org |-> @.org, number |-> @.number,
                                            phase |-> p, holder |-> h]]
    <2>1. \A u \in Tickets : u # t => DeskEntry(u)' = DeskEntry(u)
      BY <1>1 DEF DeskEntry, Exists, Disputed
    <2>2. DeskEntry(t).org = tickets[t].org /\ DeskEntry(t).number = tickets[t].number
      BY <1>1 DEF DeskEntry
    <2> QED BY <2>1, <2>2, <1>5
  <1>6. DeskEntry(t)' =
            [org |-> tickets[t].org, number |-> tickets[t].number,
             phase |-> IF Disputed(t)' THEN "disputed" ELSE tickets'[t].status,
             holder |-> IF Disputed(t)' THEN None ELSE Holder(tickets'[t])]
    BY <1>1, <1>3 DEF DeskEntry, SameTicket
  <1>7. CASE Disputed(t)'
    <2>1. desk' = [desk EXCEPT ![t] = [org |-> @.org, number |-> @.number,
                                      phase |-> "disputed", holder |-> None]]
      <3>1. DeskEntry(t)' = [org |-> tickets[t].org, number |-> tickets[t].number,
                             phase |-> "disputed", holder |-> None]
        BY <1>6, <1>7
      <3> HIDE DEF desk
      <3> QED BY <1>5, <3>1
    <2>2. desk[t] # None /\ desk[t].phase \in Desk!Phase
      BY <1>4 DEF Desk!Entry
    <2>3. Desk!Dispute(t)
      BY <1>2, <2>1, <2>2 DEF Desk!Dispute, Desk!Move
    <2> QED BY <2>3 DEF Desk!Next
  <1>8. CASE ~ Disputed(t)'
    <2> DEFINE e == SansVersion(tickets'[t], tickets[t])
    <2>1. ~ Disputed(t) /\ IsMove(tickets[t], e) /\ Coherent(tickets[t])
      BY <1>1, <1>8 DEF Disputed, Inductive, AgreedTicketsAreCoherent, Agreed
    <2>2. e.status = tickets'[t].status /\ Holder(e) = Holder(tickets'[t])
      BY <1>1 DEF SansVersion, Row, Holder
    <2>3. /\ desk[t] # None
          /\ desk[t].phase = tickets[t].status
          /\ desk[t].holder = Holder(tickets[t])
      BY <2>1, <1>1, <1>4 DEF DeskEntry
    <2>4. desk' = [desk EXCEPT ![t] = [org |-> @.org, number |-> @.number,
                                      phase |-> e.status, holder |-> Holder(e)]]
      <3>1. DeskEntry(t)' = [org |-> tickets[t].org, number |-> tickets[t].number,
                             phase |-> e.status, holder |-> Holder(e)]
        BY <1>6, <1>8, <2>2
      <3> HIDE DEF desk, e
      <3> QED BY <1>5, <3>1
    <2> HIDE DEF desk, e
    <2>5. CASE tickets[t].status = "open" /\ e.status = "claimed" /\ Holder(e) \in TicketActor
      <3>1. Desk!Claim(t, Holder(e))
        BY <1>2, <2>3, <2>4, <2>5 DEF Desk!Claim, Desk!Move, desk
      <3> QED BY <3>1, <2>5 DEF Desk!Next
    <2>6. CASE tickets[t].status = "claimed" /\ e.status = "open" /\ Holder(e) = None
      <3>1. Desk!Unclaim(t)
        BY <1>2, <2>3, <2>4, <2>6 DEF Desk!Unclaim, Desk!Move, desk
      <3> QED BY <3>1 DEF Desk!Next
    <2>7. CASE tickets[t].status = "claimed" /\ e.status = "claimed" /\ Holder(e) \in TicketActor
      <3>1. Desk!Transfer(t, Holder(e))
        BY <1>2, <2>3, <2>4, <2>7 DEF Desk!Transfer, Desk!Move, desk
      <3> QED BY <3>1, <2>7 DEF Desk!Next
    <2>8. CASE /\ tickets[t].status \in {"open", "claimed"}
               /\ e.status = "closed"
               /\ Holder(e) = Holder(tickets[t])
      <3>1. Desk!Close(t)
        BY <1>2, <2>3, <2>4, <2>8 DEF Desk!Close, Desk!Move, desk
      <3> QED BY <3>1 DEF Desk!Next
    <2> QED BY <1>3, <2>1, <2>5, <2>6, <2>7, <2>8, HolderAfterMove
  <1> QED BY <1>7, <1>8

LEMMA CommitCreateOnDesk ==
    ASSUME Inductive, Inductive', NEW r \in Requests, CommitCreate(r)
    PROVE  Desk!Next
  <1> DEFINE desk == [t \in Tickets |-> DeskEntry(t)]
  <1>1. PICK t \in Tickets, o \in Orgs, c \in Channels :
            LET row == Opened(o, c, sequence[o] + 1) IN
            /\ t = txn[r].ticket
            /\ ~ Exists(t)
            /\ row \in Row
            /\ txn[r].entity = row
            /\ IndexAdmits(t, row)
            /\ tickets' = [tickets EXCEPT ![t] = row]
            /\ sequence' = [sequence EXCEPT ![o] = @ + 1]
            /\ audit' = [audit EXCEPT ![t] = 1]
    BY CommittedCreate
  <1>2. /\ tickets'[t] = Opened(o, c, sequence[o] + 1)
        /\ audit'[t] = 1
        /\ Exists(t)'
        /\ \A u \in Tickets : u # t => tickets'[u] = tickets[u] /\ audit'[u] = audit[u]
    BY <1>1, NoneAssumption DEF Inductive, TypeOK, Exists
  <1>3. DeskEntry(t)' = [org |-> o, number |-> sequence[o] + 1,
                         phase |-> "open", holder |-> None]
    BY <1>2 DEF DeskEntry, Disputed, Opened, Holder
  <1>4. \A u \in Tickets : u # t => DeskEntry(u)' = DeskEntry(u)
    BY <1>2 DEF DeskEntry, Exists, Disputed
  <1>5. desk' = [desk EXCEPT ![t] = [org |-> o, number |-> sequence[o] + 1,
                                     phase |-> "open", holder |-> None]]
    BY <1>3, <1>4
  <1>6. desk[t] = None
    BY <1>1 DEF DeskEntry
  <1>7. Desk!Open(t, o)
    BY <1>1, <1>5, <1>6 DEF Desk!Open
  <1> QED BY <1>7 DEF Desk!Next

(* The ticket system implements the desk of every organisation: numbers are *)
(* issued one after another, and a step of the database is one legal move   *)
(* of one ticket, a dispute of it, or nothing the organisation sees.        *)
THEOREM LifecycleImplementsDesk == Spec => ImplementsDesk
  <1>1. Init => Desk!Init
    BY DEF Init, Desk!Init, DeskEntry, Exists
  <1>2. Inductive /\ Inductive' /\ [Next]_vars => [Desk!Next]_(Desk!vars)
    <2>1. ASSUME UNCHANGED <<tickets, sequence, audit>>
          PROVE  UNCHANGED Desk!vars
      BY <2>1 DEF Desk!vars, DeskEntry, Exists, Disputed
    <2> SUFFICES ASSUME Inductive, Inductive', [Next]_vars
                 PROVE  Desk!Next \/ UNCHANGED Desk!vars
      OBVIOUS
    <2>2. ASSUME NEW r \in Requests, Update(r) \/ Check(r) \/ Create(r) \/ Rollback(r)
          PROVE  UNCHANGED <<tickets, sequence, audit>>
      BY <2>2 DEF Update, Claim, Unclaim, Transfer, Close, Holds, Check, Create,
                  AllocateNumber, Rollback
    <2>3. CASE UNCHANGED vars
      BY <2>1, <2>3 DEF vars
    <2> QED BY <2>1, <2>2, <2>3, CommitUpdateOnDesk, CommitCreateOnDesk DEF Next
  <1> QED BY <1>1, <1>2, InductiveInvariant, PTL DEF Spec, ImplementsDesk, Desk!Spec
===============================================================================
