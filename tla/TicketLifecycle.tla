--------------------------- MODULE TicketLifecycle ---------------------------
(***************************************************************************)
(* The ticket system of the backend: the tickets table, the per-            *)
(* organisation number sequence and the requests that change them           *)
(* (application/ticket_lifecycle.py over infrastructure/repositories.py).   *)
(*                                                                          *)
(* Every request is one database transaction (READ COMMITTED) with awaits   *)
(* in between, so requests interleave at these points:                      *)
(*                                                                          *)
(*   update:  load + domain transition -> re-read and version check ->      *)
(*            flush and commit                                              *)
(*   create:  take a number (row lock)  -> insert and commit                *)
(*                                                                          *)
(* The version check compares the entity with a fresh read; the UPDATE that *)
(* follows names the row by id only and writes just the columns that differ *)
(* from that read.  Two requests can therefore pass the check before either *)
(* commits.  The audit table has one row for every committed change, so     *)
(* such a race leaves a ticket whose version lags behind its audit trail:   *)
(* it is called `disputed` here, and what is promised of the others is what *)
(* the invariants below say.                                                *)
(***************************************************************************)
EXTENDS Integers

CONSTANTS
    Orgs,           \* organisations
    Channels,       \* Discord channels
    Tickets,        \* ticket ids (uuid7, never reused)
    Requests,       \* concurrent HTTP requests
    DiscordUsers,   \* Discord accounts
    Users,          \* GuildDesk accounts
    None,           \* SQL NULL / "no row" / "no transaction"
    MaxAudit        \* BOUND: no request loads a ticket with this many audit rows

ASSUME MaxAuditAssumption == MaxAudit \in Nat

VARIABLES
    tickets,    \* the tickets table: id -> row, None when there is none
    sequence,   \* ticket_number_sequences: org -> last committed number
    audit,      \* audit_logs: id -> number of rows about that ticket
    txn         \* the open transaction of each request, or None

vars == <<tickets, sequence, audit, txn>>

-------------------------------------------------------------------------------
(* Types *)

Status == {"open", "claimed", "closed"}

(* value_objects.TicketActor: names a Discord account or a GuildDesk account, never both. *)
TicketActor ==
    [discord : DiscordUsers, user : {None}] \cup [discord : {None}, user : Users]

Row == [org : Orgs, channel : Channels, number : Nat \ {0}, status : Status,
        discord : DiscordUsers \cup {None}, user : Users \cup {None},
        closedAt : BOOLEAN, version : Nat \ {0}]

Columns == {"org", "channel", "number", "status", "discord", "user",
            "closedAt", "version"}

(* `entity` is the domain object, `base` the row it was checked against. *)
Txn == [pc : {"loaded", "checked", "numbered"}, ticket : Tickets,
        entity : Row, base : Row]

(* None is no value of any other kind. *)
ASSUME NoneAssumption ==
    /\ None \notin DiscordUsers \cup Users \cup Orgs
    /\ None \notin Row
    /\ None \notin Txn
    /\ None \notin TicketActor

(* Every row and every open transaction has its type. *)
TypeOK ==
    /\ tickets \in [Tickets -> Row \cup {None}]
    /\ sequence \in [Orgs -> Nat]
    /\ audit \in [Tickets -> Nat]
    /\ txn \in [Requests -> Txn \cup {None}]

-------------------------------------------------------------------------------
(* Reading the state *)

Exists(t) == tickets[t] # None

Busy(r, pc) == txn[r] # None /\ txn[r].pc = pc

Active(row) == row.status \in {"open", "claimed"}

(* Mutant: the index covers open tickets only. *)
IndexAdmits_OpenOnly(t, row) ==
    row.status = "open" =>
        \A u \in Tickets \ {t} :
            Exists(u) /\ tickets[u].status = "open" => tickets[u].channel # row.channel

(* The partial unique index: the row may be stored as ticket t only if no  *)
(* other active row is on its channel.                                     *)
IndexAdmits(t, row) ==
    Active(row) =>
        \A u \in Tickets \ {t} :
            Exists(u) /\ Active(tickets[u]) => tickets[u].channel # row.channel

(* uq_tickets_org_id_ticket_number *)
NumberIsFree(row) ==
    \A u \in Tickets :
        Exists(u) => tickets[u].org # row.org \/ tickets[u].number # row.number

(* The UPDATE statement: only the columns in which the entity differs from *)
(* the row it was checked against are written.                             *)
Written(row, base, entity) ==
    [c \in Columns |-> IF entity[c] = base[c] THEN row[c] ELSE entity[c]]

-------------------------------------------------------------------------------
(* The domain transitions: guard and effect on the entity *)

CanClaim(row) == row.status = "open"
Claimed(row, who) ==
    [row EXCEPT !.status = "claimed", !.discord = who.discord, !.user = who.user]

(* Mutant: unclaim only refuses what is already open. *)
CanUnclaim_NotOpen(row) == row.status # "open"

CanUnclaim(row) == row.status = "claimed"
(* Mutant: unclaim forgets one of the two claimant columns. *)
Unclaimed_KeepsUser(row) == [row EXCEPT !.status = "open", !.discord = None]

Unclaimed(row) ==
    [row EXCEPT !.status = "open", !.discord = None, !.user = None]

(* Mutant: transfer works on a ticket nobody has claimed. *)
CanTransfer_NotClosed(row) == row.status # "closed"

CanTransfer(row) == row.status = "claimed"
Transferred(row, who) ==
    [row EXCEPT !.discord = who.discord, !.user = who.user]

CanClose(row) == row.status # "closed"
Closed(row) == [row EXCEPT !.status = "closed", !.closedAt = TRUE]

(* Mutant: the version column starts at zero. *)
Opened_VersionZero(o, c, n) ==
    [org |-> o, channel |-> c, number |-> n, status |-> "open",
     discord |-> None, user |-> None, closedAt |-> FALSE, version |-> 0]

Opened(o, c, n) ==
    [org |-> o, channel |-> c, number |-> n, status |-> "open",
     discord |-> None, user |-> None, closedAt |-> FALSE, version |-> 1]

-------------------------------------------------------------------------------
(* Requests that update a ticket *)

(* get_by_id: `scope` is the caller's organisation on the web routes and   *)
(* None on the bot routes, which have nothing to cross-check against.      *)
Loads(r, t, scope) ==
    /\ txn[r] = None
    /\ Exists(t)
    /\ scope \in {None, tickets[t].org}
    /\ audit[t] < MaxAudit

Holds(r, t, entity) ==
    /\ txn' = [txn EXCEPT ![r] = [pc |-> "loaded", ticket |-> t,
                                  entity |-> entity, base |-> tickets[t]]]
    /\ UNCHANGED <<tickets, sequence, audit>>

Claim(r, t, scope, who) ==
    /\ Loads(r, t, scope)
    /\ CanClaim(tickets[t])
    /\ Holds(r, t, Claimed(tickets[t], who))

Unclaim(r, t, scope) ==
    /\ Loads(r, t, scope)
    /\ CanUnclaim(tickets[t])
    /\ Holds(r, t, Unclaimed(tickets[t]))

Transfer(r, t, scope, who) ==
    /\ Loads(r, t, scope)
    /\ CanTransfer(tickets[t])
    /\ Holds(r, t, Transferred(tickets[t], who))

Close(r, t, scope) ==
    /\ Loads(r, t, scope)
    /\ CanClose(tickets[t])
    /\ Holds(r, t, Closed(tickets[t]))

(* Mutant: update() does not compare versions. *)
VersionMatches_Never(row, entity) == TRUE

VersionMatches(row, entity) == row.version = entity.version

(* The repository's update(): re-read, compare versions, mark the row      *)
(* dirty; a mismatch raises and rolls the request back.                    *)
Check(r) ==
    /\ Busy(r, "loaded")
    /\ LET row    == tickets[txn[r].ticket]
           entity == txn[r].entity
       IN  txn' = [txn EXCEPT ![r] =
                IF VersionMatches(row, entity)
                THEN [pc |-> "checked", ticket |-> txn[r].ticket, base |-> row,
                      entity |-> [entity EXCEPT !.version = @ + 1]]
                ELSE None]
    /\ UNCHANGED <<tickets, sequence, audit>>

(* commit(): flush the UPDATE and the audit row together. *)
CommitUpdate(r) ==
    /\ Busy(r, "checked")
    /\ LET t   == txn[r].ticket
           row == Written(tickets[t], txn[r].base, txn[r].entity)
       IN  /\ IndexAdmits(t, row)
           /\ tickets' = [tickets EXCEPT ![t] = row]
           /\ audit' = [audit EXCEPT ![t] = @ + 1]
    /\ txn' = [txn EXCEPT ![r] = None]
    /\ UNCHANGED sequence

-------------------------------------------------------------------------------
(* Requests that create a ticket *)

(* Mutant: the number is read without taking the row lock. *)
SequenceUnlocked_NoLock(o) == TRUE

(* The row lock on the organisation's sequence row is held from the upsert *)
(* until the transaction ends.                                             *)
SequenceUnlocked(o) ==
    \A q \in Requests : ~ (Busy(q, "numbered") /\ txn[q].entity.org = o)

Fresh(t) ==
    ~ Exists(t) /\ \A q \in Requests : ~ (Busy(q, "numbered") /\ txn[q].ticket = t)

(* next_ticket_number() and Ticket.create() *)
AllocateNumber(r, o, c, t) ==
    /\ txn[r] = None
    /\ Fresh(t)
    /\ SequenceUnlocked(o)
    /\ LET entity == Opened(o, c, sequence[o] + 1)
       IN  txn' = [txn EXCEPT ![r] = [pc |-> "numbered", ticket |-> t,
                                      entity |-> entity, base |-> entity]]
    /\ UNCHANGED <<tickets, sequence, audit>>

CommitCreate(r) ==
    /\ Busy(r, "numbered")
    /\ LET t   == txn[r].ticket
           row == txn[r].entity
       IN  /\ IndexAdmits(t, row)
           /\ NumberIsFree(row)
           /\ tickets' = [tickets EXCEPT ![t] = row]
           /\ sequence' = [sequence EXCEPT ![row.org] = row.number]
           /\ audit' = [audit EXCEPT ![t] = 1]
    /\ txn' = [txn EXCEPT ![r] = None]

(* An index violation, a lost connection, a cancelled request or a crash   *)
(* of the process: the transaction is rolled back, whatever it had done.   *)
Rollback(r) ==
    /\ txn[r] # None
    /\ txn' = [txn EXCEPT ![r] = None]
    /\ UNCHANGED <<tickets, sequence, audit>>

-------------------------------------------------------------------------------
Init ==
    /\ tickets = [t \in Tickets |-> None]
    /\ sequence = [o \in Orgs |-> 0]
    /\ audit = [t \in Tickets |-> 0]
    /\ txn = [r \in Requests |-> None]

Update(r) ==
    \E t \in Tickets, scope \in Orgs \cup {None} :
        \/ \E who \in TicketActor : Claim(r, t, scope, who)
        \/ Unclaim(r, t, scope)
        \/ \E who \in TicketActor : Transfer(r, t, scope, who)
        \/ Close(r, t, scope)

Create(r) ==
    \E o \in Orgs, c \in Channels, t \in Tickets : AllocateNumber(r, o, c, t)

Next ==
    \E r \in Requests :
        \/ Update(r)
        \/ Check(r)
        \/ CommitUpdate(r)
        \/ Create(r)
        \/ CommitCreate(r)
        \/ Rollback(r)

Spec == Init /\ [][Next]_vars

-------------------------------------------------------------------------------
(* Properties *)

(* The version of a disputed ticket lags behind its audit trail: two        *)
(* requests were checked against the same version and both committed.       *)
Disputed(t) == tickets[t].version # audit[t]

Agreed(t) == Exists(t) /\ ~ Disputed(t)

(* An organisation's tickets carry exactly the numbers 1 .. sequence[o],    *)
(* each once, whatever creations were rolled back or ran side by side       *)
(* (next_ticket_number: "Atomic upsert-and-increment ... safe under         *)
(* concurrent calls").                                                      *)
NumbersHaveNoGap ==
    \A o \in Orgs : \A n \in 1 .. sequence[o] :
        \E t \in Tickets : Exists(t) /\ tickets[t].org = o /\ tickets[t].number = n

(* No two tickets of an organisation, stored or still being inserted, have  *)
(* the same number: the unique constraint is never what stops a creation.   *)
NumbersAreDistinct ==
    /\ \A t, u \in Tickets :
          (Exists(t) /\ Exists(u) /\ tickets[t].org = tickets[u].org
             /\ tickets[t].number = tickets[u].number) => t = u
    /\ \A r \in Requests : Busy(r, "numbered") =>
          /\ NumberIsFree(txn[r].entity)
          /\ \A q \in Requests :
                (Busy(q, "numbered") /\ txn[q].entity.org = txn[r].entity.org
                   /\ txn[q].entity.number = txn[r].entity.number) => q = r

NumberingIsDense == NumbersHaveNoGap /\ NumbersAreDistinct

(* At most one open or claimed ticket per Discord channel, also when a late *)
(* update reopens a ticket whose channel has been reused meanwhile.         *)
OneActivePerChannel ==
    \A t, u \in Tickets :
        (/\ Exists(t) /\ Active(tickets[t])
         /\ Exists(u) /\ Active(tickets[u])
         /\ tickets[t].channel = tickets[u].channel) => t = u

(* A ticket that no race has touched is coherent: nobody holds an open      *)
(* ticket, exactly one account holds a claimed one, at most one a closed    *)
(* one, and it has a closing time exactly when it is closed.                *)
Coherent(row) ==
    /\ row.status = "open" => row.discord = None /\ row.user = None
    /\ row.status = "claimed" => [discord |-> row.discord, user |-> row.user] \in TicketActor
    /\ row.status = "closed" => row.discord = None \/ row.user = None
    /\ row.closedAt <=> row.status = "closed"

AgreedTicketsAreCoherent ==
    \A t \in Tickets : Agreed(t) => Coherent(tickets[t])

(* get_by_discord_channel_id answers with the most recently created ticket  *)
(* of the channel ("The most recently created one is always the current     *)
(* ticket for that channel"): an active ticket that no race has touched is  *)
(* the newest of its organisation on that channel.                          *)
ActiveTicketIsNewest ==
    \A t, u \in Tickets :
        (/\ Agreed(t) /\ Active(tickets[t])
         /\ Exists(u)
         /\ tickets[u].org = tickets[t].org
         /\ tickets[u].channel = tickets[t].channel)
            => tickets[u].number =< tickets[t].number

(* A request disputes a ticket only by committing over a change made after  *)
(* its own version check: an update whose ticket still is the row it was    *)
(* checked against leaves version and audit trail together.                 *)
DisputesNeedAWindow ==
    [][\A r \in Requests, t \in Tickets :
          (/\ CommitUpdate(r)
           /\ txn[r].ticket = t
           /\ txn[r].base = tickets[t]
           /\ Agreed(t)) => Agreed(t)']_vars

(* What an organisation sees of the table, and the specification of it.     *)
Holder(row) ==
    IF row.discord = None /\ row.user = None THEN None
    ELSE [discord |-> row.discord, user |-> row.user]

DeskEntry(t) ==
    IF ~ Exists(t) THEN None
    ELSE [org |-> tickets[t].org, number |-> tickets[t].number,
          phase |-> IF Disputed(t) THEN "disputed" ELSE tickets[t].status,
          holder |-> IF Disputed(t) THEN None ELSE Holder(tickets[t])]

Desk == INSTANCE TicketDesk WITH
            Actors <- TicketActor,
            issued <- sequence,
            desk <- [t \in Tickets |-> DeskEntry(t)]

ASSUME NoEntryIsNone == None \notin Desk!Entry

(* The lifecycle implements the desk: numbers are issued one after another  *)
(* and, race windows apart, every change of a ticket is one legal move.     *)
ImplementsDesk == Desk!Spec

(* What the repository's tests and docs say of the version check: "the      *)
(* second update() call must detect its version is stale rather than        *)
(* silently overwriting the first writer's change".                         *)
NoLostUpdate == \A t \in Tickets : Exists(t) => ~ Disputed(t)
===============================================================================
