------------------------------ MODULE GuildLink ------------------------------
(***************************************************************************)
(* The Discord integration of the backend: the setup codes an organisation  *)
(* asks for in the web app and redeems from Discord, and the guild_links    *)
(* table they establish (application/discord_setup.py over                  *)
(* infrastructure/repositories.py).                                         *)
(*                                                                          *)
(* A request is one READ COMMITTED transaction; the awaits between its      *)
(* reads and its commit are where requests interleave:                      *)
(*                                                                          *)
(*   request_setup_token:  supersede the codes it sees -> commit            *)
(*   complete_setup:       read the code -> look the guild up ->            *)
(*                         [re-read and version check] -> commit            *)
(*   unlink_guild:         load the link -> version check -> commit         *)
(*                                                                          *)
(* Links are updated under the same version check as tickets (see           *)
(* TicketLifecycle), codes under none at all.                               *)
(***************************************************************************)
EXTENDS Integers, FiniteSets

CONSTANTS
    Orgs,       \* organisations
    Guilds,     \* Discord guilds
    Codes,      \* ids of setup tokens
    Links,      \* ids of guild links
    Requests,   \* concurrent HTTP requests
    None,       \* SQL NULL / "no row" / "no transaction"
    MaxAudit    \* BOUND: no request loads a link with this many audit rows

ASSUME MaxAuditAssumption == MaxAudit \in Nat

VARIABLES
    codes,      \* guild_setup_tokens: id -> row or None
    links,      \* guild_links: id -> row or None
    audit,      \* audit_logs: link id -> number of rows about that link
    uses,       \* history: code id -> number of setups committed with it
    txn         \* the open transaction of each request, or None

vars == <<codes, links, audit, uses, txn>>

-------------------------------------------------------------------------------
Code == [org : Orgs, expired : BOOLEAN, consumed : BOOLEAN,
         guild : Guilds \cup {None}]

Link == [org : Orgs, guild : Guilds, status : {"active", "revoked"},
         revokedAt : BOOLEAN, version : Nat \ {0}]

LinkColumns == {"org", "guild", "status", "revokedAt", "version"}

Txn == [op : {"request", "setup", "unlink"},
        pc : {"superseding", "code", "creating", "loaded", "checked"},
        org : Orgs, guild : Guilds \cup {None},
        code : Codes \cup {None}, seen : SUBSET Codes,
        link : Links \cup {None},
        entity : Link \cup {None}, base : Link \cup {None}]

(* NULL is no row, no transaction and no id; requests in flight are finite. *)
ASSUME NoneAssumption == None \notin Code \cup Link \cup Txn \cup Links \cup Codes \cup Guilds

ASSUME RequestsAssumption == IsFiniteSet(Requests)

(* Every row and every open transaction has its type. *)
TypeOK ==
    /\ codes \in [Codes -> Code \cup {None}]
    /\ links \in [Links -> Link \cup {None}]
    /\ audit \in [Links -> Nat]
    /\ uses \in [Codes -> Nat]
    /\ txn \in [Requests -> Txn \cup {None}]

-------------------------------------------------------------------------------
(* Reading the tables *)

Exists(l) == links[l] # None

At(r, pc) == txn[r] # None /\ txn[r].pc = pc

IsActive(row) == row.status = "active"

(* Neither consumed, by a guild or by a newer code, nor past its lifetime. *)
Redeemable(c) == codes[c] # None /\ ~ codes[c].consumed /\ ~ codes[c].expired

Outstanding(o) ==
    {c \in Codes : codes[c] # None /\ codes[c].org = o /\ ~ codes[c].consumed}

(* get_by_discord_guild_id: every row of the guild, whatever its status. *)
RowsOf(g) == {l \in Links : Exists(l) /\ links[l].guild = g}

(* get_active_by_discord_guild_id *)
ActiveRowsOf(g) == {l \in Links : Exists(l) /\ links[l].guild = g /\ IsActive(links[l])}

(* Mutant: nothing stops a second active row. *)
IndexAdmits_Always(l, row) == TRUE

(* uq_guild_links_discord_guild_id_active, the partial unique index. *)
IndexAdmits(l, row) ==
    IsActive(row) => \A k \in ActiveRowsOf(row.guild) : k = l

(* The UPDATE statement: only the columns that differ from the row the      *)
(* entity was checked against are written.                                  *)
Written(row, base, entity) ==
    [c \in LinkColumns |-> IF entity[c] = base[c] THEN row[c] ELSE entity[c]]

-------------------------------------------------------------------------------
(* The domain *)

Linked(o, g) ==
    [org |-> o, guild |-> g, status |-> "active", revokedAt |-> FALSE, version |-> 1]

(* Mutant: reclaiming a row leaves it with its former organisation. *)
Relinked_KeepsOrg(row, o) == [row EXCEPT !.status = "active", !.revokedAt = FALSE]

Relinked(row, o) ==
    [row EXCEPT !.org = o, !.status = "active", !.revokedAt = FALSE]

(* Mutant: a revoked row keeps no time of revocation. *)
Revoked_NoTime(row) == [row EXCEPT !.status = "revoked"]

(* revoke() has no guard: a revoked row can be revoked again. *)
Revoked(row) == [row EXCEPT !.status = "revoked", !.revokedAt = TRUE]

(* Mutant: whoever holds a code may take an active guild over. *)
Free_Always(row, o) == TRUE

(* GuildAlreadyLinkedToAnotherOrganizationError is raised otherwise. *)
Free(row, o) == ~ (IsActive(row) /\ row.org # o)

Begin(op, pc, o) ==
    [op |-> op, pc |-> pc, org |-> o, guild |-> None, code |-> None,
     seen |-> {}, link |-> None, entity |-> None, base |-> None]

-------------------------------------------------------------------------------
(* request_setup_token *)

(* The UPDATE that supersedes works on the codes its snapshot shows; a code *)
(* inserted by a request that commits meanwhile is not among them.          *)
RequestCode(r, o, c) ==
    /\ txn[r] = None
    /\ codes[c] = None
    /\ \A q \in Requests : At(q, "superseding") => txn[q].code # c
    /\ txn' = [txn EXCEPT ![r] = [Begin("request", "superseding", o) EXCEPT
                                     !.code = c, !.seen = Outstanding(o)]]
    /\ UNCHANGED <<codes, links, audit, uses>>

NewCode(o) == [org |-> o, expired |-> FALSE, consumed |-> FALSE, guild |-> None]

(* Mutant: outstanding codes stay valid. *)
CommitRequest_KeepsOld(r) ==
    /\ At(r, "superseding")
    /\ codes' = [codes EXCEPT ![txn[r].code] = NewCode(txn[r].org)]
    /\ txn' = [txn EXCEPT ![r] = None]
    /\ UNCHANGED <<links, audit, uses>>

CommitRequest(r) ==
    /\ At(r, "superseding")
    /\ codes' = [c \in Codes |->
                    CASE c = txn[r].code    -> NewCode(txn[r].org)
                      [] c \in txn[r].seen  -> [codes[c] EXCEPT !.consumed = TRUE]
                      [] OTHER              -> codes[c]]
    /\ txn' = [txn EXCEPT ![r] = None]
    /\ UNCHANGED <<links, audit, uses>>

-------------------------------------------------------------------------------
(* complete_setup *)

ReadCode(r, c, g) ==
    /\ txn[r] = None
    /\ Redeemable(c)
    /\ txn' = [txn EXCEPT ![r] = [Begin("setup", "code", codes[c].org) EXCEPT
                                     !.code = c, !.guild = g]]
    /\ UNCHANGED <<codes, links, audit, uses>>

(* The guild has one row, of this organisation or revoked: reclaim it.      *)
(* With more rows scalar_one_or_none raises and the request is rolled back. *)
FindLink(r) ==
    /\ At(r, "code")
    /\ \E l \in Links :
          /\ RowsOf(txn[r].guild) = {l}
          /\ Free(links[l], txn[r].org)
          /\ audit[l] < MaxAudit
          /\ txn' = [txn EXCEPT ![r].pc = "loaded", ![r].link = l,
                                ![r].entity = Relinked(links[l], txn[r].org),
                                ![r].base = links[l]]
    /\ UNCHANGED <<codes, links, audit, uses>>

(* The guild has no row: create one. *)
CreateLink(r, l) ==
    /\ At(r, "code")
    /\ RowsOf(txn[r].guild) = {}
    /\ ~ Exists(l)
    /\ \A q \in Requests : At(q, "creating") => txn[q].link # l
    /\ txn' = [txn EXCEPT ![r].pc = "creating", ![r].link = l,
                          ![r].entity = Linked(txn[r].org, txn[r].guild)]
    /\ UNCHANGED <<codes, links, audit, uses>>

(* token.consume() and the unversioned update of the token row. *)
Consume(r) ==
    /\ codes' = [codes EXCEPT ![txn[r].code].consumed = TRUE,
                              ![txn[r].code].guild = txn[r].guild]
    /\ uses' = [uses EXCEPT ![txn[r].code] = @ + 1]

CommitCreate(r) ==
    /\ At(r, "creating")
    /\ IndexAdmits(txn[r].link, txn[r].entity)
    /\ links' = [links EXCEPT ![txn[r].link] = txn[r].entity]
    /\ audit' = [audit EXCEPT ![txn[r].link] = 1]
    /\ Consume(r)
    /\ txn' = [txn EXCEPT ![r] = None]

-------------------------------------------------------------------------------
(* unlink_guild (web, by link id) and unlink_guild_by_discord_id (bot)       *)

LoadForUnlink(r, l) ==
    /\ txn[r] = None
    /\ audit[l] < MaxAudit
    /\ txn' = [txn EXCEPT ![r] = [Begin("unlink", "loaded", links[l].org) EXCEPT
                                     !.link = l, !.entity = Revoked(links[l]),
                                     !.base = links[l]]]
    /\ UNCHANGED <<codes, links, audit, uses>>

UnlinkById(r, l, o) == Exists(l) /\ links[l].org = o /\ LoadForUnlink(r, l)

UnlinkByGuild(r, g) == \E l \in Links : ActiveRowsOf(g) = {l} /\ LoadForUnlink(r, l)

-------------------------------------------------------------------------------
(* The versioned update of a link, for complete_setup and both unlinks *)

VersionMatches(row, entity) == row.version = entity.version

Check(r) ==
    /\ At(r, "loaded")
    /\ LET row    == links[txn[r].link]
           entity == txn[r].entity
       IN  IF VersionMatches(row, entity)
           THEN txn' = [txn EXCEPT ![r].pc = "checked", ![r].base = row,
                                   ![r].entity = [entity EXCEPT !.version = @ + 1]]
           ELSE txn' = [txn EXCEPT ![r] = None]
    /\ UNCHANGED <<codes, links, audit, uses>>

CommitUpdate(r) ==
    /\ At(r, "checked")
    /\ LET l   == txn[r].link
           row == Written(links[l], txn[r].base, txn[r].entity)
       IN  /\ IndexAdmits(l, row)
           /\ links' = [links EXCEPT ![l] = row]
           /\ audit' = [audit EXCEPT ![l] = @ + 1]
    /\ IF txn[r].op = "setup" THEN Consume(r) ELSE UNCHANGED <<codes, uses>>
    /\ txn' = [txn EXCEPT ![r] = None]

-------------------------------------------------------------------------------
(* A domain or integrity error, a cancelled request or a crash. *)
Rollback(r) ==
    /\ txn[r] # None
    /\ txn' = [txn EXCEPT ![r] = None]
    /\ UNCHANGED <<codes, links, audit, uses>>

(* setup_token_ttl passes. *)
Expire(c) ==
    /\ Redeemable(c)
    /\ codes' = [codes EXCEPT ![c].expired = TRUE]
    /\ UNCHANGED <<links, audit, uses, txn>>

Init ==
    /\ codes = [c \in Codes |-> None]
    /\ links = [l \in Links |-> None]
    /\ audit = [l \in Links |-> 0]
    /\ uses = [c \in Codes |-> 0]
    /\ txn = [r \in Requests |-> None]

Step(r) ==
    \/ \E o \in Orgs, c \in Codes : RequestCode(r, o, c)
    \/ CommitRequest(r)
    \/ \E c \in Codes, g \in Guilds : ReadCode(r, c, g)
    \/ FindLink(r)
    \/ \E l \in Links : CreateLink(r, l)
    \/ CommitCreate(r)
    \/ \E l \in Links, o \in Orgs : UnlinkById(r, l, o)
    \/ \E g \in Guilds : UnlinkByGuild(r, g)
    \/ Check(r)
    \/ CommitUpdate(r)
    \/ Rollback(r)

Next ==
    \/ \E r \in Requests : Step(r)
    \/ \E c \in Codes : Expire(c)

Spec == Init /\ [][Next]_vars

-------------------------------------------------------------------------------
(* Properties *)

(* As with tickets, two updates checked against one version leave the        *)
(* version behind the audit trail for ever.                                  *)
Disputed(l) == links[l].version # audit[l]

Agreed(l) == Exists(l) /\ ~ Disputed(l)

(* A guild is linked to at most one organisation at a time, whatever setups, *)
(* relinks and unlinks overlap.                                              *)
OneActiveLinkPerGuild ==
    \A l, k \in Links :
        (/\ Exists(l) /\ IsActive(links[l])
         /\ Exists(k) /\ IsActive(links[k])
         /\ links[l].guild = links[k].guild) => l = k

(* Only overlapping requests bend the single-use rules: the setups a code    *)
(* has served, the codes an organisation has outstanding and the rows a      *)
(* guild has never outnumber the requests that run at the same time.         *)
Overlap == Cardinality(Requests)

CodesAreNotReused == \A c \in Codes : uses[c] =< Overlap

CodesAreSuperseded == \A o \in Orgs : Cardinality(Outstanding(o)) =< Overlap

RowsAreReclaimed ==
    \A g \in Guilds : Cardinality({l \in Links : Exists(l) /\ links[l].guild = g}) =< Overlap

RulesBendOnlyByOverlaps == CodesAreNotReused /\ CodesAreSuperseded /\ RowsAreReclaimed

(* The types; and a link that no race has touched is revoked exactly when it *)
(* has a time of revocation.                                                   *)
AgreedLinksAreCoherent ==
    \A l \in Links : Agreed(l) => (links[l].revokedAt <=> ~ IsActive(links[l]))

LinksAreSound == TypeOK /\ AgreedLinksAreCoherent

(* An active link never passes from one organisation to another: the former  *)
(* one must have unlinked it, or two requests raced on the row; and they did *)
(* only if one committed over a change made after its own version check.     *)
NoSilentTakeover ==
    [][/\ \A l \in Links :
             (Exists(l) /\ IsActive(links[l]) /\ IsActive(links[l]') /\ links'[l].org # links[l].org)
                 => Disputed(l)'
       /\ \A r \in Requests, l \in Links :
             (/\ CommitUpdate(r)
              /\ txn[r].link = l
              /\ txn[r].base = links[l]
              /\ Agreed(l)) => Agreed(l)']_vars

(* What complete_setup answers is what it stored: after its commit the guild *)
(* is actively linked to the organisation of the code, races apart.          *)
SetupTakesEffect ==
    [][\A r \in Requests, l \in Links :
          (/\ txn[r] # None /\ txn[r].op = "setup" /\ txn[r].link = l
           /\ CommitCreate(r) \/ CommitUpdate(r))
              => \/ Disputed(l)'
                 \/ /\ IsActive(links[l]')
                    /\ links'[l].org = codes[txn[r].code].org
                    /\ links'[l].guild = txn[r].guild]_vars

(* What the domain model says of relink(): it reclaims the guild's row,      *)
(* "preserving the row's id/history rather than inserting a new one".        *)
OneRowPerGuild == \A g \in Guilds : Cardinality(RowsOf(g)) =< 1
===============================================================================
