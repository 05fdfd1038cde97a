----------------------------- MODULE DiscordProofs -----------------------------
(***************************************************************************)
(* The two ends of the Discord integration: GuildLink, for any             *)
(* organisations, guilds, codes, links and any finite number of concurrent *)
(* requests, then TicketBot, for any channels, members and interactions    *)
(* and any finite set of tickets.                                          *)
(*                                                                         *)
(* Links: as with tickets no version exceeds the audit trail, so only a    *)
(* commit over the very row that was checked leaves a link agreed.         *)
(* Codes: a code that is outstanding was inserted by a request slot whose  *)
(* later requests have seen it, which gives each slot at most one; the     *)
(* setups a code serves all began before the first of them consumed it.    *)
(* The bot: a form works alone on its channel until the channel has its    *)
(* buttons or is gone, and of a channel's tickets only the latest can be   *)
(* active.                                                                 *)
(***************************************************************************)
EXTENDS GuildLink, TicketBot, FiniteSetTheorems, TLAPS

SansVersion(entity, row) == [entity EXCEPT !.version = row.version]

(* The domain methods that update a link. *)
IsMove(row, e) ==
    \/ \E o \in Orgs : Free(row, o) /\ e = Relinked(row, o)
    \/ e = Revoked(row)

IsCoherent(row) == row.revokedAt <=> ~ IsActive(row)

VersionsAreAudited ==
    \A l \in Links : Exists(l) => links[l].version =< audit[l]

Updating(r) == At(r, "loaded") \/ At(r, "checked")

(* An open update: a base that nothing has overtaken is the current row,    *)
(* and a setup makes the guild's row an active one of its organisation.     *)
UpdateIsSound(r) ==
    LET l == txn[r].link IN
    /\ l \in Links
    /\ Exists(l)
    /\ txn[r].base \in Link
    /\ txn[r].entity \in Link
    /\ txn[r].base.guild = links[l].guild
    /\ txn[r].entity.guild = links[l].guild
    /\ txn[r].base.version =< audit[l]
    /\ At(r, "loaded")  => txn[r].entity.version = txn[r].base.version
    /\ At(r, "checked") => txn[r].entity.version = txn[r].base.version + 1
    /\ txn[r].base.version = audit[l] =>
          /\ txn[r].base = links[l]
          /\ IsMove(txn[r].base, SansVersion(txn[r].entity, txn[r].base))
    /\ txn[r].op = "setup" =>
          /\ IsActive(txn[r].entity)
          /\ txn[r].entity.org = txn[r].org
          /\ txn[r].guild = links[l].guild

UpdatesAreSound == \A r \in Requests : Updating(r) => UpdateIsSound(r)

(* An open creation inserts a row of its own, with an id nobody else uses.  *)
CreationIsSound(r) ==
    /\ txn[r].op = "setup"
    /\ txn[r].link \in Links
    /\ ~ Exists(txn[r].link)
    /\ txn[r].entity = Linked(txn[r].org, txn[r].guild)
    /\ \A q \in Requests : At(q, "creating") /\ txn[q].link = txn[r].link => q = r

CreationsAreSound == \A r \in Requests : At(r, "creating") => CreationIsSound(r)

(* An open setup works on a stored code of its organisation. *)
SetupIsSound(r) ==
    /\ txn[r].code \in Codes
    /\ codes[txn[r].code] # None
    /\ codes[txn[r].code].org = txn[r].org
    /\ txn[r].guild \in Guilds

IsSetup(r) == txn[r] # None /\ txn[r].op = "setup"

SetupsAreSound ==
    \A r \in Requests :
        /\ IsSetup(r) => SetupIsSound(r)
        /\ At(r, "code") => txn[r].op = "setup"

(* An open request for a code has an id of its own and supersedes codes of  *)
(* its organisation only.                                                   *)
RequestIsSound(r) ==
    /\ txn[r].op = "request"
    /\ txn[r].code \in Codes
    /\ codes[txn[r].code] = None
    /\ \A c \in txn[r].seen : codes[c] # None /\ codes[c].org = txn[r].org
    /\ \A q \in Requests : At(q, "superseding") /\ txn[q].code = txn[r].code => q = r

RequestsAreSound == \A r \in Requests : At(r, "superseding") => RequestIsSound(r)

(* f names, for each outstanding code, the slot that inserted it. *)
AreMakers(f, o) ==
    /\ \A c, d \in Outstanding(o) : f[c] = f[d] => c = d
    /\ \A r \in Requests : \A c \in Outstanding(o) :
          At(r, "superseding") /\ txn[r].org = o /\ f[c] = r => c \in txn[r].seen

CodesHaveMakers ==
    \A o \in Orgs : \E f \in [Outstanding(o) -> Requests] : AreMakers(f, o)

(* A code that has served a setup is consumed: no further setup can begin.  *)
SetupsOf(c) == {r \in Requests : IsSetup(r) /\ txn[r].code = c}

UsesAreCounted ==
    \A c \in Codes :
        /\ uses[c] + Cardinality(SetupsOf(c)) =< Overlap
        /\ uses[c] > 0 => codes[c] # None /\ codes[c].consumed

(* A guild with a row gets no further one, except from setups that began    *)
(* before the first was committed.                                          *)
CreatorsFor(g) == {r \in Requests : At(r, "creating") /\ txn[r].guild = g}

RowsAreCounted ==
    \A g \in Guilds :
        /\ IsFiniteSet(RowsOf(g))
        /\ Cardinality(RowsOf(g)) + Cardinality(CreatorsFor(g)) =< Overlap

(* The invariant in two halves: about the codes and about the links. *)
CodesAreSound ==
    /\ SetupsAreSound
    /\ RequestsAreSound
    /\ CodesHaveMakers
    /\ UsesAreCounted

LinkTableIsSound ==
    /\ VersionsAreAudited
    /\ OneActiveLinkPerGuild
    /\ AgreedLinksAreCoherent

LinkSideIsSound ==
    /\ LinkTableIsSound
    /\ UpdatesAreSound
    /\ CreationsAreSound
    /\ RowsAreCounted

Inductive == TypeOK /\ CodesAreSound /\ LinkSideIsSound

-------------------------------------------------------------------------------
(* Rows and transactions *)

LEMMA RequestsAreCounted ==
    /\ Overlap \in Nat
    /\ \A S \in SUBSET Requests : /\ IsFiniteSet(S)
                                  /\ Cardinality(S) \in Nat
                                  /\ Cardinality(S) =< Overlap
  BY RequestsAssumption, FS_Subset, FS_CardinalityType DEF Overlap

LEMMA WrittenIsLink ==
    ASSUME NEW row \in Link, NEW base \in Link, NEW entity \in Link
    PROVE  /\ Written(row, base, entity) \in Link
           /\ base = row => Written(row, base, entity) = entity
           /\ entity.version # base.version
                 => Written(row, base, entity).version = entity.version
           /\ entity.guild = row.guild /\ base.guild = row.guild
                 => Written(row, base, entity).guild = row.guild
  <1> DEFINE new == Written(row, base, entity)
  <1>1. new \in Link
    BY DEF Written, LinkColumns, Link
  <1>2. ASSUME base = row PROVE new = entity
    BY <1>2, <1>1 DEF Written, LinkColumns, Link
  <1>3. entity.version # base.version => new.version = entity.version
    BY DEF Written, LinkColumns
  <1>4. entity.guild = row.guild /\ base.guild = row.guild => new.guild = row.guild
    BY DEF Written, LinkColumns
  <1> QED BY <1>1, <1>2, <1>3, <1>4

(* What relink() and revoke() do to a row. *)
LEMMA MovesOfALink ==
    ASSUME NEW row \in Link, NEW e, IsMove(row, e)
    PROVE  /\ e \in Link
           /\ e.guild = row.guild
           /\ e.version = row.version
           /\ IsCoherent(e)
           /\ IsActive(row) /\ IsActive(e) => e.org = row.org
  <1>1. CASE e = Revoked(row)
    BY <1>1 DEF Revoked, Link, IsCoherent, IsActive
  <1>2. ASSUME NEW o \in Orgs, Free(row, o), e = Relinked(row, o)
        PROVE  /\ e \in Link
               /\ e.guild = row.guild
               /\ e.version = row.version
               /\ IsCoherent(e)
               /\ IsActive(row) /\ IsActive(e) => e.org = row.org
    BY <1>2 DEF Relinked, Free, Link, IsCoherent, IsActive
  <1> QED BY <1>1, <1>2 DEF IsMove

LEMMA LinkedIsLink ==
    ASSUME NEW o \in Orgs, NEW g \in Guilds
    PROVE  /\ Linked(o, g) \in Link
           /\ Linked(o, g).org = o /\ Linked(o, g).guild = g
           /\ Linked(o, g).version = 1
           /\ IsActive(Linked(o, g)) /\ IsCoherent(Linked(o, g))
  BY DEF Linked, Link, IsActive, IsCoherent

LEMMA OneMore ==
    ASSUME NEW S, NEW T, NEW x, IsFiniteSet(S), x \notin S, T = S \cup {x}
    PROVE  IsFiniteSet(T) /\ Cardinality(T) = Cardinality(S) + 1 /\ Cardinality(S) \in Nat
  BY FS_AddElement, FS_CardinalityType

LEMMA OneLess ==
    ASSUME NEW S, NEW T, NEW x, IsFiniteSet(S), x \in S, T = S \ {x}
    PROVE  Cardinality(T) = Cardinality(S) - 1 /\ Cardinality(S) \in Nat
  BY FS_RemoveElement, FS_CardinalityType

-------------------------------------------------------------------------------
(* What a step leaves alone *)

LEMMA InitInductive == Init => Inductive
  <1> SUFFICES ASSUME Init PROVE Inductive
    OBVIOUS
  <1> USE DEF Init
  <1>1. TypeOK
    BY DEF TypeOK
  <1>2. /\ \A l \in Links : ~ Exists(l)
        /\ \A o \in Orgs : Outstanding(o) = {}
        /\ \A g \in Guilds : RowsOf(g) = {}
    BY DEF Exists, Outstanding, RowsOf
  <1>3. /\ \A r \in Requests : ~ IsSetup(r)
        /\ \A r \in Requests : \A pc \in {"superseding", "code", "creating", "loaded", "checked"} : ~ At(r, pc)
    BY DEF At, IsSetup
  <1>4. SetupsAreSound /\ RequestsAreSound /\ UpdatesAreSound /\ CreationsAreSound
    BY <1>3 DEF SetupsAreSound, RequestsAreSound, UpdatesAreSound, CreationsAreSound, Updating
  <1>5. CodesHaveMakers
    <2> SUFFICES ASSUME NEW o \in Orgs
                 PROVE  \E f \in [Outstanding(o) -> Requests] : AreMakers(f, o)
      BY DEF CodesHaveMakers
    <2>1. [c \in Outstanding(o) |-> CHOOSE r \in Requests : TRUE] \in [Outstanding(o) -> Requests]
      BY <1>2
    <2> QED BY <2>1, <1>2 DEF AreMakers
  <1>6. UsesAreCounted
    <2> SUFFICES ASSUME NEW c \in Codes
                 PROVE  uses[c] = 0 /\ Cardinality(SetupsOf(c)) =< Overlap /\ Cardinality(SetupsOf(c)) \in Nat
      BY RequestsAreCounted DEF UsesAreCounted
    <2> QED BY RequestsAreCounted DEF SetupsOf
  <1>7. RowsAreCounted
    <2> SUFFICES ASSUME NEW g \in Guilds
                 PROVE  /\ IsFiniteSet(RowsOf(g))
                        /\ Cardinality(RowsOf(g)) + Cardinality(CreatorsFor(g)) =< Overlap
      BY DEF RowsAreCounted
    <2>1. IsFiniteSet(RowsOf(g)) /\ Cardinality(RowsOf(g)) = 0
      BY <1>2, FS_EmptySet
    <2>2. Cardinality(CreatorsFor(g)) =< Overlap /\ Cardinality(CreatorsFor(g)) \in Nat
      BY RequestsAreCounted DEF CreatorsFor
    <2> QED BY <2>1, <2>2
  <1>8. LinkTableIsSound
    BY <1>2 DEF LinkTableIsSound, VersionsAreAudited, OneActiveLinkPerGuild, AgreedLinksAreCoherent, Agreed
  <1> QED BY <1>1, <1>4, <1>5, <1>6, <1>7, <1>8 DEF Inductive, CodesAreSound, LinkSideIsSound

LEMMA LinkTableUnchanged ==
    ASSUME LinkTableIsSound, UNCHANGED <<links, audit>>
    PROVE  LinkTableIsSound'
  BY DEF LinkTableIsSound, VersionsAreAudited, OneActiveLinkPerGuild, AgreedLinksAreCoherent,
         Exists, Agreed, Disputed, IsActive

(* Codes leave the outstanding ones, and requests that look now see all.    *)
LEMMA MakersStay ==
    ASSUME CodesHaveMakers,
           \A o \in Orgs : Outstanding(o)' \subseteq Outstanding(o),
           \A q \in Requests : At(q, "superseding")' =>
                \/ txn'[q] = txn[q]
                \/ \A o \in Orgs : txn'[q].org = o => txn'[q].seen = Outstanding(o)'
    PROVE  CodesHaveMakers'
  <1> SUFFICES ASSUME NEW o \in Orgs
               PROVE  (\E f \in [Outstanding(o) -> Requests] : AreMakers(f, o))'
    BY DEF CodesHaveMakers
  <1>1. PICK f \in [Outstanding(o) -> Requests] : AreMakers(f, o)
    BY DEF CodesHaveMakers
  <1> DEFINE S == Outstanding(o)'
             g == [c \in S |-> f[c]]
  <1>2. S \subseteq Outstanding(o)
    OBVIOUS
  <1> HIDE DEF S
  <1>3. g \in [S -> Requests] /\ \A c \in S : g[c] = f[c]
    BY <1>2
  <1> HIDE DEF g
  <1>4. \A c, d \in S : g[c] = g[d] => c = d
    BY <1>1, <1>2, <1>3 DEF AreMakers
  <1>5. ASSUME NEW q \in Requests, NEW c \in S,
               At(q, "superseding")', txn'[q].org = o, g[c] = q
        PROVE  c \in txn'[q].seen
    <2>1. CASE txn'[q] = txn[q]
      BY <2>1, <1>1, <1>2, <1>3, <1>5 DEF AreMakers, At
    <2>2. CASE \A p \in Orgs : txn'[q].org = p => txn'[q].seen = Outstanding(p)'
      BY <2>2, <1>5 DEF S
    <2> QED BY <2>1, <2>2, <1>5
  <1> QED BY <1>3, <1>4, <1>5 DEF AreMakers, S

(* A step of one request inside its transaction. *)
LEMMA InsideInductive ==
    ASSUME Inductive, TypeOK', NEW r \in Requests,
           UNCHANGED <<codes, links, audit, uses>>,
           \A q \in Requests : q # r => txn'[q] = txn[q],
           Updating(r)' => UpdateIsSound(r)',
           At(r, "creating")' => CreationIsSound(r)',
           \A q \in Requests : At(q, "creating") /\ At(r, "creating")' /\ q # r
                => txn[q].link # txn'[r].link,
           IsSetup(r)' => SetupIsSound(r)',
           At(r, "code")' => txn'[r].op = "setup",
           At(r, "superseding")' => /\ RequestIsSound(r)'
                                    /\ txn'[r].seen = Outstanding(txn'[r].org),
           \A q \in Requests : At(q, "superseding") /\ At(r, "superseding")' /\ q # r
                => txn[q].code # txn'[r].code,
           IsSetup(r)' => (IsSetup(r) /\ txn'[r].code = txn[r].code) \/ uses[txn'[r].code] = 0,
           At(r, "creating")' => RowsOf(txn'[r].guild) = {}
    PROVE  Inductive'
  <1> USE DEF Inductive, CodesAreSound, LinkSideIsSound
  <1>1. LinkTableIsSound'
    BY LinkTableUnchanged
  <1>2. UpdatesAreSound'
    <2> SUFFICES ASSUME NEW q \in Requests, q # r, Updating(q)'
                 PROVE  UpdateIsSound(q)'
      BY DEF UpdatesAreSound
    <2> QED BY DEF UpdatesAreSound, UpdateIsSound, Updating, At, Exists
  <1>3. CreationsAreSound'
    <2> SUFFICES ASSUME NEW q \in Requests, q # r, At(q, "creating")'
                 PROVE  CreationIsSound(q)'
      BY DEF CreationsAreSound
    <2>1. CreationIsSound(q) /\ At(q, "creating") /\ txn'[q] = txn[q]
      BY DEF CreationsAreSound, At
    <2>2. \A p \in Requests : At(p, "creating")' /\ txn'[p].link = txn'[q].link => p = q
      BY <2>1 DEF CreationIsSound, At
    <2> QED BY <2>1, <2>2 DEF CreationIsSound, Exists
  <1>4. SetupsAreSound'
    BY DEF SetupsAreSound, SetupIsSound, IsSetup, At
  <1>5. RequestsAreSound'
    <2> SUFFICES ASSUME NEW q \in Requests, q # r, At(q, "superseding")'
                 PROVE  RequestIsSound(q)'
      BY DEF RequestsAreSound
    <2>1. RequestIsSound(q) /\ At(q, "superseding") /\ txn'[q] = txn[q]
      BY DEF RequestsAreSound, At
    <2>2. \A p \in Requests : At(p, "superseding")' /\ txn'[p].code = txn'[q].code => p = q
      BY <2>1 DEF RequestIsSound, At
    <2> QED BY <2>1, <2>2 DEF RequestIsSound
  <1>6. CodesHaveMakers'
    <2>1. \A o \in Orgs : Outstanding(o)' = Outstanding(o)
      BY DEF Outstanding
    <2>2. ASSUME At(r, "superseding")'
          PROVE  \A o \in Orgs : txn'[r].org = o => txn'[r].seen = Outstanding(o)'
      BY <2>1, <2>2
    <2> QED BY <2>1, <2>2, MakersStay
  <1>7. UsesAreCounted'
    <2> SUFFICES ASSUME NEW c \in Codes
                 PROVE  uses[c] + Cardinality(SetupsOf(c)') =< Overlap
      BY DEF UsesAreCounted, Overlap
    <2>1. CASE uses[c] = 0
      BY <2>1, RequestsAreCounted DEF SetupsOf
    <2>2. CASE uses[c] # 0
      <3>1. SetupsOf(c)' \subseteq SetupsOf(c)
        BY <2>2 DEF SetupsOf, IsSetup
      <3>2. IsFiniteSet(SetupsOf(c)) /\ Cardinality(SetupsOf(c)) \in Nat
        BY RequestsAreCounted DEF SetupsOf
      <3>3. Cardinality(SetupsOf(c)') =< Cardinality(SetupsOf(c)) /\ Cardinality(SetupsOf(c)') \in Nat
        BY <3>1, <3>2, FS_Subset, FS_CardinalityType
      <3>4. uses[c] + Cardinality(SetupsOf(c)) =< Overlap /\ uses[c] \in Nat
        BY DEF UsesAreCounted, TypeOK
      <3> QED BY <3>2, <3>3, <3>4, RequestsAreCounted
    <2> QED BY <2>1, <2>2
  <1>8. RowsAreCounted'
    <2> SUFFICES ASSUME NEW g \in Guilds
                 PROVE  /\ IsFiniteSet(RowsOf(g))
                        /\ Cardinality(RowsOf(g)) + Cardinality(CreatorsFor(g)') =< Overlap
      BY DEF RowsAreCounted, RowsOf, Exists, Overlap
    <2>0. /\ IsFiniteSet(RowsOf(g)) /\ Cardinality(RowsOf(g)) \in Nat
          /\ Cardinality(RowsOf(g)) + Cardinality(CreatorsFor(g)) =< Overlap
      BY FS_CardinalityType DEF RowsAreCounted
    <2>1. CASE RowsOf(g) = {}
      <3>1. Cardinality(RowsOf(g)) = 0
        BY <2>1, FS_EmptySet
      <3>2. Cardinality(CreatorsFor(g)') =< Overlap /\ Cardinality(CreatorsFor(g)') \in Nat
        BY RequestsAreCounted DEF CreatorsFor
      <3> QED BY <2>0, <3>1, <3>2
    <2>2. CASE RowsOf(g) # {}
      <3>1. CreatorsFor(g)' \subseteq CreatorsFor(g)
        BY <2>2 DEF CreatorsFor, At
      <3>2. IsFiniteSet(CreatorsFor(g)) /\ Cardinality(CreatorsFor(g)) \in Nat
        BY RequestsAreCounted DEF CreatorsFor
      <3>3. Cardinality(CreatorsFor(g)') =< Cardinality(CreatorsFor(g)) /\ Cardinality(CreatorsFor(g)') \in Nat
        BY <3>1, <3>2, FS_Subset, FS_CardinalityType
      <3> QED BY <2>0, <3>2, <3>3, RequestsAreCounted
    <2> QED BY <2>1, <2>2
  <1> QED BY <1>1, <1>2, <1>3, <1>4, <1>5, <1>6, <1>7, <1>8

-------------------------------------------------------------------------------
(* The steps inside a transaction *)

LEMMA RequestCodeInductive ==
    ASSUME Inductive, NEW r \in Requests, NEW o \in Orgs, NEW c \in Codes, RequestCode(r, o, c)
    PROVE  Inductive'
  <1> DEFINE new == [Begin("request", "superseding", o) EXCEPT !.code = c, !.seen = Outstanding(o)]
  <1>1. /\ new \in Txn
        /\ new.op = "request" /\ new.pc = "superseding" /\ new.org = o
        /\ new.code = c /\ new.seen = Outstanding(o)
    BY DEF Begin, Txn, Outstanding
  <1>2. txn' = [txn EXCEPT ![r] = new] /\ UNCHANGED <<codes, links, audit, uses>>
    BY DEF RequestCode
  <1> HIDE DEF new
  <1>3. TypeOK' /\ txn'[r] = new /\ \A q \in Requests : q # r => txn'[q] = txn[q]
    BY <1>1, <1>2 DEF Inductive, TypeOK
  <1>4. \A q \in Requests : At(q, "superseding") => txn[q].code # c
    BY DEF RequestCode
  <1>5. RequestIsSound(r)'
    <2>1. \A d \in txn'[r].seen : codes'[d] # None /\ codes'[d].org = o
      BY <1>1, <1>2, <1>3 DEF Outstanding
    <2>2. \A q \in Requests : At(q, "superseding")' /\ txn'[q].code = c => q = r
      BY <1>3, <1>4 DEF At
    <2>3. codes'[c] = None
      BY <1>2 DEF RequestCode
    <2> QED BY <1>1, <1>3, <2>1, <2>2, <2>3 DEF RequestIsSound
  <1>6. ~ Updating(r)' /\ ~ At(r, "creating")' /\ ~ At(r, "code")' /\ ~ IsSetup(r)'
    BY <1>1, <1>3 DEF Updating, At, IsSetup
  <1> QED BY <1>1, <1>2, <1>3, <1>4, <1>5, <1>6, InsideInductive

LEMMA ReadCodeInductive ==
    ASSUME Inductive, NEW r \in Requests, NEW c \in Codes, NEW g \in Guilds, ReadCode(r, c, g)
    PROVE  Inductive'
  <1> DEFINE new == [Begin("setup", "code", codes[c].org) EXCEPT !.code = c, !.guild = g]
  <1>0. codes[c] \in Code /\ codes[c] # None /\ ~ codes[c].consumed /\ uses[c] \in Nat
    BY DEF ReadCode, Redeemable, Inductive, TypeOK
  <1>1. /\ new \in Txn
        /\ new.op = "setup" /\ new.pc = "code" /\ new.org = codes[c].org
        /\ new.code = c /\ new.guild = g
    BY <1>0 DEF Begin, Txn, Code
  <1>2. txn' = [txn EXCEPT ![r] = new] /\ UNCHANGED <<codes, links, audit, uses>>
    BY DEF ReadCode
  <1> HIDE DEF new
  <1>3. TypeOK' /\ txn'[r] = new /\ \A q \in Requests : q # r => txn'[q] = txn[q]
    BY <1>1, <1>2 DEF Inductive, TypeOK
  <1>4. SetupIsSound(r)'
    BY <1>0, <1>1, <1>2, <1>3 DEF SetupIsSound
  <1>5. uses[c] = 0
    BY <1>0 DEF Inductive, CodesAreSound, UsesAreCounted
  <1>6. ~ Updating(r)' /\ ~ At(r, "creating")' /\ ~ At(r, "superseding")'
    BY <1>1, <1>3 DEF Updating, At
  <1> QED BY <1>1, <1>2, <1>3, <1>4, <1>5, <1>6, InsideInductive

LEMMA FindLinkInductive ==
    ASSUME Inductive, NEW r \in Requests, FindLink(r)
    PROVE  Inductive'
  <1>0. /\ At(r, "code") /\ txn[r] \in Txn /\ txn[r].op = "setup"
        /\ IsSetup(r) /\ SetupIsSound(r)
    BY DEF FindLink, At, IsSetup, Inductive, TypeOK, CodesAreSound, SetupsAreSound
  <1>1. PICK l \in Links :
            /\ RowsOf(txn[r].guild) = {l}
            /\ Free(links[l], txn[r].org)
            /\ txn' = [txn EXCEPT ![r].pc = "loaded", ![r].link = l,
                                  ![r].entity = Relinked(links[l], txn[r].org),
                                  ![r].base = links[l]]
    BY DEF FindLink
  <1> DEFINE e == Relinked(links[l], txn[r].org)
             new == [txn[r] EXCEPT !.pc = "loaded", !.link = l, !.entity = e, !.base = links[l]]
  <1>2. Exists(l) /\ links[l] \in Link /\ links[l].guild = txn[r].guild /\ txn[r].org \in Orgs
    BY <1>0, <1>1 DEF RowsOf, Exists, Inductive, TypeOK, Txn
  <1>3. /\ e \in Link /\ IsActive(e) /\ e.org = txn[r].org
        /\ e.guild = links[l].guild /\ e.version = links[l].version
        /\ IsMove(links[l], e) /\ SansVersion(e, links[l]) = e
    BY <1>1, <1>2 DEF Relinked, Link, IsActive, IsMove, SansVersion
  <1> HIDE DEF e
  <1>4. /\ new \in Txn
        /\ new.op = "setup" /\ new.pc = "loaded" /\ new.org = txn[r].org
        /\ new.code = txn[r].code /\ new.guild = txn[r].guild
        /\ new.link = l /\ new.entity = e /\ new.base = links[l]
    BY <1>0, <1>2, <1>3 DEF Txn
  <1>5. txn' = [txn EXCEPT ![r] = new] /\ UNCHANGED <<codes, links, audit, uses>>
    BY <1>1 DEF FindLink, e
  <1> HIDE DEF new
  <1>6. TypeOK' /\ txn'[r] = new /\ \A q \in Requests : q # r => txn'[q] = txn[q]
    BY <1>4, <1>5 DEF Inductive, TypeOK
  <1>7. links[l].version =< audit[l]
    BY <1>2 DEF Inductive, LinkSideIsSound, LinkTableIsSound, VersionsAreAudited
  <1>8. UpdateIsSound(r)'
    BY <1>2, <1>3, <1>4, <1>5, <1>6, <1>7 DEF UpdateIsSound, At, Exists
  <1>9. SetupIsSound(r)' /\ IsSetup(r)'
    BY <1>0, <1>4, <1>5, <1>6, NoneAssumption DEF SetupIsSound, IsSetup
  <1>10. ~ At(r, "creating")' /\ ~ At(r, "superseding")' /\ ~ At(r, "code")'
    BY <1>4, <1>6 DEF At
  <1> QED BY <1>0, <1>4, <1>5, <1>6, <1>8, <1>9, <1>10, InsideInductive

LEMMA CreateLinkInductive ==
    ASSUME Inductive, NEW r \in Requests, NEW l \in Links, CreateLink(r, l)
    PROVE  Inductive'
  <1>0. /\ At(r, "code") /\ txn[r] \in Txn /\ txn[r].op = "setup"
        /\ IsSetup(r) /\ SetupIsSound(r)
    BY DEF CreateLink, At, IsSetup, Inductive, TypeOK, CodesAreSound, SetupsAreSound
  <1> DEFINE e == Linked(txn[r].org, txn[r].guild)
             new == [txn[r] EXCEPT !.pc = "creating", !.link = l, !.entity = e]
  <1>1. e \in Link
    BY <1>0, LinkedIsLink DEF Txn, SetupIsSound
  <1> HIDE DEF e
  <1>2. /\ new \in Txn
        /\ new.op = "setup" /\ new.pc = "creating" /\ new.org = txn[r].org
        /\ new.code = txn[r].code /\ new.guild = txn[r].guild
        /\ new.link = l /\ new.entity = e
    BY <1>0, <1>1 DEF Txn
  <1>3. txn' = [txn EXCEPT ![r] = new] /\ UNCHANGED <<codes, links, audit, uses>>
    BY DEF CreateLink, e
  <1> HIDE DEF new
  <1>4. TypeOK' /\ txn'[r] = new /\ \A q \in Requests : q # r => txn'[q] = txn[q]
    BY <1>2, <1>3 DEF Inductive, TypeOK
  <1>5. /\ ~ Exists(l) /\ RowsOf(txn[r].guild) = {}
        /\ \A q \in Requests : At(q, "creating") => txn[q].link # l
    BY DEF CreateLink
  <1>6. CreationIsSound(r)'
    BY <1>2, <1>3, <1>4, <1>5 DEF CreationIsSound, At, Exists, e
  <1>7. SetupIsSound(r)' /\ IsSetup(r)'
    BY <1>0, <1>2, <1>3, <1>4, NoneAssumption DEF SetupIsSound, IsSetup
  <1>8. ~ Updating(r)' /\ ~ At(r, "superseding")' /\ ~ At(r, "code")'
    BY <1>2, <1>4 DEF At, Updating
  <1> QED BY <1>0, <1>2, <1>3, <1>4, <1>5, <1>6, <1>7, <1>8, InsideInductive

LEMMA LoadForUnlinkInductive ==
    ASSUME Inductive, NEW r \in Requests, NEW l \in Links, Exists(l), LoadForUnlink(r, l)
    PROVE  Inductive'
  <1> DEFINE e == Revoked(links[l])
             new == [Begin("unlink", "loaded", links[l].org) EXCEPT
                        !.link = l, !.entity = e, !.base = links[l]]
  <1>1. links[l] \in Link
    BY DEF Inductive, TypeOK, Exists
  <1>2. /\ e \in Link /\ e.guild = links[l].guild /\ e.version = links[l].version
        /\ IsMove(links[l], e) /\ SansVersion(e, links[l]) = e
    BY <1>1 DEF Revoked, Link, IsMove, SansVersion
  <1> HIDE DEF e
  <1>3. /\ new \in Txn
        /\ new.op = "unlink" /\ new.pc = "loaded"
        /\ new.link = l /\ new.entity = e /\ new.base = links[l]
    BY <1>1, <1>2 DEF Begin, Txn, Link
  <1>4. txn' = [txn EXCEPT ![r] = new] /\ UNCHANGED <<codes, links, audit, uses>>
    BY DEF LoadForUnlink, e
  <1> HIDE DEF new
  <1>5. TypeOK' /\ txn'[r] = new /\ \A q \in Requests : q # r => txn'[q] = txn[q]
    BY <1>3, <1>4 DEF Inductive, TypeOK
  <1>6. links[l].version =< audit[l]
    BY DEF Inductive, LinkSideIsSound, LinkTableIsSound, VersionsAreAudited
  <1>7. UpdateIsSound(r)'
    BY <1>1, <1>2, <1>3, <1>4, <1>5, <1>6 DEF UpdateIsSound, At, Exists
  <1>8. ~ IsSetup(r)' /\ ~ At(r, "creating")' /\ ~ At(r, "superseding")' /\ ~ At(r, "code")'
    BY <1>3, <1>5 DEF At, IsSetup
  <1> QED BY <1>3, <1>4, <1>5, <1>7, <1>8, InsideInductive

(* The entity passes the check only with the version of the current row. *)
LEMMA CheckInductive ==
    ASSUME Inductive, NEW r \in Requests, Check(r)
    PROVE  Inductive'
  <1> DEFINE l == txn[r].link
             row == links[l]
             entity == txn[r].entity
             e == [entity EXCEPT !.version = @ + 1]
             new == [txn[r] EXCEPT !.pc = "checked", !.base = row, !.entity = e]
  <1>1. /\ txn[r] \in Txn /\ At(r, "loaded") /\ UpdateIsSound(r)
        /\ l \in Links /\ row \in Link /\ entity \in Link
    BY DEF Check, At, Inductive, TypeOK, LinkSideIsSound, UpdatesAreSound, UpdateIsSound,
           Updating, Exists
  <1>2. /\ e \in Link /\ e.guild = entity.guild /\ e.version = entity.version + 1
        /\ e.org = entity.org /\ (IsActive(e) <=> IsActive(entity))
    BY <1>1 DEF Link, IsActive
  <1>0. SansVersion(e, row) = SansVersion(entity, row)
    BY <1>1 DEF SansVersion, Link
  <1> HIDE DEF e
  <1>3. /\ new \in Txn
        /\ new.op = txn[r].op /\ new.pc = "checked" /\ new.org = txn[r].org
        /\ new.code = txn[r].code /\ new.guild = txn[r].guild
        /\ new.link = l /\ new.entity = e /\ new.base = row
    BY <1>1, <1>2 DEF Txn
  <1>4. /\ UNCHANGED <<codes, links, audit, uses>>
        /\ \/ VersionMatches(row, entity) /\ txn' = [txn EXCEPT ![r] = new]
           \/ txn' = [txn EXCEPT ![r] = None]
    <2>1. IF VersionMatches(row, entity)
          THEN txn' = [txn EXCEPT ![r] = new]
          ELSE txn' = [txn EXCEPT ![r] = None]
      BY DEF Check, e
    <2>2. UNCHANGED <<codes, links, audit, uses>>
      BY DEF Check
    <2> QED BY <2>1, <2>2
  <1> HIDE DEF new
  <1>5. \A q \in Requests : q # r => txn'[q] = txn[q]
    BY <1>4 DEF Inductive, TypeOK
  <1>6. CASE txn' = [txn EXCEPT ![r] = None]
    <2>1. TypeOK' /\ txn'[r] = None
      BY <1>4, <1>6 DEF Inductive, TypeOK
    <2>2. ~ IsSetup(r)' /\ ~ Updating(r)' /\ \A pc : ~ At(r, pc)'
      BY <2>1 DEF At, IsSetup, Updating
    <2> QED BY <1>4, <1>5, <2>1, <2>2, InsideInductive
  <1>7. CASE VersionMatches(row, entity) /\ txn' = [txn EXCEPT ![r] = new]
    <2>1. TypeOK' /\ txn'[r] = new
      BY <1>3, <1>4, <1>7 DEF Inductive, TypeOK
    <2>2. row.version =< audit[l] /\ Exists(l)
      BY <1>1 DEF Inductive, LinkSideIsSound, LinkTableIsSound, VersionsAreAudited, UpdateIsSound
    <2>3. row.version = audit[l] => IsMove(row, SansVersion(e, row))
      BY <1>0, <1>1, <1>7 DEF UpdateIsSound, VersionMatches
    <2> HIDE DEF l, row, entity
    <2>4. UpdateIsSound(r)'
      BY <1>1, <1>2, <1>3, <1>4, <1>7, <2>1, <2>2, <2>3
         DEF UpdateIsSound, VersionMatches, At, Exists, l, row, entity
    <2>5. ~ At(r, "creating")' /\ ~ At(r, "superseding")' /\ ~ At(r, "code")'
      BY <1>3, <2>1 DEF At
    <2>6. IsSetup(r)' => IsSetup(r) /\ SetupIsSound(r)' /\ txn'[r].code = txn[r].code
      BY <1>1, <1>3, <1>4, <2>1 DEF IsSetup, SetupIsSound, At, Inductive, CodesAreSound, SetupsAreSound
    <2> QED BY <1>4, <1>5, <2>1, <2>4, <2>5, <2>6, InsideInductive
  <1> QED BY <1>4, <1>6, <1>7

LEMMA RollbackInductive ==
    ASSUME Inductive, NEW r \in Requests, Rollback(r)
    PROVE  Inductive'
  <1>1. /\ UNCHANGED <<codes, links, audit, uses>>
        /\ \A q \in Requests : q # r => txn'[q] = txn[q]
        /\ txn'[r] = None
        /\ TypeOK'
    BY DEF Rollback, Inductive, TypeOK
  <1>2. ~ IsSetup(r)' /\ ~ Updating(r)' /\ \A pc : ~ At(r, pc)'
    BY <1>1 DEF At, IsSetup, Updating
  <1> QED BY <1>1, <1>2, InsideInductive

-------------------------------------------------------------------------------
(* The codes after a commit *)

(* A request that ends takes its claims on codes with it. *)
LEMMA EndingKeepsCodes ==
    ASSUME Inductive, NEW r \in Requests,
           txn' = [txn EXCEPT ![r] = None], UNCHANGED <<codes, uses>>
    PROVE  CodesAreSound'
  <1> USE DEF Inductive, CodesAreSound
  <1>1. /\ txn'[r] = None
        /\ \A q \in Requests : q # r => txn'[q] = txn[q]
    BY DEF TypeOK
  <1>2. SetupsAreSound' /\ RequestsAreSound'
    BY <1>1 DEF SetupsAreSound, SetupIsSound, IsSetup, RequestsAreSound, RequestIsSound, At
  <1>3. CodesHaveMakers'
    <2>1. \A o \in Orgs : Outstanding(o)' = Outstanding(o)
      BY DEF Outstanding
    <2>2. \A q \in Requests : At(q, "superseding")' => txn'[q] = txn[q]
      BY <1>1 DEF At
    <2> QED BY <2>1, <2>2, MakersStay
  <1>4. UsesAreCounted'
    <2> SUFFICES ASSUME NEW c \in Codes
                 PROVE  uses[c] + Cardinality(SetupsOf(c)') =< Overlap
      BY DEF UsesAreCounted, Overlap
    <2>1. SetupsOf(c)' \subseteq SetupsOf(c)
      BY <1>1 DEF SetupsOf, IsSetup
    <2>2. IsFiniteSet(SetupsOf(c)) /\ Cardinality(SetupsOf(c)) \in Nat
      BY RequestsAreCounted DEF SetupsOf
    <2>3. Cardinality(SetupsOf(c)') =< Cardinality(SetupsOf(c)) /\ Cardinality(SetupsOf(c)') \in Nat
      BY <2>1, <2>2, FS_Subset, FS_CardinalityType
    <2>4. uses[c] + Cardinality(SetupsOf(c)) =< Overlap /\ uses[c] \in Nat
      BY DEF UsesAreCounted, TypeOK
    <2> QED BY <2>2, <2>3, <2>4, RequestsAreCounted
  <1> QED BY <1>2, <1>3, <1>4

(* A setup that ends well consumes its code, which then serves no other     *)
(* setup than those that are open already.                                  *)
LEMMA ConsumingKeepsCodes ==
    ASSUME Inductive, NEW r \in Requests, IsSetup(r),
           Consume(r), txn' = [txn EXCEPT ![r] = None]
    PROVE  /\ CodesAreSound'
           /\ codes' \in [Codes -> Code \cup {None}]
           /\ uses' \in [Codes -> Nat]
  <1> USE DEF Inductive, CodesAreSound
  <1> DEFINE c == txn[r].code
             row == [codes[c] EXCEPT !.consumed = TRUE, !.guild = txn[r].guild]
  <1>0. /\ txn'[r] = None
        /\ \A q \in Requests : q # r => txn'[q] = txn[q]
    BY DEF TypeOK
  <1>1. c \in Codes /\ codes[c] \in Code /\ codes[c] # None /\ txn[r].guild \in Guilds
    BY DEF SetupsAreSound, SetupIsSound, TypeOK
  <1>2. row \in Code /\ row.org = codes[c].org /\ row.consumed
    BY <1>1 DEF Code
  <1>3. codes' = [codes EXCEPT ![c] = row] /\ uses' = [uses EXCEPT ![c] = @ + 1]
    BY DEF Consume
  <1> HIDE DEF row
  <1>4. /\ codes' \in [Codes -> Code \cup {None}] /\ uses' \in [Codes -> Nat]
        /\ codes'[c] = row /\ uses'[c] = uses[c] + 1
        /\ \A d \in Codes : d # c => codes'[d] = codes[d] /\ uses'[d] = uses[d]
    BY <1>1, <1>2, <1>3 DEF TypeOK
  <1> HIDE DEF c
  <1>5. row # None
    BY <1>2, NoneAssumption
  <1>6. \A d \in Codes : /\ codes'[d] = None <=> codes[d] = None
                         /\ codes[d] # None => codes'[d].org = codes[d].org
    BY <1>1, <1>2, <1>4, <1>5
  <1>7. SetupsAreSound'
    BY <1>0, <1>6 DEF SetupsAreSound, SetupIsSound, IsSetup, At
  <1>8. RequestsAreSound'
    <2> SUFFICES ASSUME NEW q \in Requests, At(q, "superseding")'
                 PROVE  RequestIsSound(q)'
      BY DEF RequestsAreSound
    <2>1. q # r /\ txn'[q] = txn[q] /\ At(q, "superseding") /\ RequestIsSound(q)
      BY <1>0 DEF At, RequestsAreSound
    <2>2. \A p \in Requests : At(p, "superseding")' /\ txn'[p].code = txn'[q].code => p = q
      BY <1>0, <2>1 DEF RequestIsSound, At
    <2>3. txn[q].seen \subseteq Codes
      BY <2>1 DEF TypeOK, Txn, At
    <2> QED BY <1>6, <2>1, <2>2, <2>3 DEF RequestIsSound
  <1>9. CodesHaveMakers'
    <2>1. \A o \in Orgs : Outstanding(o)' \subseteq Outstanding(o)
      BY <1>2, <1>4, <1>5 DEF Outstanding
    <2>2. \A q \in Requests : At(q, "superseding")' => txn'[q] = txn[q]
      BY <1>0 DEF At
    <2> QED BY <2>1, <2>2, MakersStay
  <1>10. UsesAreCounted'
    <2> SUFFICES ASSUME NEW d \in Codes
                 PROVE  /\ uses'[d] + Cardinality(SetupsOf(d)') =< Overlap
                        /\ uses'[d] > 0 => codes'[d] # None /\ codes'[d].consumed
      BY DEF UsesAreCounted, Overlap
    <2>0. /\ uses[d] + Cardinality(SetupsOf(d)) =< Overlap /\ uses[d] \in Nat
          /\ uses[d] > 0 => codes[d] # None /\ codes[d].consumed
          /\ IsFiniteSet(SetupsOf(d)) /\ Cardinality(SetupsOf(d)) \in Nat
      BY RequestsAreCounted DEF UsesAreCounted, TypeOK, SetupsOf
    <2>1. CASE d = c
      <3>1. r \in SetupsOf(d) /\ SetupsOf(d)' = SetupsOf(d) \ {r}
        BY <1>0, <2>1 DEF SetupsOf, IsSetup, c
      <3>2. Cardinality(SetupsOf(d)') = Cardinality(SetupsOf(d)) - 1
        BY <2>0, <3>1, OneLess
      <3> QED BY <1>2, <1>4, <1>5, <2>0, <2>1, <3>2
    <2>2. CASE d # c
      <3>1. SetupsOf(d)' = SetupsOf(d)
        BY <1>0, <2>2 DEF SetupsOf, IsSetup, c
      <3> QED BY <1>4, <2>0, <2>2, <3>1
    <2> QED BY <2>1, <2>2
  <1> QED BY <1>4, <1>7, <1>8, <1>9, <1>10

(* A new code takes the place of those its request saw. *)
LEMMA CommitRequestInductive ==
    ASSUME Inductive, NEW r \in Requests, CommitRequest(r)
    PROVE  Inductive'
  <1> USE DEF Inductive, CodesAreSound
  <1> DEFINE c == txn[r].code
             o == txn[r].org
             seen == txn[r].seen
             new == NewCode(o)
  <1>0. /\ txn'[r] = None
        /\ \A q \in Requests : q # r => txn'[q] = txn[q]
        /\ UNCHANGED <<links, audit, uses>>
    BY DEF TypeOK, CommitRequest
  <1>1. /\ c \in Codes /\ o \in Orgs /\ seen \subseteq Codes /\ codes[c] = None
        /\ \A d \in seen : codes[d] # None /\ codes[d].org = o
        /\ At(r, "superseding") /\ RequestIsSound(r)
    BY DEF CommitRequest, RequestsAreSound, RequestIsSound, TypeOK, Txn, At
  <1>2. new \in Code /\ new # None /\ new.org = o /\ ~ new.consumed
    <2>1. new \in Code /\ new.org = o /\ ~ new.consumed
      <3> HIDE DEF o
      <3> QED BY <1>1 DEF NewCode, Code
    <2> HIDE DEF new
    <2> QED BY <2>1, NoneAssumption
  <1>3. codes' = [d \in Codes |->
                    CASE d = c     -> new
                      [] d \in seen -> [codes[d] EXCEPT !.consumed = TRUE]
                      [] OTHER      -> codes[d]]
    BY DEF CommitRequest
  <1> HIDE DEF new
  <1>4. ASSUME NEW d \in seen
        PROVE  /\ codes'[d] = [codes[d] EXCEPT !.consumed = TRUE]
               /\ codes'[d] \in Code /\ codes'[d] # None
               /\ codes'[d].org = o /\ codes'[d].consumed
    <2>1. d # c /\ codes[d] \in Code
      BY <1>1 DEF TypeOK
    <2> DEFINE e == [codes[d] EXCEPT !.consumed = TRUE]
    <2>2. e \in Code /\ e.org = codes[d].org /\ e.consumed
      BY <2>1 DEF Code
    <2> HIDE DEF e
    <2>3. codes'[d] = e
      BY <1>1, <1>3, <2>1 DEF e
    <2> QED BY <1>1, <2>2, <2>3, NoneAssumption DEF e
  <1>5. codes'[c] = new
    BY <1>1, <1>3
  <1>6. ASSUME NEW d \in Codes, d # c, d \notin seen
        PROVE  codes'[d] = codes[d]
    BY <1>3, <1>6
  <1>7. codes' \in [Codes -> Code \cup {None}]
    <2>1. \A d \in Codes : codes'[d] \in Code \cup {None}
      BY <1>2, <1>4, <1>5, <1>6 DEF TypeOK
    <2> QED BY <1>3, <2>1
  <1> HIDE DEF c, o, seen
  <1>8. TypeOK'
    BY <1>0, <1>7 DEF CommitRequest, TypeOK
  <1>9. \A d \in Codes : codes[d] # None =>
            /\ codes'[d] # None
            /\ codes'[d].org = codes[d].org
            /\ codes[d].consumed => codes'[d].consumed
    BY <1>1, <1>4, <1>6
  <1>10. SetupsAreSound'
    BY <1>0, <1>9 DEF SetupsAreSound, SetupIsSound, IsSetup, At
  <1>11. RequestsAreSound'
    <2> SUFFICES ASSUME NEW q \in Requests, At(q, "superseding")'
                 PROVE  RequestIsSound(q)'
      BY DEF RequestsAreSound
    <2>1. q # r /\ txn'[q] = txn[q] /\ At(q, "superseding") /\ RequestIsSound(q)
      BY <1>0 DEF At, RequestsAreSound
    <2>2. \A p \in Requests : At(p, "superseding")' /\ txn'[p].code = txn'[q].code => p = q
      BY <1>0, <2>1 DEF RequestIsSound, At
    <2>3. txn[q].seen \subseteq Codes
      BY <2>1 DEF TypeOK, Txn, At
    <2>4. txn[q].code # c /\ txn[q].code \notin seen
      BY <1>1, <2>1 DEF RequestIsSound, c
    <2>5. codes'[txn[q].code] = None
      BY <1>6, <2>1, <2>4 DEF RequestIsSound
    <2> QED BY <1>9, <2>1, <2>2, <2>3, <2>5 DEF RequestIsSound
  <1>12. CodesHaveMakers'
    <2> SUFFICES ASSUME NEW p \in Orgs
                 PROVE  (\E f \in [Outstanding(p) -> Requests] : AreMakers(f, p))'
      BY DEF CodesHaveMakers
    <2>1. PICK f \in [Outstanding(p) -> Requests] : AreMakers(f, p)
      BY DEF CodesHaveMakers
    <2> DEFINE S == Outstanding(p)'
               g == [d \in S |-> IF d = c THEN r ELSE f[d]]
    <2>2. \A d \in S : d # c => d \in Outstanding(p) /\ d \notin seen
      BY <1>4, <1>6 DEF Outstanding
    <2>3. c \in S => p = o
      BY <1>2, <1>5 DEF Outstanding
    <2> HIDE DEF S
    <2>4. /\ g \in [S -> Requests]
          /\ \A d \in S : g[d] = IF d = c THEN r ELSE f[d]
      BY <2>1, <2>2
    <2> HIDE DEF g
    <2>5. \A d \in S : d # c /\ p = o => f[d] # r
      BY <1>1, <2>1, <2>2 DEF AreMakers, seen, o
    <2>6. \A d, e \in S : g[d] = g[e] => d = e
      BY <2>1, <2>2, <2>3, <2>4, <2>5 DEF AreMakers
    <2>7. ASSUME NEW q \in Requests, NEW d \in S,
                 At(q, "superseding")', txn'[q].org = p, g[d] = q
          PROVE  d \in txn'[q].seen
      <3>1. q # r /\ txn'[q] = txn[q] /\ At(q, "superseding")
        BY <1>0, <2>7 DEF At
      <3> QED BY <2>1, <2>2, <2>4, <2>7, <3>1 DEF AreMakers
    <2> QED BY <2>4, <2>6, <2>7 DEF AreMakers, S
  <1>13. UsesAreCounted'
    <2> SUFFICES ASSUME NEW d \in Codes
                 PROVE  /\ uses'[d] + Cardinality(SetupsOf(d)') =< Overlap
                        /\ uses'[d] > 0 => codes'[d] # None /\ codes'[d].consumed
      BY DEF UsesAreCounted, Overlap
    <2>1. SetupsOf(d)' = SetupsOf(d)
      BY <1>0, <1>1 DEF SetupsOf, IsSetup, RequestIsSound
    <2> QED BY <1>0, <1>9, <2>1 DEF UsesAreCounted
  <1>14. LinkSideIsSound'
    <2>1. LinkTableIsSound'
      BY <1>0, LinkTableUnchanged DEF LinkSideIsSound
    <2>2. UpdatesAreSound' /\ CreationsAreSound'
      BY <1>0 DEF LinkSideIsSound, UpdatesAreSound, UpdateIsSound, Updating, At, Exists,
                  CreationsAreSound, CreationIsSound
    <2>3. RowsAreCounted'
      <3> SUFFICES ASSUME NEW g \in Guilds
                   PROVE  /\ IsFiniteSet(RowsOf(g))
                          /\ Cardinality(RowsOf(g)) + Cardinality(CreatorsFor(g)') =< Overlap
        BY <1>0 DEF RowsAreCounted, RowsOf, Exists, Overlap
      <3>1. CreatorsFor(g)' = CreatorsFor(g)
        BY <1>0, <1>1 DEF CreatorsFor, At
      <3> QED BY <3>1 DEF LinkSideIsSound, RowsAreCounted
    <2> QED BY <2>1, <2>2, <2>3 DEF LinkSideIsSound
  <1> QED BY <1>8, <1>10, <1>11, <1>12, <1>13, <1>14

LEMMA ExpireInductive ==
    ASSUME Inductive, NEW c \in Codes, Expire(c)
    PROVE  Inductive'
  <1> USE DEF Inductive, CodesAreSound
  <1>0. UNCHANGED <<links, audit, uses, txn>>
    BY DEF Expire
  <1> DEFINE row == [codes[c] EXCEPT !.expired = TRUE]
  <1>1. codes[c] \in Code /\ codes[c] # None
    BY DEF Expire, Redeemable, TypeOK
  <1>2. row \in Code /\ row.org = codes[c].org /\ row.consumed = codes[c].consumed
    BY <1>1 DEF Code
  <1>3. codes' = [codes EXCEPT ![c] = row]
    BY DEF Expire
  <1> HIDE DEF row
  <1>4. /\ TypeOK'
        /\ codes'[c] = row /\ row # None
        /\ \A d \in Codes : d # c => codes'[d] = codes[d]
    BY <1>0, <1>2, <1>3, NoneAssumption DEF TypeOK
  <1>5. \A d \in Codes : /\ codes'[d] = None <=> codes[d] = None
                         /\ codes[d] # None => /\ codes'[d].org = codes[d].org
                                               /\ codes'[d].consumed = codes[d].consumed
    BY <1>1, <1>2, <1>4
  <1>6. SetupsAreSound'
    BY <1>0, <1>5 DEF SetupsAreSound, SetupIsSound, IsSetup, At
  <1>7. RequestsAreSound'
    <2> SUFFICES ASSUME NEW q \in Requests, At(q, "superseding")'
                 PROVE  RequestIsSound(q)'
      BY DEF RequestsAreSound
    <2>1. RequestIsSound(q) /\ txn[q].seen \subseteq Codes
      BY <1>0 DEF RequestsAreSound, At, TypeOK, Txn
    <2> QED BY <1>0, <1>5, <2>1 DEF RequestIsSound, At
  <1>8. CodesHaveMakers'
    <2>1. \A o \in Orgs : Outstanding(o)' \subseteq Outstanding(o)
      BY <1>5 DEF Outstanding
    <2> QED BY <1>0, <2>1, MakersStay
  <1>9. UsesAreCounted'
    <2>1. \A d \in Codes : SetupsOf(d)' = SetupsOf(d)
      BY <1>0 DEF SetupsOf, IsSetup
    <2> QED BY <1>0, <1>5, <2>1 DEF UsesAreCounted, Overlap
  <1>10. LinkSideIsSound'
    <2>1. LinkTableIsSound'
      BY <1>0, LinkTableUnchanged DEF LinkSideIsSound
    <2>2. UpdatesAreSound' /\ CreationsAreSound' /\ RowsAreCounted'
      BY <1>0 DEF LinkSideIsSound, UpdatesAreSound, UpdateIsSound, Updating, At, Exists,
                  CreationsAreSound, CreationIsSound, RowsAreCounted, RowsOf, CreatorsFor, Overlap
    <2> QED BY <2>1, <2>2 DEF LinkSideIsSound
  <1> QED BY <1>4, <1>6, <1>7, <1>8, <1>9, <1>10

-------------------------------------------------------------------------------
(* The links after a commit *)

(* A commit over a row that another request has changed since the check     *)
(* leaves the link disputed; any other commit stores the entity itself.     *)
LEMMA CommittedUpdate ==
    ASSUME Inductive, NEW r \in Requests, CommitUpdate(r)
    PROVE  LET l == txn[r].link IN
           /\ l \in Links
           /\ Exists(l)
           /\ links[l] \in Link
           /\ links'[l] \in Link
           /\ links'[l].guild = links[l].guild
           /\ audit[l] \in Nat
           /\ audit'[l] = audit[l] + 1
           /\ links'[l].version =< audit'[l]
           /\ IndexAdmits(l, links'[l])
           /\ \A k \in Links : k # l => links'[k] = links[k] /\ audit'[k] = audit[k]
           /\ links'[l].version = audit'[l] =>
                 /\ IsMove(links[l], SansVersion(links'[l], links[l]))
                 /\ links'[l] = txn[r].entity
           /\ txn[r].base = links[l] => links'[l].version = links[l].version + 1
           /\ UpdateIsSound(r)
  <1> DEFINE l == txn[r].link
             row == links[l]
             base == txn[r].base
             entity == txn[r].entity
             new == Written(row, base, entity)
  <1>1. /\ l \in Links
        /\ Exists(l)
        /\ row \in Link
        /\ base \in Link
        /\ entity \in Link
        /\ audit[l] \in Nat
        /\ UpdateIsSound(r)
        /\ At(r, "checked")
    BY DEF Inductive, LinkSideIsSound, TypeOK, CommitUpdate, UpdatesAreSound, UpdateIsSound,
           Updating, Exists
  <1>2. /\ links' = [links EXCEPT ![l] = new]
        /\ audit' = [audit EXCEPT ![l] = @ + 1]
        /\ IndexAdmits(l, new)
    BY DEF CommitUpdate
  <1>3. /\ links'[l] = new
        /\ audit'[l] = audit[l] + 1
        /\ \A k \in Links : k # l => links'[k] = links[k] /\ audit'[k] = audit[k]
    BY <1>1, <1>2 DEF Inductive, TypeOK
  <1>4. entity.version = base.version + 1 /\ base.version \in Nat /\ base.version =< audit[l]
    BY <1>1 DEF UpdateIsSound, Link
  <1>5. /\ new \in Link
        /\ base = row => new = entity
        /\ new.version = entity.version
        /\ new.guild = row.guild
    BY <1>1, <1>4, WrittenIsLink DEF UpdateIsSound
  <1>6. ASSUME new.version = audit[l] + 1
        PROVE  IsMove(row, SansVersion(new, row)) /\ new = entity
    <2>1. base.version = audit[l]
      BY <1>6, <1>4, <1>5, <1>1
    <2>2. base = row /\ IsMove(row, SansVersion(entity, row))
      BY <2>1, <1>1 DEF UpdateIsSound
    <2> QED BY <2>1, <2>2, <1>5
  <1> HIDE DEF new
  <1> QED BY <1>1, <1>2, <1>3, <1>4, <1>5, <1>6

(* A move of a row changes nothing but status and organisation; with the    *)
(* version put back it is the stored row.                                   *)
LEMMA StoredMove ==
    ASSUME NEW row \in Link, NEW new \in Link, IsMove(row, SansVersion(new, row))
    PROVE  /\ IsCoherent(new)
           /\ IsActive(row) /\ IsActive(new) => new.org = row.org
  <1> DEFINE e == SansVersion(new, row)
  <1>1. /\ IsCoherent(e)
        /\ IsActive(row) /\ IsActive(e) => e.org = row.org
    BY MovesOfALink
  <1>2. e.org = new.org /\ e.status = new.status /\ e.revokedAt = new.revokedAt
    BY DEF SansVersion, Link
  <1> HIDE DEF e
  <1> QED BY <1>1, <1>2 DEF IsCoherent, IsActive

LEMMA CommitUpdateInductive ==
    ASSUME Inductive, NEW r \in Requests, CommitUpdate(r)
    PROVE  Inductive'
  <1> USE DEF Inductive, LinkSideIsSound, LinkTableIsSound
  <1>0. PICK l \in Links : l = txn[r].link
    BY CommittedUpdate
  <1>1. /\ Exists(l)
        /\ links[l] \in Link
        /\ links'[l] \in Link
        /\ links'[l].guild = links[l].guild
        /\ audit[l] \in Nat
        /\ audit'[l] = audit[l] + 1
        /\ links'[l].version =< audit'[l]
        /\ IndexAdmits(l, links'[l])
        /\ \A k \in Links : k # l => links'[k] = links[k] /\ audit'[k] = audit[k]
        /\ links'[l].version = audit'[l] =>
              IsMove(links[l], SansVersion(links'[l], links[l]))
    BY <1>0, CommittedUpdate
  <1>2. /\ \A q \in Requests : q # r => txn'[q] = txn[q]
        /\ txn'[r] = None
        /\ txn' = [txn EXCEPT ![r] = None]
        /\ \/ IsSetup(r) /\ Consume(r)
           \/ UNCHANGED <<codes, uses>>
    BY DEF CommitUpdate, TypeOK, IsSetup, At
  <1>3. \A k \in Links : /\ Exists(k)' <=> Exists(k)
                         /\ Exists(k) => links'[k].guild = links[k].guild
    BY <1>1, NoneAssumption DEF Exists
  <1>4. CodesAreSound' /\ codes' \in [Codes -> Code \cup {None}] /\ uses' \in [Codes -> Nat]
    <2>1. CASE UNCHANGED <<codes, uses>>
      <3>1. CodesAreSound'
        BY <2>1, <1>2, EndingKeepsCodes
      <3> QED BY <2>1, <3>1 DEF TypeOK
    <2>2. CASE IsSetup(r) /\ Consume(r)
      BY <2>2, <1>2, ConsumingKeepsCodes
    <2> QED BY <1>2, <2>1, <2>2
  <1>5. TypeOK'
    <2>1. /\ links' = [links EXCEPT ![l] = links'[l]]
          /\ audit' = [audit EXCEPT ![l] = @ + 1]
      BY <1>0, <1>1 DEF CommitUpdate, TypeOK
    <2>2. links' \in [Links -> Link \cup {None}] /\ audit' \in [Links -> Nat]
      BY <2>1, <1>1 DEF TypeOK
    <2>3. txn' \in [Requests -> Txn \cup {None}]
      BY <1>2 DEF TypeOK
    <2> QED BY <1>4, <2>2, <2>3 DEF TypeOK
  <1>6. VersionsAreAudited'
    BY <1>1, <1>3 DEF VersionsAreAudited
  <1>7. OneActiveLinkPerGuild'
    BY <1>1, <1>3 DEF OneActiveLinkPerGuild, IndexAdmits, ActiveRowsOf, IsActive, Exists
  <1>8. AgreedLinksAreCoherent'
    <2>1. Agreed(l)' => IsCoherent(links'[l])
      BY <1>1, StoredMove DEF Agreed, Disputed
    <2> QED BY <2>1, <1>1 DEF AgreedLinksAreCoherent, Agreed, Disputed, Exists, IsCoherent, IsActive
  <1>9. UpdatesAreSound'
    <2> SUFFICES ASSUME NEW q \in Requests, Updating(q)'
                 PROVE  UpdateIsSound(q)'
      BY DEF UpdatesAreSound
    <2> DEFINE k == txn[q].link
    <2>1. /\ q # r
          /\ txn'[q] = txn[q]
          /\ Updating(q)
          /\ UpdateIsSound(q)
      BY <1>2 DEF Updating, At, UpdatesAreSound
    <2>2. k \in Links /\ Exists(k) /\ txn[q].base.version \in Nat
      BY <2>1 DEF Link, UpdateIsSound
    <2>3. CASE k # l
      <3>1. links'[k] = links[k] /\ audit'[k] = audit[k]
        BY <1>1, <2>2, <2>3
      <3> QED BY <2>1, <2>2, <3>1 DEF UpdateIsSound, At, Exists
    <2>4. CASE k = l
      <3>1. txn[q].base.version =< audit[l] /\ txn[q].base.version # audit'[l]
        BY <1>1, <2>1, <2>2, <2>4 DEF UpdateIsSound
      <3>2. txn[q].base.version =< audit'[l]
        BY <1>1, <2>2, <3>1
      <3> QED BY <1>1, <1>3, <2>1, <2>2, <2>4, <3>1, <3>2 DEF UpdateIsSound, At
    <2> QED BY <2>3, <2>4
  <1>10. CreationsAreSound'
    BY <1>2, <1>3 DEF CreationsAreSound, CreationIsSound, At
  <1>11. RowsAreCounted'
    <2> SUFFICES ASSUME NEW g \in Guilds
                 PROVE  /\ IsFiniteSet(RowsOf(g)')
                        /\ Cardinality(RowsOf(g)') + Cardinality(CreatorsFor(g)') =< Overlap
      BY DEF RowsAreCounted, Overlap
    <2>1. RowsOf(g)' = RowsOf(g)
      BY <1>3 DEF RowsOf
    <2>2. CreatorsFor(g)' = CreatorsFor(g)
      <3>1. ~ At(r, "creating")
        BY DEF CommitUpdate, At
      <3> QED BY <1>2, <3>1 DEF CreatorsFor, At
    <2> QED BY <2>1, <2>2 DEF RowsAreCounted
  <1> QED BY <1>4, <1>5, <1>6, <1>7, <1>8, <1>9, <1>10, <1>11

LEMMA CommitCreateInductive ==
    ASSUME Inductive, NEW r \in Requests, CommitCreate(r)
    PROVE  Inductive'
  <1> USE DEF Inductive, LinkSideIsSound, LinkTableIsSound
  <1>0. /\ At(r, "creating") /\ txn[r] \in Txn
        /\ IsSetup(r) /\ CreationIsSound(r) /\ SetupIsSound(r)
    BY DEF CommitCreate, At, IsSetup, TypeOK, CreationsAreSound, CreationIsSound,
           CodesAreSound, SetupsAreSound
  <1>1. PICK l \in Links, o \in Orgs, g \in Guilds :
            /\ l = txn[r].link /\ o = txn[r].org /\ g = txn[r].guild
            /\ ~ Exists(l)
            /\ txn[r].entity = Linked(o, g)
    BY <1>0 DEF CreationIsSound, SetupIsSound, Txn
  <1> DEFINE new == Linked(o, g)
  <1>2. /\ new \in Link /\ new # None /\ new.guild = g /\ new.version = 1
        /\ IsActive(new) /\ IsCoherent(new)
    <2>1. /\ new \in Link /\ new.guild = g /\ new.version = 1
          /\ IsActive(new) /\ IsCoherent(new)
      BY LinkedIsLink
    <2> HIDE DEF new
    <2> QED BY <2>1, NoneAssumption
  <1>3. /\ links' = [links EXCEPT ![l] = new]
        /\ audit' = [audit EXCEPT ![l] = 1]
        /\ IndexAdmits(l, new)
        /\ Consume(r)
        /\ txn' = [txn EXCEPT ![r] = None]
    BY <1>1 DEF CommitCreate
  <1> HIDE DEF new
  <1>4. /\ links'[l] = new /\ audit'[l] = 1
        /\ \A k \in Links : k # l => links'[k] = links[k] /\ audit'[k] = audit[k]
        /\ links' \in [Links -> Link \cup {None}]
        /\ audit' \in [Links -> Nat]
        /\ txn' \in [Requests -> Txn \cup {None}]
        /\ txn'[r] = None
        /\ \A q \in Requests : q # r => txn'[q] = txn[q]
    BY <1>2, <1>3 DEF TypeOK
  <1>5. /\ Exists(l)'
        /\ \A k \in Links : k # l => (Exists(k)' <=> Exists(k))
    BY <1>2, <1>4 DEF Exists
  <1>6. CodesAreSound' /\ TypeOK'
    <2>1. /\ CodesAreSound'
          /\ codes' \in [Codes -> Code \cup {None}]
          /\ uses' \in [Codes -> Nat]
      BY <1>0, <1>3, ConsumingKeepsCodes
    <2> QED BY <1>4, <2>1 DEF TypeOK
  <1>7. VersionsAreAudited'
    BY <1>2, <1>4, <1>5 DEF VersionsAreAudited
  <1>8. OneActiveLinkPerGuild'
    BY <1>2, <1>3, <1>4, <1>5 DEF OneActiveLinkPerGuild, IndexAdmits, ActiveRowsOf, IsActive
  <1>9. AgreedLinksAreCoherent'
    BY <1>2, <1>4, <1>5 DEF AgreedLinksAreCoherent, Agreed, Disputed, IsCoherent, IsActive
  <1>10. UpdatesAreSound'
    <2> SUFFICES ASSUME NEW q \in Requests, Updating(q)'
                 PROVE  UpdateIsSound(q)'
      BY DEF UpdatesAreSound
    <2> DEFINE k == txn[q].link
    <2>1. txn'[q] = txn[q] /\ UpdateIsSound(q)
      BY <1>4 DEF Updating, At, UpdatesAreSound
    <2>2. k \in Links /\ Exists(k) /\ k # l
      BY <1>1, <2>1 DEF UpdateIsSound
    <2>3. links'[k] = links[k] /\ audit'[k] = audit[k]
      BY <1>4, <2>2
    <2> QED BY <2>1, <2>2, <2>3 DEF UpdateIsSound, At, Exists
  <1>11. CreationsAreSound'
    <2> SUFFICES ASSUME NEW q \in Requests, At(q, "creating")'
                 PROVE  CreationIsSound(q)'
      BY DEF CreationsAreSound
    <2>1. q # r /\ txn'[q] = txn[q] /\ At(q, "creating") /\ CreationIsSound(q)
      BY <1>4 DEF At, CreationsAreSound
    <2>2. txn[q].link # l
      BY <1>0, <1>1, <2>1 DEF CreationIsSound
    <2> QED BY <1>4, <1>5, <2>1, <2>2 DEF CreationIsSound, At
  <1>12. RowsAreCounted'
    <2> SUFFICES ASSUME NEW h \in Guilds
                 PROVE  /\ IsFiniteSet(RowsOf(h)')
                        /\ Cardinality(RowsOf(h)') + Cardinality(CreatorsFor(h)') =< Overlap
      BY DEF RowsAreCounted, Overlap
    <2>0. /\ IsFiniteSet(RowsOf(h)) /\ Cardinality(RowsOf(h)) \in Nat
          /\ Cardinality(RowsOf(h)) + Cardinality(CreatorsFor(h)) =< Overlap
          /\ IsFiniteSet(CreatorsFor(h)) /\ Cardinality(CreatorsFor(h)) \in Nat
      BY RequestsAreCounted, FS_CardinalityType DEF RowsAreCounted, CreatorsFor
    <2>1. CASE h = g
      <3>1. l \notin RowsOf(h) /\ RowsOf(h)' = RowsOf(h) \cup {l}
        BY <1>1, <1>2, <1>4, <1>5, <2>1 DEF RowsOf
      <3>2. r \in CreatorsFor(h) /\ CreatorsFor(h)' = CreatorsFor(h) \ {r}
        BY <1>0, <1>1, <1>4, <2>1 DEF CreatorsFor, At
      <3>3. IsFiniteSet(RowsOf(h)') /\ Cardinality(RowsOf(h)') = Cardinality(RowsOf(h)) + 1
        BY <2>0, <3>1, OneMore
      <3>4. Cardinality(CreatorsFor(h)') = Cardinality(CreatorsFor(h)) - 1
        BY <2>0, <3>2, OneLess
      <3> QED BY <2>0, <3>3, <3>4, RequestsAreCounted
    <2>2. CASE h # g
      <3>1. RowsOf(h)' = RowsOf(h)
        BY <1>1, <1>2, <1>4, <1>5, <2>2 DEF RowsOf
      <3>2. CreatorsFor(h)' = CreatorsFor(h)
        BY <1>1, <1>4, <2>2 DEF CreatorsFor, At
      <3> QED BY <2>0, <3>1, <3>2
    <2> QED BY <2>1, <2>2
  <1> QED BY <1>6, <1>7, <1>8, <1>9, <1>10, <1>11, <1>12

-------------------------------------------------------------------------------
(* The theorems *)

LEMMA StepInductive == Inductive /\ [Next]_vars => Inductive'
  <1> SUFFICES ASSUME Inductive, [Next]_vars PROVE Inductive'
    OBVIOUS
  <1>1. ASSUME NEW r \in Requests, Step(r)
        PROVE  Inductive'
    <2>1. ASSUME NEW l \in Links, NEW o \in Orgs, UnlinkById(r, l, o)
          PROVE  Inductive'
      BY <2>1, LoadForUnlinkInductive DEF UnlinkById
    <2>2. ASSUME NEW g \in Guilds, UnlinkByGuild(r, g)
          PROVE  Inductive'
      <3>1. PICK l \in Links : ActiveRowsOf(g) = {l} /\ LoadForUnlink(r, l)
        BY <2>2 DEF UnlinkByGuild
      <3>2. Exists(l)
        BY <3>1 DEF ActiveRowsOf
      <3> QED BY <3>1, <3>2, LoadForUnlinkInductive
    <2> QED
      BY <1>1, <2>1, <2>2, RequestCodeInductive, CommitRequestInductive, ReadCodeInductive,
         FindLinkInductive, CreateLinkInductive, CommitCreateInductive, CheckInductive,
         CommitUpdateInductive, RollbackInductive DEF Step
  <1>2. CASE UNCHANGED vars
    <2>1. TypeOK' /\ LinkTableIsSound'
      BY <1>2, LinkTableUnchanged DEF Inductive, LinkSideIsSound, TypeOK, vars
    <2>2. UpdatesAreSound' /\ CreationsAreSound' /\ RowsAreCounted'
      BY <1>2 DEF Inductive, LinkSideIsSound, vars, UpdatesAreSound, UpdateIsSound, Updating, At,
                  Exists, CreationsAreSound, CreationIsSound, RowsAreCounted, RowsOf,
                  CreatorsFor, Overlap
    <2>3. SetupsAreSound' /\ RequestsAreSound' /\ UsesAreCounted'
      BY <1>2 DEF Inductive, CodesAreSound, vars, SetupsAreSound, SetupIsSound, IsSetup, At,
                  RequestsAreSound, RequestIsSound, UsesAreCounted, SetupsOf, Overlap
    <2>4. CodesHaveMakers'
      <3>1. \A o \in Orgs : Outstanding(o)' = Outstanding(o)
        BY <1>2 DEF Outstanding, vars
      <3> QED BY <1>2, <3>1, MakersStay DEF Inductive, CodesAreSound, vars
    <2> QED BY <2>1, <2>2, <2>3, <2>4 DEF Inductive, CodesAreSound, LinkSideIsSound
  <1> QED BY <1>1, <1>2, ExpireInductive DEF Next

(* The strengthening of all the properties below holds in every state. *)
THEOREM GuildLinkInductive == Spec => []Inductive
  <1>1. Init => Inductive
    BY InitInductive
  <1>2. Inductive /\ [Next]_vars => Inductive'
    BY StepInductive
  <1> QED BY <1>1, <1>2, PTL DEF Spec

(* Codes, links and open requests keep their types, and a link no race has  *)
(* touched is revoked exactly when it has a time of revocation.             *)
THEOREM LinksStaySound == Spec => []LinksAreSound
  <1>1. Inductive => LinksAreSound
    BY DEF Inductive, LinkSideIsSound, LinkTableIsSound, LinksAreSound
  <1> QED BY <1>1, GuildLinkInductive, PTL

(* A guild is actively linked to one organisation at a time. *)
THEOREM OneActiveLink == Spec => []OneActiveLinkPerGuild
  <1>1. Inductive => OneActiveLinkPerGuild
    BY DEF Inductive, LinkSideIsSound, LinkTableIsSound
  <1> QED BY <1>1, GuildLinkInductive, PTL

(* However many requests come and go, the uses of a code, the outstanding   *)
(* codes of an organisation and the rows of a guild never outnumber the     *)
(* requests that can be open at the same time.                              *)
THEOREM OverlapsBoundTheDamage == Spec => []RulesBendOnlyByOverlaps
  <1>1. ASSUME Inductive PROVE CodesAreNotReused
    <2> SUFFICES ASSUME NEW c \in Codes PROVE uses[c] =< Overlap
      BY DEF CodesAreNotReused
    <2>1. Cardinality(SetupsOf(c)) \in Nat /\ Overlap \in Nat
      BY RequestsAreCounted DEF SetupsOf
    <2>2. uses[c] + Cardinality(SetupsOf(c)) =< Overlap /\ uses[c] \in Nat
      BY <1>1 DEF Inductive, CodesAreSound, UsesAreCounted, TypeOK
    <2> QED BY <2>1, <2>2
  <1>2. ASSUME Inductive PROVE CodesAreSuperseded
    <2> SUFFICES ASSUME NEW o \in Orgs PROVE Cardinality(Outstanding(o)) =< Overlap
      BY DEF CodesAreSuperseded
    <2>1. PICK f \in [Outstanding(o) -> Requests] : AreMakers(f, o)
      BY <1>2 DEF Inductive, CodesAreSound, CodesHaveMakers
    <2>2. f \in Injection(Outstanding(o), Requests)
      BY <2>1 DEF AreMakers, Injection, IsInjective
    <2> QED BY <2>2, RequestsAssumption, FS_Injection DEF Overlap
  <1>3. ASSUME Inductive PROVE RowsAreReclaimed
    <2> SUFFICES ASSUME NEW g \in Guilds PROVE Cardinality(RowsOf(g)) =< Overlap
      BY DEF RowsAreReclaimed, RowsOf
    <2>1. /\ IsFiniteSet(RowsOf(g))
          /\ Cardinality(RowsOf(g)) + Cardinality(CreatorsFor(g)) =< Overlap
      BY <1>3 DEF Inductive, LinkSideIsSound, RowsAreCounted
    <2>2. Cardinality(RowsOf(g)) \in Nat
      BY <2>1, FS_CardinalityType
    <2>3. Cardinality(CreatorsFor(g)) \in Nat /\ Overlap \in Nat
      BY RequestsAreCounted DEF CreatorsFor
    <2> QED BY <2>1, <2>2, <2>3
  <1>4. Inductive => RulesBendOnlyByOverlaps
    BY <1>1, <1>2, <1>3 DEF RulesBendOnlyByOverlaps
  <1> QED BY <1>4, GuildLinkInductive, PTL

(* The steps that change no link. *)
LEMMA OtherStepsKeepLinks ==
    ASSUME Next
    PROVE  \/ UNCHANGED <<links, audit>>
           \/ \E r \in Requests : CommitCreate(r) \/ CommitUpdate(r)
  <1>1. ASSUME NEW r \in Requests, Step(r)
        PROVE  CommitCreate(r) \/ CommitUpdate(r) \/ UNCHANGED <<links, audit>>
    BY <1>1 DEF Step, RequestCode, CommitRequest, ReadCode, FindLink, CreateLink, UnlinkById,
                UnlinkByGuild, LoadForUnlink, Check, Rollback
  <1> QED BY <1>1 DEF Next, Expire

(* An active link changes its organisation only by a race on its row, and   *)
(* such a race is a commit over a change made after the version check.      *)
THEOREM TakeoversNeedARace == Spec => NoSilentTakeover
  <1>1. ASSUME Inductive, Next, NEW l \in Links,
               Exists(l), IsActive(links[l]), IsActive(links[l]'), links'[l].org # links[l].org
        PROVE  Disputed(l)'
    <2>1. PICK r \in Requests : CommitCreate(r) \/ CommitUpdate(r)
      BY <1>1, OtherStepsKeepLinks
    <2>2. CASE CommitCreate(r)
      <3>1. ~ Exists(txn[r].link)
        BY <1>1, <2>2 DEF Inductive, LinkSideIsSound, CreationsAreSound, CreationIsSound, CommitCreate
      <3> QED BY <1>1, <2>2, <3>1 DEF CommitCreate, Inductive, TypeOK
    <2>3. CASE CommitUpdate(r)
      <3>1. l = txn[r].link
        BY <1>1, <2>3, CommittedUpdate
      <3>2. /\ links[l] \in Link /\ links'[l] \in Link
            /\ links'[l].version = audit'[l] => IsMove(links[l], SansVersion(links'[l], links[l]))
        BY <1>1, <2>3, <3>1, CommittedUpdate
      <3> QED BY <1>1, <3>2, StoredMove DEF Disputed
    <2> QED BY <2>1, <2>2, <2>3
  <1>2. ASSUME Inductive, NEW r \in Requests, NEW l \in Links, CommitUpdate(r),
               txn[r].link = l, txn[r].base = links[l], Agreed(l)
        PROVE  Agreed(l)'
    BY <1>2, CommittedUpdate, NoneAssumption DEF Agreed, Exists, Disputed
  <1>3. Inductive /\ [Next]_vars =>
          [/\ \A l \in Links :
                 (Exists(l) /\ IsActive(links[l]) /\ IsActive(links[l]') /\ links'[l].org # links[l].org)
                     => Disputed(l)'
           /\ \A r \in Requests, l \in Links :
                 (/\ CommitUpdate(r)
                  /\ txn[r].link = l
                  /\ txn[r].base = links[l]
                  /\ Agreed(l)) => Agreed(l)']_vars
    BY <1>1, <1>2
  <1> QED BY <1>3, GuildLinkInductive, PTL DEF Spec, NoSilentTakeover

(* A setup that commits links its guild to the organisation of its code,    *)
(* unless it raced on the row.                                              *)
THEOREM SetupsTakeEffect == Spec => SetupTakesEffect
  <1>1. ASSUME Inductive, NEW r \in Requests, NEW l \in Links,
               txn[r] # None, txn[r].op = "setup", txn[r].link = l,
               CommitCreate(r) \/ CommitUpdate(r)
        PROVE  \/ Disputed(l)'
               \/ /\ IsActive(links[l]')
                  /\ links'[l].org = codes[txn[r].code].org
                  /\ links'[l].guild = txn[r].guild
    <2>0. IsSetup(r) /\ SetupIsSound(r)
      BY <1>1 DEF IsSetup, Inductive, CodesAreSound, SetupsAreSound
    <2>1. CASE CommitCreate(r)
      <3>1. txn[r].entity = Linked(txn[r].org, txn[r].guild)
        BY <1>1, <2>1 DEF Inductive, LinkSideIsSound, CreationsAreSound, CreationIsSound, CommitCreate
      <3>2. links'[l] = txn[r].entity
        BY <1>1, <2>1 DEF CommitCreate, Inductive, TypeOK
      <3>3. /\ IsActive(txn[r].entity) /\ txn[r].entity.org = txn[r].org
            /\ txn[r].entity.guild = txn[r].guild
        BY <3>1 DEF Linked, IsActive
      <3> QED BY <2>0, <3>2, <3>3 DEF SetupIsSound
    <2>2. CASE CommitUpdate(r)
      <3>1. /\ links'[l].guild = links[l].guild
            /\ links'[l].version = audit'[l] => links'[l] = txn[r].entity
            /\ UpdateIsSound(r)
        BY <1>1, <2>2, CommittedUpdate
      <3> QED BY <1>1, <2>0, <3>1 DEF UpdateIsSound, SetupIsSound, Disputed
    <2> QED BY <1>1, <2>1, <2>2
  <1>2. Inductive /\ [Next]_vars =>
          [\A r \in Requests, l \in Links :
              (/\ txn[r] # None /\ txn[r].op = "setup" /\ txn[r].link = l
               /\ CommitCreate(r) \/ CommitUpdate(r))
                  => \/ Disputed(l)'
                     \/ /\ IsActive(links[l]')
                        /\ links'[l].org = codes[txn[r].code].org
                        /\ links'[l].guild = txn[r].guild]_vars
    BY <1>1
  <1> QED BY <1>2, GuildLinkInductive, PTL DEF Spec, SetupTakesEffect

-----------------------------------------------------------------------------
(* TicketBot: the channels, the tickets and the bot's interactions.          *)

(* A row has a place in the order of creation of its own.  The tickets of a *)
(* channel have a latest, and only the latest can be active.                *)
OrderIsKept ==
    /\ \A t \in Stored : tickets[t].born =< Cardinality(Stored)
    /\ \A t \in Stored, u \in Stored : tickets[t].born = tickets[u].born => t = u
    /\ \A c \in Channels : OnChannel(c) # {} =>
          \E t \in OnChannel(c) : \A u \in OnChannel(c) : tickets[u].born =< tickets[t].born
    /\ \A c \in Channels : \A t \in OnChannel(c), u \in OnChannel(c) :
          IsUnclosed(t) => tickets[u].born =< tickets[t].born

Opening(i, c) == task[i] # Nothing /\ task[i].op = "open" /\ task[i].channel = c

(* What the bot does for an interaction: a select holds a ticket of the     *)
(* channel, only a form that was answered well posts its controls, and only *)
(* a form works on a channel that has none.                                 *)
TaskIsSound(i) == task[i] # Nothing =>
    /\ channel[task[i].channel] # "none"
    /\ task[i].pc = "choosing" =>
          task[i].op = "transfer" /\ call[i] = Nothing /\ task[i].ticket \in OnChannel(task[i].channel)
    /\ task[i].pc \in {"posting", "deleting"} => task[i].op = "open"
    /\ task[i].pc = "posting" => call[i] = Nothing /\ OnChannel(task[i].channel) # {}
    /\ task[i].op = "open" =>
          channel[task[i].channel] = "open" /\ ~control[task[i].channel]

(* A call belongs to the interaction that is still there, an answer to one  *)
(* that waits for it; it names a ticket of its channel, the answer to a     *)
(* form the new one.                                                        *)
CallIsSound(i) == call[i] # Nothing =>
    /\ channel[call[i].channel] # "none"
    /\ task[i] # Nothing => task[i].op = call[i].op /\ task[i].channel = call[i].channel
    /\ call[i].phase = "answered" => Doing(i, "waiting")
    /\ call[i].phase = "resolved" => call[i].op = "open"
    /\ call[i].phase = "sent" /\ call[i].op # "open" => call[i].ticket \in OnChannel(call[i].channel)
    /\ call[i].phase = "answered" /\ call[i].ok /\ call[i].op = "open" =>
          call[i].ticket \in OnChannel(call[i].channel)
    /\ smooth /\ call[i].op = "open" => Doing(i, "waiting")

(* A channel is worked on by one form, and nothing is there before it is.   *)
FormsAreApart ==
    \A c \in Channels :
        /\ \A i \in Interactions, j \in Interactions : Opening(i, c) /\ Opening(j, c) => i = j
        /\ channel[c] = "none" => ~control[c] /\ OnChannel(c) = {}

(* Told tickets are stored, and no form that may give up its channel works  *)
(* on theirs.                                                               *)
ToldTicketsAreSafe ==
    \A t \in told :
        /\ t \in Stored
        /\ channel[tickets[t].channel] = "open"
        /\ \A i \in Interactions : Opening(i, tickets[t].channel) => task[i].pc = "posting"

(* Without failures a channel has its ticket and its buttons once no form   *)
(* works on it any more.                                                    *)
FormsFinish ==
    smooth => \A c \in Channels :
        \/ \E i \in Interactions : Opening(i, c)
        \/ channel[c] = "open" <=> OnChannel(c) # {} /\ control[c]

BotInductive ==
    /\ BotTypeOK
    /\ OrderIsKept
    /\ \A i \in Interactions : TaskIsSound(i) /\ CallIsSound(i)
    /\ FormsAreApart
    /\ ToldTicketsAreSafe
    /\ FormsFinish

-------------------------------------------------------------------------------
(* The tickets table *)

LEMMA OnChannelIsStored ==
    ASSUME NEW c, NEW t
    PROVE  t \in OnChannel(c) <=> t \in Tickets /\ tickets[t] # Nothing /\ tickets[t].channel = c
BY DEF OnChannel, Stored

LEMMA StoredIsSmall ==
    /\ IsFiniteSet(Stored) /\ Cardinality(Stored) \in Nat
    /\ Cardinality(Tickets) \in Nat
    /\ \A t \in Tickets : tickets[t] = Nothing => Cardinality(Stored) + 1 =< Cardinality(Tickets)
<1>1. IsFiniteSet(Stored) /\ Cardinality(Stored) \in Nat /\ Cardinality(Tickets) \in Nat
  BY TicketsAssumption, FS_Subset, FS_CardinalityType DEF Stored
<1>2. ASSUME NEW t \in Tickets, tickets[t] = Nothing
      PROVE  Cardinality(Stored) + 1 =< Cardinality(Tickets)
  <2>1. t \notin Stored /\ Stored \cup {t} \subseteq Tickets
    BY <1>2 DEF Stored
  <2>2. Cardinality(Stored \cup {t}) = Cardinality(Stored) + 1
    BY <1>1, <2>1, FS_AddElement
  <2>3. Cardinality(Stored \cup {t}) =< Cardinality(Tickets)
    BY <2>1, TicketsAssumption, FS_Subset
  <2>4. QED
    BY <2>2, <2>3
<1>3. QED
  BY <1>1, <1>2

(* The latest ticket of a channel is the one CHOOSE finds.                   *)
LEMMA NewestIsLatest ==
    ASSUME BotTypeOK, OrderIsKept, NEW c \in Channels, OnChannel(c) # {}
    PROVE  /\ Newest(c) \in OnChannel(c)
           /\ \A u \in OnChannel(c) : tickets[u].born =< tickets[Newest(c)].born
BY DEF OrderIsKept, Newest

LEMMA ActiveIsNewest ==
    ASSUME BotTypeOK, OrderIsKept, NEW t \in Stored, IsUnclosed(t)
    PROVE  t = Newest(tickets[t].channel)
<1> DEFINE c == tickets[t].channel
<1>1. c \in Channels /\ t \in OnChannel(c)
  BY DEF Stored, OnChannel, BotTypeOK, Row
<1>2. /\ Newest(c) \in OnChannel(c)
      /\ \A u \in OnChannel(c) : tickets[u].born =< tickets[Newest(c)].born
  BY <1>1, NewestIsLatest
<1>3. \A u \in OnChannel(c) : tickets[u].born =< tickets[t].born
  BY <1>1 DEF OrderIsKept
<1>4. tickets[t].born \in Nat /\ tickets[Newest(c)].born \in Nat /\ Newest(c) \in Stored
  BY <1>1, <1>2, StoredIsSmall DEF Stored, OnChannel, BotTypeOK, Row
<1>5. tickets[t].born = tickets[Newest(c)].born
  BY <1>1, <1>2, <1>3, <1>4
<1>6. QED
  BY <1>4, <1>5 DEF OrderIsKept

(* A step that takes no row away, moves none to another channel and reopens  *)
(* none.                                                                     *)
RowsStay ==
    /\ tickets' \in [Tickets -> Row \cup {Nothing}]
    /\ \A t \in Tickets :
          /\ tickets[t] = Nothing <=> tickets'[t] = Nothing
          /\ tickets[t] # Nothing =>
                /\ tickets'[t].channel = tickets[t].channel
                /\ tickets'[t].born = tickets[t].born
                /\ tickets'[t].status # "closed" => tickets[t].status # "closed"

LEMMA RowsStayInPlace ==
    ASSUME RowsStay, OrderIsKept
    PROVE  /\ Stored' = Stored
           /\ \A c \in Channels : OnChannel(c)' = OnChannel(c)
           /\ OrderIsKept'
<1>1. Stored' = Stored
  BY DEF RowsStay, Stored
<1>2. \A c : OnChannel(c)' = OnChannel(c)
  BY <1>1 DEF RowsStay, Stored, OnChannel
<1>3. \A t \in Stored : /\ tickets'[t].born = tickets[t].born
                        /\ tickets'[t].channel = tickets[t].channel
                        /\ IsUnclosed(t)' => IsUnclosed(t)
  BY <1>1 DEF RowsStay, Stored, IsUnclosed
<1>4. \A c, t : t \in OnChannel(c) => t \in Stored
  BY DEF OnChannel
<1>5. QED
  BY <1>1, <1>2, <1>3, <1>4 DEF OrderIsKept

(* The step that stores the first or a further ticket of a channel.          *)
RowAdded(t, c) ==
    /\ t \in Tickets /\ tickets[t] = Nothing /\ c \in Channels
    /\ ChannelIsFree(c)
    /\ tickets' = [tickets EXCEPT ![t] = NewRow(c)]

LEMMA RowAddedIsLatest ==
    ASSUME BotTypeOK, OrderIsKept, NEW t, NEW c, RowAdded(t, c)
    PROVE  /\ tickets' \in [Tickets -> Row \cup {Nothing}]
           /\ Stored' = Stored \cup {t} /\ t \notin Stored
           /\ \A u \in Stored : tickets'[u] = tickets[u]
           /\ OnChannel(c)' = OnChannel(c) \cup {t}
           /\ \A d \in Channels \ {c} : OnChannel(d)' = OnChannel(d)
           /\ OrderIsKept'
<1> DEFINE n == Cardinality(Stored)
<1>1. n \in Nat /\ n + 1 \in 1 .. Cardinality(Tickets)
  BY StoredIsSmall DEF RowAdded
<1>2. NewRow(c) \in Row /\ NewRow(c) # Nothing
  BY <1>1, NothingAssumption DEF NewRow, Row, RowAdded
<1>3. /\ tickets' \in [Tickets -> Row \cup {Nothing}]
      /\ tickets'[t] = NewRow(c)
      /\ \A u \in Tickets \ {t} : tickets'[u] = tickets[u]
  BY <1>2 DEF RowAdded, BotTypeOK
<1>4. t \in Tickets /\ c \in Channels /\ t \notin Stored /\ Stored' = Stored \cup {t}
  BY <1>2, <1>3 DEF RowAdded, Stored
<1>5. tickets'[t].channel = c /\ tickets'[t].born = n + 1 /\ tickets'[t].status = "open"
  BY <1>3 DEF NewRow
<1>6. \A u \in Stored : tickets'[u] = tickets[u] /\ u # t /\ u \in Tickets
  BY <1>3, <1>4 DEF Stored
<1>7. OnChannel(c)' = OnChannel(c) \cup {t}
  BY <1>4, <1>5, <1>6 DEF OnChannel
<1>8. \A d \in Channels \ {c} : OnChannel(d)' = OnChannel(d)
  BY <1>4, <1>5, <1>6 DEF OnChannel
<1>9. Cardinality(Stored') = n + 1
  BY <1>4, StoredIsSmall, FS_AddElement
<1>10. \A u \in Stored : tickets[u].born \in Nat /\ tickets[u].born =< n /\ tickets[u].channel \in Channels
  BY <1>1 DEF OrderIsKept, Stored, BotTypeOK, Row
<1>11. \A d, u : u \in OnChannel(d) => u \in Stored
  BY DEF OnChannel
<1> HIDE DEF n
<1>12. OrderIsKept'
  <2>1. \A u \in Stored' : tickets'[u].born =< Cardinality(Stored')
    BY <1>1, <1>4, <1>5, <1>6, <1>9, <1>10
  <2>2. \A u \in Stored', v \in Stored' : tickets'[u].born = tickets'[v].born => u = v
    BY <1>1, <1>4, <1>5, <1>6, <1>10 DEF OrderIsKept
  <2>3. \A u \in OnChannel(c)' : tickets'[u].born =< tickets'[t].born
    BY <1>1, <1>5, <1>6, <1>7, <1>10, <1>11
  <2>4. ASSUME NEW d \in Channels, OnChannel(d)' # {}
        PROVE  \E u \in OnChannel(d)' : \A v \in OnChannel(d)' : tickets'[v].born =< tickets'[u].born
    <3>1. CASE d = c
      BY <1>7, <2>3, <3>1
    <3>2. CASE d # c
      <4>1. OnChannel(d)' = OnChannel(d)
        BY <1>8, <3>2
      <4>2. PICK u \in OnChannel(d) : \A v \in OnChannel(d) : tickets[v].born =< tickets[u].born
        BY <2>4, <4>1 DEF OrderIsKept
      <4>3. \A v \in OnChannel(d) : tickets'[v] = tickets[v]
        BY <1>6, <1>11
      <4>4. QED
        BY <4>1, <4>2, <4>3
    <3>3. QED
      BY <3>1, <3>2
  <2>5. ASSUME NEW d \in Channels, NEW v \in OnChannel(d)', NEW u \in OnChannel(d)', IsUnclosed(v)'
        PROVE  tickets'[u].born =< tickets'[v].born
    <3>1. CASE v = t
      <4>1. d = c
        BY <1>4, <1>8, <1>11, <2>5, <3>1
      <4>2. QED
        BY <2>3, <3>1, <4>1
    <3>2. CASE v # t
      <4>1. v \in OnChannel(d)
        BY <1>7, <1>8, <3>2
      <4>2. v \in Stored /\ tickets'[v] = tickets[v] /\ IsUnclosed(v)
        BY <1>6, <1>11, <2>5, <4>1 DEF IsUnclosed
      <4>3. d # c
        BY <4>1, <4>2 DEF RowAdded, ChannelIsFree
      <4>4. u \in OnChannel(d) /\ tickets'[u] = tickets[u]
        BY <1>6, <1>8, <1>11, <4>3
      <4>5. QED
        BY <4>1, <4>2, <4>4 DEF OrderIsKept
    <3>3. QED
      BY <3>1, <3>2
  <2>6. QED
    BY <2>1, <2>2, <2>4, <2>5 DEF OrderIsKept
<1>13. QED
  BY <1>3, <1>4, <1>6, <1>7, <1>8, <1>12

-------------------------------------------------------------------------------
(* What a step leaves alone *)

(* An interaction the step does not touch.                                   *)
LEMMA OthersStaySound ==
    ASSUME BotTypeOK, NEW j \in Interactions, TaskIsSound(j), CallIsSound(j),
           task'[j] = task[j], call'[j] = call[j], smooth' => smooth,
           \A c \in Channels : /\ channel[c] # "none" => channel'[c] # "none"
                               /\ OnChannel(c) \subseteq OnChannel(c)'
                               /\ Opening(j, c) => channel'[c] = channel[c] /\ control'[c] = control[c]
    PROVE  TaskIsSound(j)' /\ CallIsSound(j)'
<1>1. task[j] # Nothing => task[j].channel \in Channels
  BY DEF BotTypeOK, Task
<1>2. call[j] # Nothing => call[j].channel \in Channels
  BY DEF BotTypeOK, Call
<1>3. TaskIsSound(j)'
  <2> SUFFICES ASSUME task[j] # Nothing
               PROVE  TaskIsSound(j)'
    BY DEF TaskIsSound
  <2> DEFINE c == task[j].channel
  <2>1. /\ channel[c] # "none" => channel'[c] # "none"
        /\ OnChannel(c) \subseteq OnChannel(c)'
        /\ task[j].op = "open" => channel'[c] = channel[c] /\ control'[c] = control[c]
    BY <1>1 DEF Opening
  <2>2. QED
    BY <2>1 DEF TaskIsSound
<1>4. CallIsSound(j)'
  <2> SUFFICES ASSUME call[j] # Nothing
               PROVE  CallIsSound(j)'
    BY DEF CallIsSound
  <2> DEFINE c == call[j].channel
  <2>1. /\ channel[c] # "none" => channel'[c] # "none"
        /\ OnChannel(c) \subseteq OnChannel(c)'
    BY <1>2
  <2>2. QED
    BY <2>1 DEF CallIsSound, Doing
<1>5. QED
  BY <1>3, <1>4

(* A step on interactions alone: no form starts, none that posts turns to    *)
(* giving up, and a step in which nothing fails ends none.                   *)
Quiet ==
    /\ UNCHANGED <<channel, control, told>>
    /\ Stored' = Stored
    /\ \A c \in Channels : OnChannel(c)' = OnChannel(c)
    /\ \A t \in told : tickets'[t].channel = tickets[t].channel
    /\ smooth' => smooth
    /\ \A i \in Interactions, c \in Channels :
          /\ Opening(i, c)' => Opening(i, c) /\ (task[i].pc = "posting" => task'[i].pc = "posting")
          /\ smooth' /\ Opening(i, c) => Opening(i, c)'

LEMMA ToldHaveTheirChannel ==
    ASSUME BotTypeOK, ToldTicketsAreSafe
    PROVE  \A t \in told : tickets[t] # Nothing /\ tickets[t].channel \in Channels
                           /\ t \in OnChannel(tickets[t].channel)
BY DEF BotTypeOK, ToldTicketsAreSafe, Stored, OnChannel, Row

LEMMA QuietStep ==
    ASSUME BotTypeOK, FormsAreApart, ToldTicketsAreSafe, FormsFinish, Quiet
    PROVE  FormsAreApart' /\ ToldTicketsAreSafe' /\ FormsFinish'
<1>1. FormsAreApart'
  BY DEF Quiet, FormsAreApart
<1>2. ToldTicketsAreSafe'
  <2> SUFFICES ASSUME NEW t \in told
               PROVE  /\ t \in Stored' /\ channel'[tickets'[t].channel] = "open"
                      /\ \A i \in Interactions :
                            Opening(i, tickets[t].channel)' => task'[i].pc = "posting"
    BY DEF Quiet, ToldTicketsAreSafe, Opening
  <2>1. tickets[t].channel \in Channels
    BY ToldHaveTheirChannel
  <2>2. QED
    BY <2>1 DEF Quiet, ToldTicketsAreSafe
<1>3. FormsFinish'
  <2> SUFFICES ASSUME smooth', NEW c \in Channels, \A i \in Interactions : ~Opening(i, c)'
               PROVE  channel'[c] = "open" <=> OnChannel(c)' # {} /\ control'[c]
    BY DEF FormsFinish
  <2>1. smooth /\ \A i \in Interactions : ~Opening(i, c)
    BY DEF Quiet
  <2>2. QED
    BY <2>1 DEF Quiet, FormsFinish
<1>4. QED
  BY <1>1, <1>2, <1>3

(* The new ticket of a channel that no form works on, or that its form has   *)
(* just been waiting for.                                                    *)
LEMMA AddingStep ==
    ASSUME BotTypeOK, OrderIsKept, FormsAreApart, ToldTicketsAreSafe, FormsFinish,
           NEW t, NEW c, RowAdded(t, c), UNCHANGED <<channel, control, task, told, smooth>>,
           channel[c] # "none",
           \/ channel[c] = "open" /\ control[c]
           \/ smooth => \E i \in Interactions : Opening(i, c)
    PROVE  FormsAreApart' /\ ToldTicketsAreSafe' /\ FormsFinish'
<1>1. \A i, d : Opening(i, d)' = Opening(i, d)
  BY DEF Opening
<1>2. /\ Stored' = Stored \cup {t} /\ t \notin Stored /\ c \in Channels
      /\ \A u \in Stored : tickets'[u] = tickets[u]
      /\ OnChannel(c)' = OnChannel(c) \cup {t}
      /\ \A d \in Channels \ {c} : OnChannel(d)' = OnChannel(d)
  BY RowAddedIsLatest DEF RowAdded
<1>3. FormsAreApart'
  <2> SUFFICES ASSUME NEW d \in Channels
               PROVE  /\ \A i \in Interactions, j \in Interactions :
                             Opening(i, d)' /\ Opening(j, d)' => i = j
                      /\ channel'[d] = "none" => ~control'[d] /\ OnChannel(d)' = {}
    BY DEF FormsAreApart
  <2>1. QED
    BY <1>1, <1>2 DEF FormsAreApart
<1>4. ToldTicketsAreSafe'
  BY <1>1, <1>2 DEF ToldTicketsAreSafe, Opening
<1>5. FormsFinish'
  <2> SUFFICES ASSUME smooth', NEW d \in Channels, \A i \in Interactions : ~Opening(i, d)'
               PROVE  channel'[d] = "open" <=> OnChannel(d)' # {} /\ control'[d]
    BY DEF FormsFinish
  <2>1. smooth /\ \A i \in Interactions : ~Opening(i, d)
    BY <1>1
  <2>2. d # c => (channel[d] = "open" <=> OnChannel(d) # {} /\ control[d])
    BY <2>1 DEF FormsFinish
  <2>3. d = c => channel[d] = "open" /\ control[d]
    BY <2>1
  <2>4. QED
    BY <1>2, <2>2, <2>3
<1>6. QED
  BY <1>3, <1>4, <1>5

(* The backend's answer reaches the interaction that waits for it, or nobody. *)
LEMMA AnswerIsHeard ==
    ASSUME BotTypeOK, NEW i \in Interactions, call[i] # Nothing,
           NEW ok \in BOOLEAN, NEW t \in Tickets \cup {Nothing}, Answer(i, ok, t)
    PROVE  /\ call' \in [Interactions -> Call \cup {Nothing}]
           /\ \A j \in Interactions \ {i} : call'[j] = call[j]
           /\ ~Doing(i, "waiting") => call'[i] = Nothing
           /\ Doing(i, "waiting") =>
                 /\ call'[i] # Nothing /\ call'[i].phase = "answered"
                 /\ call'[i].ok = ok /\ call'[i].ticket = t
                 /\ call'[i].op = call[i].op /\ call'[i].channel = call[i].channel
<1> DEFINE heard == [call[i] EXCEPT !.phase = "answered", !.ok = ok, !.ticket = t]
<1>1. call[i] \in Call
  BY DEF BotTypeOK
<1>2. /\ heard \in Call /\ heard.phase = "answered" /\ heard.ok = ok /\ heard.ticket = t
      /\ heard.op = call[i].op /\ heard.channel = call[i].channel
  BY <1>1 DEF Call
<1>3. heard # Nothing
  BY <1>2, NothingAssumption
<1>4. call' = [call EXCEPT ![i] = IF Doing(i, "waiting") THEN heard ELSE Nothing]
  BY DEF Answer
<1> HIDE DEF heard
<1>5. QED
  BY <1>2, <1>3, <1>4 DEF BotTypeOK

(* A step on one interaction that leaves the channels and the order of the   *)
(* tickets as they are keeps the invariant if that interaction stays sound.  *)
LEMMA OneInteraction ==
    ASSUME BotInductive, NEW i \in Interactions, BotTypeOK', RowsStay,
           UNCHANGED <<channel, control, told>>, smooth' => smooth,
           \A j \in Interactions \ {i} : task'[j] = task[j] /\ call'[j] = call[j],
           \A c \in Channels :
              /\ Opening(i, c)' => Opening(i, c) /\ (task[i].pc = "posting" => task'[i].pc = "posting")
              /\ smooth' /\ Opening(i, c) => Opening(i, c)',
           TaskIsSound(i)', CallIsSound(i)'
    PROVE  BotInductive'
<1>1. BotTypeOK /\ OrderIsKept /\ FormsAreApart /\ ToldTicketsAreSafe /\ FormsFinish
  BY DEF BotInductive
<1>2. /\ Stored' = Stored /\ OrderIsKept'
      /\ \A c \in Channels : OnChannel(c)' = OnChannel(c)
  BY <1>1, RowsStayInPlace
<1>3. \A t \in told : tickets'[t].channel = tickets[t].channel
  BY <1>1, ToldHaveTheirChannel DEF RowsStay, BotTypeOK
<1>4. ASSUME NEW j \in Interactions, j # i
      PROVE  TaskIsSound(j)' /\ CallIsSound(j)'
  <2>1. TaskIsSound(j) /\ CallIsSound(j) /\ task'[j] = task[j] /\ call'[j] = call[j]
    BY <1>4 DEF BotInductive
  <2>2. QED
    BY <1>1, <1>2, <2>1, OthersStaySound
<1>5. Quiet
  <2>1. ASSUME NEW j \in Interactions, NEW c \in Channels
        PROVE  /\ Opening(j, c)' => Opening(j, c) /\ (task[j].pc = "posting" => task'[j].pc = "posting")
               /\ smooth' /\ Opening(j, c) => Opening(j, c)'
    BY DEF Opening
  <2>2. QED
    BY <1>2, <1>3, <2>1 DEF Quiet
<1>6. FormsAreApart' /\ ToldTicketsAreSafe' /\ FormsFinish'
  BY <1>1, <1>5, QuietStep
<1>7. QED
  BY <1>2, <1>4, <1>6 DEF BotInductive

LEMMA SameRowsStay ==
    ASSUME BotTypeOK, tickets' = tickets
    PROVE  RowsStay
BY DEF BotTypeOK, RowsStay

(* What the invariant says of one interaction, with the types of its parts. *)
LEMMA InteractionFacts ==
    ASSUME BotInductive, NEW i \in Interactions
    PROVE  /\ BotTypeOK /\ TaskIsSound(i) /\ CallIsSound(i)
           /\ task[i] # Nothing => task[i] \in Task
           /\ call[i] # Nothing => call[i] \in Call
BY DEF BotInductive, BotTypeOK

(* The shape of what Send writes. *)
LEMMA SentCall ==
    ASSUME BotTypeOK, NEW i \in Interactions, NEW op \in Ops, NEW c \in Channels,
           NEW t \in Tickets \cup {Nothing}, NEW who \in Members \cup {Nothing},
           Send(i, op, c, t, who)
    PROVE  /\ call' \in [Interactions -> Call \cup {Nothing}]
           /\ \A j \in Interactions \ {i} : call'[j] = call[j]
           /\ call'[i] # Nothing /\ call'[i].op = op /\ call'[i].channel = c
           /\ call'[i].ticket = t /\ call'[i].phase = "sent"
<1> DEFINE new == [op |-> op, channel |-> c, ticket |-> t, who |-> who, phase |-> "sent", ok |-> FALSE]
<1>1. /\ new \in Call /\ new.op = op /\ new.channel = c /\ new.ticket = t /\ new.phase = "sent"
  BY DEF Call
<1>2. new # Nothing
  BY <1>1, NothingAssumption
<1>3. call' = [call EXCEPT ![i] = new]
  BY DEF Send
<1> HIDE DEF new
<1>4. QED
  BY <1>1, <1>2, <1>3 DEF BotTypeOK

(* The shape of what a new interaction is. *)
LEMMA BegunTask ==
    ASSUME BotTypeOK, NEW i \in Interactions, NEW op \in Ops, NEW c \in Channels,
           NEW t \in Tickets \cup {Nothing}, NEW pc \in {"choosing", "waiting"},
           task' = [task EXCEPT ![i] = [op |-> op, channel |-> c, ticket |-> t, pc |-> pc]]
    PROVE  /\ task' \in [Interactions -> Task \cup {Nothing}]
           /\ \A j \in Interactions \ {i} : task'[j] = task[j]
           /\ task'[i] # Nothing /\ task'[i].op = op /\ task'[i].channel = c
           /\ task'[i].ticket = t /\ task'[i].pc = pc
<1> DEFINE new == [op |-> op, channel |-> c, ticket |-> t, pc |-> pc]
<1>1. /\ new \in Task /\ new.op = op /\ new.channel = c /\ new.ticket = t /\ new.pc = pc
  BY DEF Task
<1>2. new # Nothing
  BY <1>1, NothingAssumption
<1> HIDE DEF new
<1>3. QED
  BY <1>1, <1>2 DEF BotTypeOK, new

(* The task of an interaction that goes on to its next step. *)
LEMMA AdvancedTask ==
    ASSUME BotTypeOK, NEW i \in Interactions, task[i] # Nothing,
           NEW pc \in {"waiting", "posting", "deleting"},
           task' = [task EXCEPT ![i].pc = pc]
    PROVE  /\ task' \in [Interactions -> Task \cup {Nothing}]
           /\ \A j \in Interactions \ {i} : task'[j] = task[j]
           /\ task'[i] # Nothing /\ task'[i].op = task[i].op /\ task'[i].channel = task[i].channel
           /\ task'[i].ticket = task[i].ticket /\ task'[i].pc = pc
<1> DEFINE new == [task[i] EXCEPT !.pc = pc]
<1>1. task[i] \in Task
  BY DEF BotTypeOK
<1>2. /\ new \in Task /\ new.op = task[i].op /\ new.channel = task[i].channel
      /\ new.ticket = task[i].ticket /\ new.pc = pc
  BY <1>1 DEF Task
<1>3. new # Nothing
  BY <1>2, NothingAssumption
<1>4. task' = [task EXCEPT ![i] = new]
  OBVIOUS
<1> HIDE DEF new
<1>5. QED
  BY <1>2, <1>3, <1>4 DEF BotTypeOK

-------------------------------------------------------------------------------
(* Buttons and selects *)

LEMMA PressKeeps ==
    ASSUME BotInductive, NEW i \in Interactions, NEW op \in Ops \ {"open"},
           NEW c \in Channels, NEW who \in Members, Press(i, op, c, who)
    PROVE  BotInductive'
<1>1. BotTypeOK /\ OrderIsKept
  BY DEF BotInductive
<1> DEFINE t == Newest(c)
<1>2. t \in OnChannel(c) /\ t \in Tickets
  BY <1>1, NewestIsLatest, OnChannelIsStored DEF Press
<1>3. /\ task[i] = Nothing /\ call[i] = Nothing /\ channel[c] = "open"
      /\ UNCHANGED <<linked, channel, control, tickets, told, smooth>>
  BY DEF Press, Idle
<1> DEFINE pc == IF op = "transfer" THEN "choosing" ELSE "waiting"
<1>4. task' = [task EXCEPT ![i] = [op |-> op, channel |-> c, ticket |-> t, pc |-> pc]]
  BY DEF Press
<1>5. pc \in {"choosing", "waiting"} /\ (pc = "choosing" <=> op = "transfer")
  OBVIOUS
<1> HIDE DEF pc
<1>6. /\ task' \in [Interactions -> Task \cup {Nothing}]
      /\ \A j \in Interactions \ {i} : task'[j] = task[j]
      /\ task'[i] # Nothing /\ task'[i].op = op /\ task'[i].channel = c
      /\ task'[i].ticket = t /\ task'[i].pc = pc
  BY <1>1, <1>2, <1>4, <1>5, BegunTask
<1>7. /\ call' \in [Interactions -> Call \cup {Nothing}]
      /\ \A j \in Interactions \ {i} : call'[j] = call[j]
      /\ op = "transfer" => call'[i] = Nothing
      /\ op # "transfer" => /\ call'[i] # Nothing /\ call'[i].op = op /\ call'[i].channel = c
                            /\ call'[i].ticket = t /\ call'[i].phase = "sent"
  <2>1. CASE op = "transfer"
    BY <1>1, <1>3, <2>1 DEF Press, BotTypeOK
  <2>2. CASE op # "transfer"
    <3>1. Send(i, op, c, t, who)
      BY <2>2 DEF Press
    <3>2. QED
      BY <1>1, <1>2, <2>2, <3>1, SentCall
  <2>3. QED
    BY <2>1, <2>2
<1> HIDE DEF t
<1>8. BotTypeOK'
  BY <1>1, <1>3, <1>6, <1>7 DEF BotTypeOK
<1>9. OnChannel(c)' = OnChannel(c)
  BY <1>3 DEF OnChannel, Stored
<1>10. TaskIsSound(i)' /\ CallIsSound(i)'
  BY <1>2, <1>3, <1>5, <1>6, <1>7, <1>9 DEF TaskIsSound, CallIsSound, Doing
<1>11. \A d \in Channels : ~Opening(i, d)' /\ ~Opening(i, d)
  BY <1>3, <1>6 DEF Opening
<1>12. QED
  BY <1>1, <1>3, <1>6, <1>7, <1>8, <1>10, <1>11, SameRowsStay, OneInteraction

LEMMA ChooseKeeps ==
    ASSUME BotInductive, NEW i \in Interactions, NEW who \in Members, Choose(i, who)
    PROVE  BotInductive'
<1>1. /\ BotTypeOK /\ TaskIsSound(i) /\ CallIsSound(i)
      /\ task[i] # Nothing /\ task[i] \in Task /\ task[i].pc = "choosing"
  BY InteractionFacts DEF Choose, Doing
<1> DEFINE c == task[i].channel
           t == task[i].ticket
<1>2. /\ c \in Channels /\ t \in OnChannel(c) /\ t \in Tickets
      /\ channel[c] # "none" /\ task[i].op = "transfer"
  BY <1>1, OnChannelIsStored DEF TaskIsSound, Task
<1>3. UNCHANGED <<linked, channel, control, tickets, told, smooth>>
  BY DEF Choose
<1>4. /\ task' \in [Interactions -> Task \cup {Nothing}]
      /\ \A j \in Interactions \ {i} : task'[j] = task[j]
      /\ task'[i] # Nothing /\ task'[i].op = task[i].op /\ task'[i].channel = c
      /\ task'[i].ticket = t /\ task'[i].pc = "waiting"
  BY <1>1, AdvancedTask DEF Choose
<1>5. /\ call' \in [Interactions -> Call \cup {Nothing}]
      /\ \A j \in Interactions \ {i} : call'[j] = call[j]
      /\ call'[i] # Nothing /\ call'[i].op = "transfer" /\ call'[i].channel = c
      /\ call'[i].ticket = t /\ call'[i].phase = "sent"
  BY <1>1, <1>2, SentCall DEF Choose, Ops
<1> HIDE DEF c, t
<1>6. BotTypeOK'
  BY <1>1, <1>3, <1>4, <1>5 DEF BotTypeOK
<1>7. \A d : OnChannel(d)' = OnChannel(d)
  BY <1>3 DEF OnChannel, Stored
<1>8. TaskIsSound(i)' /\ CallIsSound(i)'
  BY <1>1, <1>2, <1>3, <1>4, <1>5, <1>7 DEF TaskIsSound, CallIsSound, Doing
<1>9. \A d \in Channels : ~Opening(i, d)' /\ ~Opening(i, d)
  BY <1>1, <1>2, <1>4 DEF Opening
<1>10. QED
  BY <1>1, <1>3, <1>4, <1>5, <1>6, <1>8, <1>9, SameRowsStay, OneInteraction

(* An interaction that ends with no call of its own, or with one that no     *)
(* answer can reach any more; a form ends like this only when something has  *)
(* failed.                                                                   *)
LEMMA EndKeeps ==
    ASSUME BotInductive, NEW i \in Interactions, task[i] # Nothing,
           task' = [task EXCEPT ![i] = Nothing],
           UNCHANGED <<linked, channel, control, tickets, told>>,
           \/ call' = [call EXCEPT ![i] = Nothing]
           \/ call' = call /\ ~InPhase(i, "answered"),
           smooth' \in BOOLEAN, smooth' => smooth /\ task[i].op # "open"
    PROVE  BotInductive'
<1>1. BotTypeOK /\ TaskIsSound(i) /\ CallIsSound(i)
  BY InteractionFacts
<1>2. /\ task' \in [Interactions -> Task \cup {Nothing}]
      /\ task'[i] = Nothing /\ \A j \in Interactions \ {i} : task'[j] = task[j]
  BY <1>1 DEF BotTypeOK
<1>3. /\ call' \in [Interactions -> Call \cup {Nothing}]
      /\ call'[i] = Nothing \/ (call'[i] = call[i] /\ ~InPhase(i, "answered"))
      /\ \A j \in Interactions \ {i} : call'[j] = call[j]
  BY <1>1 DEF BotTypeOK
<1>4. BotTypeOK'
  BY <1>1, <1>2, <1>3 DEF BotTypeOK
<1>5. \A c : OnChannel(c)' = OnChannel(c)
  BY DEF OnChannel, Stored
<1>6. TaskIsSound(i)'
  BY <1>2 DEF TaskIsSound
<1>7. CallIsSound(i)'
  <2>1. CASE call'[i] = Nothing
    BY <2>1 DEF CallIsSound
  <2>2. CASE call'[i] = call[i] /\ call[i] # Nothing /\ call[i].phase # "answered"
    BY <1>1, <1>2, <1>5, <2>2 DEF CallIsSound
  <2>3. QED
    BY <1>3, <2>1, <2>2 DEF InPhase
<1>8. \A c \in Channels : ~Opening(i, c)' /\ (smooth' => ~Opening(i, c))
  BY <1>2 DEF Opening
<1>9. QED
  BY <1>1, <1>2, <1>3, <1>4, <1>6, <1>7, <1>8, SameRowsStay, OneInteraction

LEMMA DismissKeeps ==
    ASSUME BotInductive, NEW i \in Interactions, Dismiss(i)
    PROVE  BotInductive'
<1>1. BotTypeOK /\ TaskIsSound(i) /\ task[i] # Nothing /\ task[i].pc = "choosing"
  BY InteractionFacts DEF Dismiss, Doing
<1>2. task[i].op # "open" /\ call[i] = Nothing
  BY <1>1 DEF TaskIsSound
<1>3. /\ task' = [task EXCEPT ![i] = Nothing]
      /\ UNCHANGED <<linked, channel, control, tickets, call, told, smooth>>
  BY DEF Dismiss
<1>4. QED
  BY <1>1, <1>2, <1>3, EndKeeps DEF InPhase, BotTypeOK

LEMMA DiscordFailsKeeps ==
    ASSUME BotInductive, NEW i \in Interactions, DiscordFails(i)
    PROVE  BotInductive'
<1>1. /\ CallIsSound(i) /\ task[i] # Nothing
      /\ task[i].pc \in {"posting", "deleting"}
  BY InteractionFacts DEF DiscordFails, Doing
<1>2. ~InPhase(i, "answered")
  BY <1>1 DEF CallIsSound, InPhase, Doing
<1>3. /\ task' = [task EXCEPT ![i] = Nothing]
      /\ UNCHANGED <<linked, channel, control, tickets, call, told>> /\ smooth' = FALSE
  BY DEF DiscordFails
<1>4. QED
  BY <1>1, <1>2, <1>3, EndKeeps

(* The client gives up: a form goes on to delete its channel, a button press *)
(* is over.                                                                  *)
LEMMA TimeoutKeeps ==
    ASSUME BotInductive, NEW i \in Interactions, Timeout(i)
    PROVE  BotInductive'
<1>1. /\ BotTypeOK /\ TaskIsSound(i) /\ CallIsSound(i)
      /\ task[i] # Nothing /\ task[i] \in Task /\ task[i].pc = "waiting"
  BY InteractionFacts DEF Timeout, Doing
<1>2. UNCHANGED <<linked, channel, control, tickets, told>> /\ smooth' = FALSE
  BY DEF Timeout
<1>3. /\ call' \in [Interactions -> Call \cup {Nothing}]
      /\ \A j \in Interactions \ {i} : call'[j] = call[j]
      /\ call'[i] = Nothing \/ (call'[i] = call[i] /\ ~InPhase(i, "answered"))
  BY <1>1 DEF Timeout, BotTypeOK
<1>4. CASE task[i].op = "open"
  <2>1. task' = [task EXCEPT ![i].pc = "deleting"]
    BY <1>4 DEF Timeout
  <2>2. /\ task' \in [Interactions -> Task \cup {Nothing}]
        /\ \A j \in Interactions \ {i} : task'[j] = task[j]
        /\ task'[i] # Nothing /\ task'[i].op = task[i].op /\ task'[i].channel = task[i].channel
        /\ task'[i].ticket = task[i].ticket /\ task'[i].pc = "deleting"
    BY <1>1, <2>1, AdvancedTask
  <2>3. BotTypeOK'
    BY <1>1, <1>2, <1>3, <2>2 DEF BotTypeOK
  <2>4. \A c : OnChannel(c)' = OnChannel(c)
    BY <1>2 DEF OnChannel, Stored
  <2>5. TaskIsSound(i)'
    BY <1>1, <1>2, <1>4, <2>2 DEF TaskIsSound
  <2>6. CallIsSound(i)'
    <3>1. CASE call'[i] = Nothing
      BY <3>1 DEF CallIsSound
    <3>2. CASE call'[i] = call[i] /\ call[i] # Nothing /\ call[i].phase # "answered"
      BY <1>1, <1>2, <2>2, <2>4, <3>2 DEF CallIsSound
    <3>3. QED
      BY <1>3, <3>1, <3>2 DEF InPhase
  <2>7. \A c \in Channels : Opening(i, c)' => Opening(i, c) /\ task[i].pc # "posting"
    BY <1>1, <2>2 DEF Opening
  <2>8. QED
    BY <1>1, <1>2, <1>3, <2>2, <2>3, <2>5, <2>6, <2>7, SameRowsStay, OneInteraction
<1>5. CASE task[i].op # "open"
  <2>1. task' = [task EXCEPT ![i] = Nothing]
    BY <1>5 DEF Timeout
  <2>2. \/ call' = [call EXCEPT ![i] = Nothing]
        \/ call' = call /\ ~InPhase(i, "answered")
    BY <1>1 DEF Timeout, BotTypeOK
  <2>3. QED
    BY <1>1, <1>2, <2>1, <2>2, EndKeeps
<1>6. QED
  BY <1>4, <1>5

(* A call that gets lost. *)
LEMMA LoseKeeps ==
    ASSUME BotInductive, NEW i \in Interactions, Lose(i)
    PROVE  BotInductive'
<1>1. BotTypeOK /\ TaskIsSound(i)
  BY InteractionFacts
<1>2. UNCHANGED <<linked, channel, control, tickets, task, told>> /\ smooth' = FALSE
  BY DEF Lose
<1>3. /\ call' \in [Interactions -> Call \cup {Nothing}] /\ call'[i] = Nothing
      /\ \A j \in Interactions \ {i} : call'[j] = call[j]
  BY <1>1 DEF Lose, BotTypeOK
<1>4. BotTypeOK'
  BY <1>1, <1>2, <1>3 DEF BotTypeOK
<1>5. \A c : OnChannel(c)' = OnChannel(c) /\ Opening(i, c)' = Opening(i, c)
  BY <1>2 DEF OnChannel, Stored, Opening
<1>6. TaskIsSound(i)' /\ CallIsSound(i)'
  BY <1>1, <1>2, <1>3, <1>5 DEF TaskIsSound, CallIsSound
<1>7. QED
  BY <1>1, <1>2, <1>3, <1>4, <1>5, <1>6, SameRowsStay, OneInteraction

-------------------------------------------------------------------------------
(* The backend *)

(* An answer that leaves the interaction itself as it is.                    *)
LEMMA AnswerKeeps ==
    ASSUME BotInductive, NEW i \in Interactions, call[i] # Nothing, RowsStay,
           UNCHANGED <<linked, channel, control, task, told, smooth>>,
           NEW ok \in BOOLEAN, NEW t \in Tickets \cup {Nothing}, Answer(i, ok, t),
           ok => call[i].op # "open"
    PROVE  BotInductive'
<1>1. BotTypeOK /\ OrderIsKept /\ TaskIsSound(i) /\ CallIsSound(i)
  BY DEF BotInductive
<1>2. /\ call' \in [Interactions -> Call \cup {Nothing}]
      /\ \A j \in Interactions \ {i} : call'[j] = call[j]
      /\ ~Doing(i, "waiting") => call'[i] = Nothing
      /\ Doing(i, "waiting") =>
            /\ call'[i] # Nothing /\ call'[i].phase = "answered"
            /\ call'[i].ok = ok /\ call'[i].ticket = t
            /\ call'[i].op = call[i].op /\ call'[i].channel = call[i].channel
  BY <1>1, AnswerIsHeard
<1>3. \A c \in Channels : OnChannel(c)' = OnChannel(c)
  BY <1>1, RowsStayInPlace
<1>4. BotTypeOK'
  BY <1>1, <1>2 DEF BotTypeOK, RowsStay
<1>5. TaskIsSound(i)'
  <2>1. task[i] # Nothing => task[i].channel \in Channels
    BY <1>1 DEF BotTypeOK, Task
  <2>2. task[i] # Nothing /\ task[i].pc \in {"choosing", "posting"} => call'[i] = Nothing
    BY <1>1, <1>2 DEF TaskIsSound, Doing
  <2>3. QED
    BY <1>1, <1>3, <2>1, <2>2 DEF TaskIsSound
<1>6. CallIsSound(i)'
  BY <1>1, <1>2 DEF CallIsSound, Doing
<1>7. \A c : Opening(i, c)' = Opening(i, c)
  BY DEF Opening
<1>8. QED
  BY <1>2, <1>4, <1>5, <1>6, <1>7, OneInteraction

LEMMA ResolveGuildKeeps ==
    ASSUME BotInductive, NEW i \in Interactions, ResolveGuild(i)
    PROVE  BotInductive'
<1>1. /\ BotTypeOK /\ TaskIsSound(i) /\ CallIsSound(i)
      /\ call[i] # Nothing /\ call[i] \in Call /\ call[i].phase = "sent" /\ call[i].op = "open"
  BY InteractionFacts DEF ResolveGuild, InPhase
<1>2. UNCHANGED <<linked, channel, control, tickets, task, told, smooth>>
  BY DEF ResolveGuild
<1>3. RowsStay
  BY <1>1, <1>2, SameRowsStay
<1>4. CASE linked
  <2> DEFINE new == [call[i] EXCEPT !.phase = "resolved"]
  <2>1. /\ new \in Call /\ new.phase = "resolved" /\ new.op = "open"
        /\ new.channel = call[i].channel /\ new.ok = call[i].ok /\ new.ticket = call[i].ticket
    BY <1>1 DEF Call
  <2>2. new # Nothing
    BY <2>1, NothingAssumption
  <2>3. call' = [call EXCEPT ![i] = new]
    BY <1>4 DEF ResolveGuild
  <2> HIDE DEF new
  <2>4. /\ call' \in [Interactions -> Call \cup {Nothing}] /\ call'[i] = new
        /\ \A j \in Interactions \ {i} : call'[j] = call[j]
    BY <1>1, <2>1, <2>3 DEF BotTypeOK
  <2>5. BotTypeOK'
    BY <1>1, <1>2, <2>4 DEF BotTypeOK
  <2>6. \A c : OnChannel(c)' = OnChannel(c) /\ Opening(i, c)' = Opening(i, c)
    BY <1>2 DEF OnChannel, Stored, Opening
  <2>7. TaskIsSound(i)'
    BY <1>1, <1>2, <2>6 DEF TaskIsSound
  <2>8. CallIsSound(i)'
    BY <1>1, <1>2, <2>1, <2>2, <2>4 DEF CallIsSound, Doing
  <2>9. QED
    BY <1>2, <1>3, <2>4, <2>5, <2>6, <2>7, <2>8, OneInteraction
<1>5. CASE ~linked
  <2>1. Answer(i, FALSE, Nothing)
    BY <1>5 DEF ResolveGuild
  <2>2. QED
    BY <1>1, <1>2, <1>3, <2>1, AnswerKeeps
<1>6. QED
  BY <1>4, <1>5

(* An operation on a ticket leaves its place and never reopens it.           *)
LEMMA OperationKeepsPlace ==
    ASSUME BotTypeOK, NEW t \in Stored, NEW op \in Ops \ {"open"},
           NEW who \in Members \cup {Nothing}, Permits(op, tickets[t]),
           tickets' = [tickets EXCEPT ![t] = After(op, @, who)]
    PROVE  RowsStay
<1>1. t \in Tickets /\ tickets[t] \in Row /\ tickets[t].status # "closed"
  <2>1. t \in Tickets /\ tickets[t] \in Row
    BY DEF BotTypeOK, Stored
  <2>2. QED
    BY <2>1 DEF Permits
<1> DEFINE new == After(op, tickets[t], who)
<1>2. new \in Row /\ new.channel = tickets[t].channel /\ new.born = tickets[t].born
  BY <1>1 DEF After, Row
<1>3. new # Nothing /\ tickets[t] # Nothing
  BY <1>1, <1>2, NothingAssumption
<1>4. tickets' = [tickets EXCEPT ![t] = new]
  OBVIOUS
<1> HIDE DEF new
<1>5. QED
  BY <1>1, <1>2, <1>3, <1>4 DEF RowsStay, BotTypeOK

LEMMA ActKeeps ==
    ASSUME BotInductive, NEW i \in Interactions, Act(i)
    PROVE  BotInductive'
<1>1. /\ BotTypeOK /\ CallIsSound(i)
      /\ call[i] # Nothing /\ call[i] \in Call /\ call[i].phase = "sent" /\ call[i].op # "open"
  BY InteractionFacts DEF Act, InPhase
<1> DEFINE t == call[i].ticket
           ok == Permits(call[i].op, tickets[t])
<1>2. call[i].channel \in Channels /\ call[i].op \in Ops \ {"open"} /\ call[i].who \in Members \cup {Nothing}
  BY <1>1 DEF Call
<1>3. t \in Stored /\ t \in Tickets
  BY <1>1 DEF CallIsSound, OnChannel, Stored
<1>4. /\ UNCHANGED <<linked, channel, control, task, told, smooth>> /\ Answer(i, ok, t)
      /\ tickets' = IF ok THEN [tickets EXCEPT ![t] = After(call[i].op, @, call[i].who)] ELSE tickets
  BY DEF Act
<1>5. ok \in BOOLEAN
  BY DEF Permits
<1> HIDE DEF t
<1>6. RowsStay
  <2>1. CASE ok
    BY <1>1, <1>2, <1>3, <1>4, <2>1, OperationKeepsPlace
  <2>2. CASE ~ok
    BY <1>1, <1>4, <2>2, SameRowsStay
  <2>3. QED
    BY <2>1, <2>2
<1> HIDE DEF ok
<1>7. QED
  BY <1>1, <1>3, <1>4, <1>5, <1>6, AnswerKeeps

(* The new ticket and the answer to its form are one commit.                 *)
LEMMA CreateTicketKeeps ==
    ASSUME BotInductive, NEW i \in Interactions, NEW t \in Tickets, CreateTicket(i, t)
    PROVE  BotInductive'
<1>1. /\ BotTypeOK /\ OrderIsKept /\ FormsAreApart /\ ToldTicketsAreSafe /\ FormsFinish
      /\ TaskIsSound(i) /\ CallIsSound(i)
      /\ call[i] # Nothing /\ call[i] \in Call /\ call[i].phase = "resolved"
  BY InteractionFacts DEF BotInductive, CreateTicket, InPhase
<1> DEFINE c == call[i].channel
<1>2. /\ c \in Channels /\ channel[c] # "none" /\ call[i].op = "open"
      /\ task[i] # Nothing => task[i].op = "open" /\ task[i].channel = c
  BY <1>1 DEF CallIsSound, Call
<1>3. UNCHANGED <<linked, channel, control, task, told, smooth>> /\ Answer(i, TRUE, t)
  BY DEF CreateTicket
<1>4. RowAdded(t, c)
  BY <1>2 DEF CreateTicket, RowAdded
<1>5. smooth => \E j \in Interactions : Opening(j, c)
  BY <1>1, <1>2 DEF CallIsSound, Doing, Opening
<1>6. /\ call' \in [Interactions -> Call \cup {Nothing}]
      /\ \A j \in Interactions \ {i} : call'[j] = call[j]
      /\ ~Doing(i, "waiting") => call'[i] = Nothing
      /\ Doing(i, "waiting") =>
            /\ call'[i] # Nothing /\ call'[i].phase = "answered"
            /\ call'[i].ok = TRUE /\ call'[i].ticket = t
            /\ call'[i].op = "open" /\ call'[i].channel = c
  BY <1>1, <1>2, <1>3, AnswerIsHeard
<1> HIDE DEF c
<1>7. /\ tickets' \in [Tickets -> Row \cup {Nothing}] /\ OrderIsKept'
      /\ \A d \in Channels : OnChannel(d) \subseteq OnChannel(d)'
      /\ \A d : d = c => t \in OnChannel(d)'
  BY <1>1, <1>4, RowAddedIsLatest
<1>8. FormsAreApart' /\ ToldTicketsAreSafe' /\ FormsFinish'
  BY <1>1, <1>2, <1>3, <1>4, <1>5, AddingStep
<1>9. ASSUME NEW j \in Interactions, j # i
      PROVE  TaskIsSound(j)' /\ CallIsSound(j)'
  <2>1. TaskIsSound(j) /\ CallIsSound(j) /\ task'[j] = task[j] /\ call'[j] = call[j]
    BY <1>3, <1>6, <1>9 DEF BotInductive
  <2>2. QED
    BY <1>1, <1>3, <1>7, <2>1, OthersStaySound
<1>10. TaskIsSound(i)'
  <2>1. task[i] # Nothing => task[i].channel \in Channels
    BY <1>1 DEF BotTypeOK, Task
  <2>2. task[i] # Nothing => task[i].pc \notin {"choosing", "posting"}
    BY <1>1 DEF TaskIsSound
  <2>3. QED
    BY <1>1, <1>3, <2>1, <2>2 DEF TaskIsSound
<1>11. CallIsSound(i)'
  BY <1>1, <1>2, <1>3, <1>6, <1>7 DEF CallIsSound, Doing
<1>12. BotTypeOK'
  BY <1>1, <1>3, <1>6, <1>7 DEF BotTypeOK
<1>13. QED
  BY <1>7, <1>8, <1>9, <1>10, <1>11, <1>12 DEF BotInductive

(* A step that no interaction takes part in. *)
LEMMA OutsideStepKeeps ==
    ASSUME BotInductive, RowsStay, linked' \in BOOLEAN,
           UNCHANGED <<channel, control, task, call, told, smooth>>
    PROVE  BotInductive'
<1>1. BotTypeOK /\ OrderIsKept /\ FormsAreApart /\ ToldTicketsAreSafe /\ FormsFinish
  BY DEF BotInductive
<1>2. /\ Stored' = Stored /\ OrderIsKept'
      /\ \A c \in Channels : OnChannel(c)' = OnChannel(c)
  BY <1>1, RowsStayInPlace
<1>3. \A t \in told : tickets'[t].channel = tickets[t].channel
  BY <1>1, ToldHaveTheirChannel DEF RowsStay, BotTypeOK
<1>4. Quiet
  BY <1>2, <1>3 DEF Quiet, Opening
<1>5. ASSUME NEW j \in Interactions
      PROVE  TaskIsSound(j)' /\ CallIsSound(j)'
  <2>1. TaskIsSound(j) /\ CallIsSound(j) /\ task'[j] = task[j] /\ call'[j] = call[j]
    BY DEF BotInductive
  <2>2. QED
    BY <1>1, <1>2, <2>1, OthersStaySound
<1>6. BotTypeOK'
  BY <1>1 DEF BotTypeOK, RowsStay
<1>7. QED
  BY <1>1, <1>2, <1>4, <1>5, <1>6, QuietStep DEF BotInductive

LEMMA WebActKeeps ==
    ASSUME BotInductive, NEW t \in Tickets, NEW op \in Ops, NEW who \in Members, WebAct(t, op, who)
    PROVE  BotInductive'
<1>1. BotTypeOK /\ linked \in BOOLEAN
  BY DEF BotInductive, BotTypeOK
<1>2. RowsStay
  BY <1>1, OperationKeepsPlace DEF WebAct
<1>3. UNCHANGED <<linked, channel, control, task, call, told, smooth>>
  BY DEF WebAct
<1>4. QED
  BY <1>1, <1>2, <1>3, OutsideStepKeeps

LEMMA RelinkKeeps ==
    ASSUME BotInductive, Relink
    PROVE  BotInductive'
<1>1. BotTypeOK
  BY DEF BotInductive
<1>2. UNCHANGED <<channel, control, tickets, task, call, told, smooth>> /\ linked' \in BOOLEAN
  BY DEF Relink
<1>3. QED
  BY <1>1, <1>2, SameRowsStay, OutsideStepKeeps

LEMMA WebOpenKeeps ==
    ASSUME BotInductive, NEW t \in Tickets, NEW c \in Channels, WebOpen(t, c)
    PROVE  BotInductive'
<1>1. BotTypeOK /\ OrderIsKept /\ FormsAreApart /\ ToldTicketsAreSafe /\ FormsFinish
  BY DEF BotInductive
<1>2. UNCHANGED <<linked, channel, control, task, call, told, smooth>>
  BY DEF WebOpen
<1>3. RowAdded(t, c) /\ channel[c] = "open" /\ control[c]
  BY DEF WebOpen, RowAdded
<1>4. /\ tickets' \in [Tickets -> Row \cup {Nothing}] /\ OrderIsKept'
      /\ \A d \in Channels : OnChannel(d) \subseteq OnChannel(d)'
  BY <1>1, <1>3, RowAddedIsLatest
<1>5. FormsAreApart' /\ ToldTicketsAreSafe' /\ FormsFinish'
  BY <1>1, <1>2, <1>3, AddingStep
<1>6. ASSUME NEW j \in Interactions
      PROVE  TaskIsSound(j)' /\ CallIsSound(j)'
  <2>1. TaskIsSound(j) /\ CallIsSound(j) /\ task'[j] = task[j] /\ call'[j] = call[j]
    BY <1>2 DEF BotInductive
  <2>2. QED
    BY <1>1, <1>2, <1>4, <2>1, OthersStaySound
<1>7. BotTypeOK'
  BY <1>1, <1>2, <1>4 DEF BotTypeOK
<1>8. QED
  BY <1>4, <1>5, <1>6, <1>7 DEF BotInductive

(* A restart of the bot: answers are lost, calls under way are not.          *)
LEMMA CrashKeeps ==
    ASSUME BotInductive, Crash
    PROVE  BotInductive'
<1>1. BotTypeOK /\ OrderIsKept /\ FormsAreApart /\ ToldTicketsAreSafe /\ FormsFinish
  BY DEF BotInductive
<1>2. UNCHANGED <<linked, channel, control, tickets, told>> /\ smooth' = FALSE
  BY DEF Crash
<1>3. \A i \in Interactions :
         /\ task'[i] = Nothing
         /\ call'[i] = Nothing \/ (call'[i] = call[i] /\ call[i] # Nothing /\ call[i].phase # "answered")
  BY DEF Crash, InPhase
<1>4. BotTypeOK'
  BY <1>1, <1>2 DEF Crash, BotTypeOK
<1>5. /\ Stored' = Stored /\ OrderIsKept'
      /\ \A c \in Channels : OnChannel(c)' = OnChannel(c)
  BY <1>1, <1>2, SameRowsStay, RowsStayInPlace
<1>6. Quiet
  BY <1>2, <1>3, <1>5 DEF Quiet, Opening
<1>7. ASSUME NEW i \in Interactions
      PROVE  TaskIsSound(i)' /\ CallIsSound(i)'
  <2>1. TaskIsSound(i)'
    BY <1>3 DEF TaskIsSound
  <2>2. CASE call'[i] = Nothing
    BY <2>1, <2>2 DEF CallIsSound
  <2>3. CASE call'[i] = call[i] /\ call[i] # Nothing /\ call[i].phase # "answered"
    <3>1. CallIsSound(i) /\ call[i].channel \in Channels
      BY <1>1, <2>3 DEF BotInductive, BotTypeOK, Call
    <3>2. OnChannel(call[i].channel)' = OnChannel(call[i].channel)
      BY <1>5, <2>3, <3>1
    <3>3. QED
      BY <1>2, <1>3, <1>5, <2>1, <2>3, <3>1, <3>2 DEF CallIsSound
  <2>4. QED
    BY <1>3, <2>2, <2>3
<1>8. QED
  BY <1>1, <1>4, <1>5, <1>6, <1>7, QuietStep DEF BotInductive

-------------------------------------------------------------------------------
(* The life of a form *)

(* Its channel was not there, so nothing else is on it. *)
LEMMA SubmitFormKeeps ==
    ASSUME BotInductive, NEW i \in Interactions, NEW c \in Channels, SubmitForm(i, c)
    PROVE  BotInductive'
<1>1. BotTypeOK /\ OrderIsKept /\ FormsAreApart /\ ToldTicketsAreSafe /\ FormsFinish
  BY DEF BotInductive
<1>2. /\ task[i] = Nothing /\ call[i] = Nothing /\ channel[c] = "none"
      /\ UNCHANGED <<linked, control, tickets, told, smooth>>
  BY DEF SubmitForm, Idle
<1>3. /\ channel' \in [Channels -> {"none", "open", "deleted"}] /\ channel'[c] = "open"
      /\ \A d \in Channels \ {c} : channel'[d] = channel[d]
  BY <1>1 DEF SubmitForm, BotTypeOK
<1>4. /\ task' \in [Interactions -> Task \cup {Nothing}]
      /\ \A j \in Interactions \ {i} : task'[j] = task[j]
      /\ task'[i] # Nothing /\ task'[i].op = "open" /\ task'[i].channel = c
      /\ task'[i].ticket = Nothing /\ task'[i].pc = "waiting"
  BY <1>1, BegunTask DEF SubmitForm, Ops
<1>5. /\ call' \in [Interactions -> Call \cup {Nothing}]
      /\ \A j \in Interactions \ {i} : call'[j] = call[j]
      /\ call'[i] # Nothing /\ call'[i].op = "open" /\ call'[i].channel = c
      /\ call'[i].ticket = Nothing /\ call'[i].phase = "sent"
  BY <1>1, SentCall DEF SubmitForm, Ops
<1>6. BotTypeOK'
  BY <1>1, <1>2, <1>3, <1>4, <1>5 DEF BotTypeOK
<1>7. /\ Stored' = Stored /\ OrderIsKept'
      /\ \A d \in Channels : OnChannel(d)' = OnChannel(d)
  BY <1>1, <1>2, SameRowsStay, RowsStayInPlace
<1>8. ~control[c] /\ OnChannel(c) = {} /\ \A j \in Interactions : ~Opening(j, c)
  <2>1. ASSUME NEW j \in Interactions, Opening(j, c)
        PROVE  FALSE
    BY <1>2, <2>1 DEF BotInductive, TaskIsSound, Opening
  <2>2. QED
    BY <1>1, <1>2, <2>1 DEF FormsAreApart
<1>9. ASSUME NEW j \in Interactions, j # i
      PROVE  /\ TaskIsSound(j)' /\ CallIsSound(j)'
             /\ \A d \in Channels : Opening(j, d)' = Opening(j, d)
  <2>1. TaskIsSound(j) /\ CallIsSound(j) /\ task'[j] = task[j] /\ call'[j] = call[j]
    BY <1>4, <1>5, <1>9 DEF BotInductive
  <2>2. \A d \in Channels : /\ channel[d] # "none" => channel'[d] # "none"
                            /\ OnChannel(d) \subseteq OnChannel(d)'
                            /\ Opening(j, d) => channel'[d] = channel[d] /\ control'[d] = control[d]
    BY <1>2, <1>3, <1>7, <1>8
  <2>3. QED
    BY <1>1, <1>2, <2>1, <2>2, OthersStaySound DEF Opening
<1>10. TaskIsSound(i)' /\ CallIsSound(i)'
  BY <1>2, <1>3, <1>4, <1>5, <1>8 DEF TaskIsSound, CallIsSound, Doing
<1>11. \A d \in Channels : Opening(i, d)' <=> d = c
  BY <1>4 DEF Opening
<1>12. FormsAreApart'
  BY <1>1, <1>2, <1>3, <1>7, <1>8, <1>9, <1>11 DEF FormsAreApart
<1>13. ToldTicketsAreSafe'
  <2> SUFFICES ASSUME NEW t \in told, NEW d \in Channels, d = tickets[t].channel
               PROVE  /\ t \in Stored' /\ channel'[d] = "open"
                      /\ \A j \in Interactions : Opening(j, d)' => task'[j].pc = "posting"
    BY <1>1, <1>2, ToldHaveTheirChannel DEF ToldTicketsAreSafe, Opening
  <2>1. /\ t \in Stored /\ channel[d] = "open" /\ d # c
        /\ \A j \in Interactions : Opening(j, d) => task[j].pc = "posting"
    BY <1>1, <1>2 DEF ToldTicketsAreSafe
  <2>2. QED
    BY <1>3, <1>4, <1>7, <1>9, <1>11, <2>1
<1>14. FormsFinish'
  <2> SUFFICES ASSUME smooth', NEW d \in Channels, \A j \in Interactions : ~Opening(j, d)'
               PROVE  channel'[d] = "open" <=> OnChannel(d)' # {} /\ control'[d]
    BY DEF FormsFinish
  <2>1. d # c
    BY <1>11
  <2>2. \A j \in Interactions : ~Opening(j, d)
    BY <1>9, <2>1, <1>2 DEF Opening
  <2>3. QED
    BY <1>1, <1>2, <1>3, <1>7, <2>1, <2>2 DEF FormsFinish
<1>15. QED
  BY <1>6, <1>7, <1>9, <1>10, <1>12, <1>13, <1>14 DEF BotInductive

(* The form was answered well: its channel has the ticket it is told of.     *)
LEMMA HearsOfTicketKeeps ==
    ASSUME BotInductive, NEW i \in Interactions, Receive(i), task[i].op = "open", call[i].ok
    PROVE  BotInductive'
<1>1. /\ BotTypeOK /\ OrderIsKept /\ FormsAreApart /\ ToldTicketsAreSafe /\ FormsFinish
      /\ TaskIsSound(i) /\ CallIsSound(i)
      /\ task[i] # Nothing /\ task[i] \in Task /\ task[i].pc = "waiting"
      /\ call[i] # Nothing /\ call[i] \in Call /\ call[i].phase = "answered"
  BY InteractionFacts DEF BotInductive, Receive, Doing, InPhase
<1> DEFINE c == task[i].channel
           t == call[i].ticket
<1>2. /\ c \in Channels /\ t \in OnChannel(c)
      /\ channel[c] = "open" /\ ~control[c]
  BY <1>1 DEF TaskIsSound, CallIsSound, Task
<1>3. t \in Tickets /\ t \in Stored /\ tickets[t].channel = c
  BY <1>2 DEF OnChannel, Stored
<1>4. /\ UNCHANGED <<linked, channel, control, tickets, smooth>>
      /\ told' = told \cup {t}
      /\ task' = [task EXCEPT ![i].pc = "posting"]
      /\ call' = [call EXCEPT ![i] = Nothing]
  BY DEF Receive
<1>5. /\ task' \in [Interactions -> Task \cup {Nothing}]
      /\ \A j \in Interactions \ {i} : task'[j] = task[j]
      /\ task'[i] # Nothing /\ task'[i].op = "open" /\ task'[i].channel = c
      /\ task'[i].pc = "posting"
  BY <1>1, <1>4, AdvancedTask
<1>6. /\ call' \in [Interactions -> Call \cup {Nothing}] /\ call'[i] = Nothing
      /\ \A j \in Interactions \ {i} : call'[j] = call[j]
  BY <1>1, <1>4 DEF BotTypeOK
<1>7. \A d : Opening(i, d)' = Opening(i, d)
  BY <1>1, <1>5 DEF Opening
<1>8. Opening(i, c)
  BY <1>1 DEF Opening
<1> HIDE DEF c, t
<1>9. BotTypeOK'
  BY <1>1, <1>3, <1>4, <1>5, <1>6 DEF BotTypeOK
<1>10. /\ Stored' = Stored /\ OrderIsKept'
       /\ \A d \in Channels : OnChannel(d)' = OnChannel(d)
  BY <1>1, <1>4, SameRowsStay, RowsStayInPlace
<1>11. ASSUME NEW j \in Interactions, j # i
       PROVE  /\ TaskIsSound(j)' /\ CallIsSound(j)'
              /\ \A d : Opening(j, d)' = Opening(j, d)
  <2>1. TaskIsSound(j) /\ CallIsSound(j) /\ task'[j] = task[j] /\ call'[j] = call[j]
    BY <1>5, <1>6, <1>11 DEF BotInductive
  <2>2. QED
    BY <1>1, <1>4, <1>10, <2>1, OthersStaySound DEF Opening
<1>12. TaskIsSound(i)' /\ CallIsSound(i)'
  BY <1>2, <1>4, <1>5, <1>6, <1>10 DEF TaskIsSound, CallIsSound
<1>13. \A j \in Interactions, d \in Channels : Opening(j, d)' = Opening(j, d)
  BY <1>7, <1>11
<1>14. FormsAreApart'
  BY <1>1, <1>4, <1>10, <1>13 DEF FormsAreApart
<1>15. ToldTicketsAreSafe'
  <2>1. ASSUME NEW j \in Interactions, NEW d, d = c, Opening(j, d)'
        PROVE  j = i
    BY <1>1, <1>2, <1>8, <1>13, <2>1 DEF FormsAreApart
  <2>2. ASSUME NEW u \in told', NEW d, d = tickets[u].channel
        PROVE  /\ u \in Stored' /\ channel'[d] = "open" /\ d \in Channels
               /\ \A j \in Interactions : Opening(j, d)' => task'[j].pc = "posting"
    <3>1. CASE d = c
      <4>1. u \in Stored
        BY <1>1, <1>3, <1>4, <2>2 DEF ToldTicketsAreSafe
      <4>2. QED
        BY <1>2, <1>4, <1>5, <1>10, <2>1, <3>1, <4>1
    <3>2. CASE d # c
      <4>1. u \in told
        BY <1>3, <1>4, <2>2, <3>2
      <4>2. d \in Channels
        BY <1>1, <2>2, <4>1, ToldHaveTheirChannel
      <4>3. ASSUME NEW j \in Interactions, Opening(j, d)'
            PROVE  task'[j].pc = "posting"
        <5>1. Opening(j, d)
          BY <1>13, <4>2, <4>3
        <5>2. task[j].pc = "posting"
          BY <1>1, <2>2, <4>1, <5>1 DEF ToldTicketsAreSafe
        <5>3. j # i
          BY <1>1, <5>2
        <5>4. QED
          BY <1>5, <5>2, <5>3
      <4>4. QED
        BY <1>1, <1>4, <1>10, <2>2, <4>1, <4>2, <4>3 DEF ToldTicketsAreSafe
    <3>3. QED
      BY <3>1, <3>2
  <2>3. QED
    BY <1>4, <2>2 DEF ToldTicketsAreSafe, Opening
<1>16. FormsFinish'
  BY <1>1, <1>4, <1>10, <1>13 DEF FormsFinish
<1>17. QED
  BY <1>9, <1>10, <1>11, <1>12, <1>14, <1>15, <1>16 DEF BotInductive

(* The form was refused, and will delete its channel. *)
LEMMA GivesUpKeeps ==
    ASSUME BotInductive, NEW i \in Interactions, Receive(i), task[i].op = "open", ~call[i].ok
    PROVE  BotInductive'
<1>1. /\ BotTypeOK /\ TaskIsSound(i) /\ CallIsSound(i)
      /\ task[i] # Nothing /\ task[i] \in Task /\ task[i].pc = "waiting"
  BY InteractionFacts DEF Receive, Doing
<1>2. /\ UNCHANGED <<linked, channel, control, tickets, told, smooth>>
      /\ task' = [task EXCEPT ![i].pc = "deleting"]
      /\ call' = [call EXCEPT ![i] = Nothing]
  BY DEF Receive
<1>3. /\ task' \in [Interactions -> Task \cup {Nothing}]
      /\ \A j \in Interactions \ {i} : task'[j] = task[j]
      /\ task'[i] # Nothing /\ task'[i].op = "open" /\ task'[i].channel = task[i].channel
      /\ task'[i].pc = "deleting"
  BY <1>1, <1>2, AdvancedTask
<1>4. /\ call' \in [Interactions -> Call \cup {Nothing}] /\ call'[i] = Nothing
      /\ \A j \in Interactions \ {i} : call'[j] = call[j]
  BY <1>1, <1>2 DEF BotTypeOK
<1>5. BotTypeOK'
  BY <1>1, <1>2, <1>3, <1>4 DEF BotTypeOK
<1>6. TaskIsSound(i)' /\ CallIsSound(i)'
  BY <1>1, <1>2, <1>3, <1>4 DEF TaskIsSound, CallIsSound
<1>7. \A c \in Channels : Opening(i, c)' = Opening(i, c) /\ task[i].pc # "posting"
  BY <1>1, <1>3 DEF Opening
<1>8. QED
  BY <1>1, <1>2, <1>3, <1>4, <1>5, <1>6, <1>7, SameRowsStay, OneInteraction

LEMMA ReceiveKeeps ==
    ASSUME BotInductive, NEW i \in Interactions, Receive(i)
    PROVE  BotInductive'
<1>1. CASE task[i].op # "open"
  <2>1. /\ BotTypeOK /\ task[i] # Nothing
        /\ task' = [task EXCEPT ![i] = Nothing] /\ call' = [call EXCEPT ![i] = Nothing]
        /\ UNCHANGED <<linked, channel, control, tickets, told, smooth>>
    BY <1>1, InteractionFacts DEF Receive, Doing
  <2>2. smooth' \in BOOLEAN
    BY <2>1 DEF BotTypeOK
  <2>3. QED
    BY <1>1, <2>1, <2>2, EndKeeps
<1>2. QED
  BY <1>1, HearsOfTicketKeeps, GivesUpKeeps

(* The controls are posted on a channel that only this form works on. *)
LEMMA PostControlKeeps ==
    ASSUME BotInductive, NEW i \in Interactions, PostControl(i)
    PROVE  BotInductive'
<1>1. /\ BotTypeOK /\ OrderIsKept /\ FormsAreApart /\ ToldTicketsAreSafe /\ FormsFinish
      /\ TaskIsSound(i) /\ CallIsSound(i)
      /\ task[i] # Nothing /\ task[i] \in Task /\ task[i].pc = "posting"
  BY InteractionFacts DEF BotInductive, PostControl, Doing
<1>2. PICK c \in Channels : c = task[i].channel
  BY <1>1 DEF Task
<1>3. /\ Opening(i, c) /\ channel[c] = "open" /\ OnChannel(c) # {} /\ call[i] = Nothing
      /\ \A j \in Interactions : Opening(j, c) => j = i
  BY <1>1, <1>2 DEF TaskIsSound, Opening, FormsAreApart
<1>4. UNCHANGED <<linked, channel, tickets, call, told, smooth>>
  BY DEF PostControl
<1>5. /\ control' \in [Channels -> BOOLEAN] /\ control'[c] = TRUE
      /\ \A d \in Channels \ {c} : control'[d] = control[d]
  BY <1>1, <1>2 DEF PostControl, BotTypeOK
<1>6. /\ task' \in [Interactions -> Task \cup {Nothing}] /\ task'[i] = Nothing
      /\ \A j \in Interactions \ {i} : task'[j] = task[j]
  BY <1>1 DEF PostControl, BotTypeOK
<1>7. BotTypeOK'
  BY <1>1, <1>4, <1>5, <1>6 DEF BotTypeOK
<1>8. /\ Stored' = Stored /\ OrderIsKept'
      /\ \A d \in Channels : OnChannel(d)' = OnChannel(d)
  BY <1>1, <1>4, SameRowsStay, RowsStayInPlace
<1>9. ASSUME NEW j \in Interactions, j # i
      PROVE  /\ TaskIsSound(j)' /\ CallIsSound(j)'
             /\ \A d \in Channels : Opening(j, d)' = Opening(j, d)
  <2>1. TaskIsSound(j) /\ CallIsSound(j) /\ task'[j] = task[j] /\ call'[j] = call[j]
    BY <1>4, <1>6, <1>9 DEF BotInductive
  <2>2. \A d \in Channels : Opening(j, d) => control'[d] = control[d]
    BY <1>3, <1>5, <1>9
  <2>3. QED
    BY <1>1, <1>4, <1>8, <2>1, <2>2, OthersStaySound DEF Opening
<1>10. TaskIsSound(i)' /\ CallIsSound(i)'
  BY <1>3, <1>4, <1>6 DEF TaskIsSound, CallIsSound
<1>11. \A d : ~Opening(i, d)'
  BY <1>6 DEF Opening
<1>12. FormsAreApart'
  BY <1>1, <1>3, <1>4, <1>5, <1>8, <1>9, <1>11 DEF FormsAreApart
<1>13. ToldTicketsAreSafe'
  <2> SUFFICES ASSUME NEW t \in told, NEW d \in Channels, d = tickets[t].channel
               PROVE  /\ t \in Stored' /\ channel'[d] = "open"
                      /\ \A j \in Interactions : Opening(j, d)' => task'[j].pc = "posting"
    BY <1>1, <1>4, ToldHaveTheirChannel DEF ToldTicketsAreSafe, Opening
  <2>1. /\ t \in Stored /\ channel[d] = "open"
        /\ \A j \in Interactions : Opening(j, d) => task[j].pc = "posting"
    BY <1>1 DEF ToldTicketsAreSafe
  <2>2. QED
    BY <1>4, <1>6, <1>8, <1>9, <1>11, <2>1
<1>14. FormsFinish'
  <2> SUFFICES ASSUME smooth', NEW d \in Channels, \A j \in Interactions : ~Opening(j, d)'
               PROVE  channel'[d] = "open" <=> OnChannel(d)' # {} /\ control'[d]
    BY DEF FormsFinish
  <2>1. CASE d = c
    BY <1>3, <1>4, <1>5, <1>8, <2>1
  <2>2. CASE d # c
    <3>1. \A j \in Interactions : ~Opening(j, d)
      BY <1>2, <1>9, <2>2 DEF Opening
    <3>2. QED
      BY <1>1, <1>4, <1>5, <1>8, <2>2, <3>1 DEF FormsFinish
  <2>3. QED
    BY <2>1, <2>2
<1>15. QED
  BY <1>7, <1>8, <1>9, <1>10, <1>12, <1>13, <1>14 DEF BotInductive

(* The channel that goes away has neither controls nor a told ticket.        *)
LEMMA DeleteChannelKeeps ==
    ASSUME BotInductive, NEW i \in Interactions, DeleteChannel(i)
    PROVE  BotInductive'
<1>1. /\ BotTypeOK /\ OrderIsKept /\ FormsAreApart /\ ToldTicketsAreSafe /\ FormsFinish
      /\ TaskIsSound(i) /\ CallIsSound(i)
      /\ task[i] # Nothing /\ task[i] \in Task /\ task[i].pc = "deleting"
  BY InteractionFacts DEF BotInductive, DeleteChannel, Doing
<1>2. PICK c \in Channels : c = task[i].channel
  BY <1>1 DEF Task
<1>3. /\ Opening(i, c) /\ channel[c] = "open" /\ ~control[c]
      /\ \A j \in Interactions : Opening(j, c) => j = i
  BY <1>1, <1>2 DEF TaskIsSound, Opening, FormsAreApart
<1>4. UNCHANGED <<linked, control, tickets, call, told, smooth>>
  BY DEF DeleteChannel
<1>5. /\ channel' \in [Channels -> {"none", "open", "deleted"}] /\ channel'[c] = "deleted"
      /\ \A d \in Channels \ {c} : channel'[d] = channel[d]
  BY <1>1, <1>2 DEF DeleteChannel, BotTypeOK
<1>6. /\ task' \in [Interactions -> Task \cup {Nothing}] /\ task'[i] = Nothing
      /\ \A j \in Interactions \ {i} : task'[j] = task[j]
  BY <1>1 DEF DeleteChannel, BotTypeOK
<1>7. BotTypeOK'
  BY <1>1, <1>4, <1>5, <1>6 DEF BotTypeOK
<1>8. /\ Stored' = Stored /\ OrderIsKept'
      /\ \A d \in Channels : OnChannel(d)' = OnChannel(d)
  BY <1>1, <1>4, SameRowsStay, RowsStayInPlace
<1>9. ASSUME NEW j \in Interactions, j # i
      PROVE  /\ TaskIsSound(j)' /\ CallIsSound(j)'
             /\ \A d \in Channels : Opening(j, d)' = Opening(j, d)
  <2>1. TaskIsSound(j) /\ CallIsSound(j) /\ task'[j] = task[j] /\ call'[j] = call[j]
    BY <1>4, <1>6, <1>9 DEF BotInductive
  <2>2. \A d \in Channels : /\ channel[d] # "none" => channel'[d] # "none"
                            /\ Opening(j, d) => channel'[d] = channel[d]
    BY <1>3, <1>5, <1>9
  <2>3. QED
    BY <1>1, <1>4, <1>8, <2>1, <2>2, OthersStaySound DEF Opening
<1>10. TaskIsSound(i)'
  BY <1>6 DEF TaskIsSound
<1>11. CallIsSound(i)'
  <2>1. call[i] # Nothing => /\ call[i].channel = c /\ call[i].phase # "answered"
                             /\ ~(smooth /\ call[i].op = "open")
    BY <1>1, <1>2 DEF CallIsSound, Doing
  <2>2. \A d : OnChannel(d)' = OnChannel(d)
    BY <1>4 DEF OnChannel, Stored
  <2>3. QED
    BY <1>1, <1>4, <1>5, <1>6, <2>1, <2>2 DEF CallIsSound
<1>12. \A d : ~Opening(i, d)'
  BY <1>6 DEF Opening
<1>13. FormsAreApart'
  BY <1>1, <1>3, <1>4, <1>5, <1>8, <1>9, <1>12 DEF FormsAreApart
<1>14. ToldTicketsAreSafe'
  <2> SUFFICES ASSUME NEW t \in told, NEW d \in Channels, d = tickets[t].channel
               PROVE  /\ t \in Stored' /\ channel'[d] = "open"
                      /\ \A j \in Interactions : Opening(j, d)' => task'[j].pc = "posting"
    BY <1>1, <1>4, ToldHaveTheirChannel DEF ToldTicketsAreSafe, Opening
  <2>1. /\ t \in Stored /\ channel[d] = "open"
        /\ \A j \in Interactions : Opening(j, d) => task[j].pc = "posting"
    BY <1>1 DEF ToldTicketsAreSafe
  <2>2. d # c
    BY <1>1, <1>3, <2>1
  <2>3. QED
    BY <1>4, <1>5, <1>6, <1>8, <1>9, <1>12, <2>1, <2>2
<1>15. FormsFinish'
  <2> SUFFICES ASSUME smooth', NEW d \in Channels, \A j \in Interactions : ~Opening(j, d)'
               PROVE  channel'[d] = "open" <=> OnChannel(d)' # {} /\ control'[d]
    BY DEF FormsFinish
  <2>1. CASE d = c
    BY <1>3, <1>4, <1>5, <2>1
  <2>2. CASE d # c
    <3>1. \A j \in Interactions : ~Opening(j, d)
      BY <1>2, <1>9, <2>2 DEF Opening
    <3>2. QED
      BY <1>1, <1>4, <1>5, <1>8, <2>2, <3>1 DEF FormsFinish
  <2>3. QED
    BY <2>1, <2>2
<1>16. QED
  BY <1>7, <1>8, <1>9, <1>10, <1>11, <1>13, <1>14, <1>15 DEF BotInductive

-------------------------------------------------------------------------------
(* The theorems *)

LEMMA BotStarts == BotInit => BotInductive
<1> SUFFICES ASSUME BotInit PROVE BotInductive
  OBVIOUS
<1> USE DEF BotInit
<1>1. BotTypeOK
  BY DEF BotTypeOK
<1>2. Stored = {} /\ \A c : OnChannel(c) = {}
  BY DEF Stored, OnChannel
<1>3. OrderIsKept
  BY <1>2 DEF OrderIsKept
<1>4. \A i \in Interactions : TaskIsSound(i) /\ CallIsSound(i) /\ \A c : ~Opening(i, c)
  BY DEF TaskIsSound, CallIsSound, Opening
<1>5. FormsAreApart /\ ToldTicketsAreSafe /\ FormsFinish
  BY <1>2, <1>4 DEF FormsAreApart, ToldTicketsAreSafe, FormsFinish
<1>6. QED
  BY <1>1, <1>3, <1>4, <1>5 DEF BotInductive

LEMMA BotSteps == BotInductive /\ [BotNext]_botVars => BotInductive'
<1> SUFFICES ASSUME BotInductive, [BotNext]_botVars PROVE BotInductive'
  OBVIOUS
<1>1. ASSUME NEW i \in Interactions, BotStep(i)
      PROVE  BotInductive'
  BY <1>1, ReceiveKeeps, TimeoutKeeps, PostControlKeeps, DeleteChannelKeeps,
     DiscordFailsKeeps, DismissKeeps DEF BotStep
<1>2. ASSUME NEW i \in Interactions,
             \/ \E c \in Channels : SubmitForm(i, c)
             \/ \E op \in Ops \ {"open"}, c \in Channels, who \in Members : Press(i, op, c, who)
             \/ \E who \in Members : Choose(i, who)
             \/ ResolveGuild(i)
             \/ \E t \in Tickets : CreateTicket(i, t)
             \/ Act(i)
             \/ Lose(i)
      PROVE  BotInductive'
  BY <1>2, SubmitFormKeeps, PressKeeps, ChooseKeeps, ResolveGuildKeeps, CreateTicketKeeps,
     ActKeeps, LoseKeeps
<1>3. ASSUME \/ \E t \in Tickets, op \in Ops, who \in Members : WebAct(t, op, who)
             \/ \E t \in Tickets, c \in Channels : WebOpen(t, c)
             \/ Relink
             \/ Crash
      PROVE  BotInductive'
  BY <1>3, WebActKeeps, WebOpenKeeps, RelinkKeeps, CrashKeeps
<1>4. ASSUME UNCHANGED botVars
      PROVE  BotInductive'
  <2>1. /\ UNCHANGED <<linked, channel, control, tickets, task, call, told, smooth>>
        /\ BotTypeOK /\ linked' \in BOOLEAN
    BY <1>4 DEF botVars, BotInductive, BotTypeOK
  <2>2. QED
    BY <2>1, SameRowsStay, OutsideStepKeeps
<1>5. QED
  BY <1>1, <1>2, <1>3, <1>4 DEF BotNext

(* The channels, the tickets and the interactions of the bot stay in step   *)
(* with each other as BotInductive says (discord_bot/views/ticket_views.py). *)
THEOREM BotInvariant == BotSpec => []BotInductive
<1>1. BotInit => BotInductive
  BY BotStarts
<1>2. BotInductive /\ [BotNext]_botVars => BotInductive'
  BY BotSteps
<1>3. QED
  BY <1>1, <1>2, PTL DEF BotSpec

(* Every channel, row, interaction and call of the bot has its type.         *)
THEOREM BotIsTyped == BotSpec => []BotTypeOK
<1>1. BotInductive => BotTypeOK
  BY DEF BotInductive
<1>2. QED
  BY <1>1, BotInvariant, PTL

(* No channel of a ticket the bot was told of is deleted, and without        *)
(* failures no form leaves a channel without ticket and buttons, or a ticket *)
(* without them (TicketFormModal.on_submit).                                 *)
THEOREM NothingIsLeftBehind == BotSpec => []ChannelsAndTicketsStayTogether
<1>1. BotInductive => ChannelsAndTicketsStayTogether
  <2> SUFFICES ASSUME BotInductive PROVE ChannelsAndTicketsStayTogether
    OBVIOUS
  <2>1. ToldTicketsKeepTheirChannel
    BY DEF BotInductive, ToldTicketsAreSafe, ToldTicketsKeepTheirChannel
  <2>2. \A i \in Interactions, c \in Channels : Opening(i, c) => Busy(c)
    BY DEF Opening, Busy
  <2>3. NothingIsStranded
    BY <2>2 DEF BotInductive, FormsFinish, NothingIsStranded
  <2>4. QED
    BY <2>1, <2>3 DEF ChannelsAndTicketsStayTogether
<1>2. QED
  BY <1>1, BotInvariant, PTL

(* However late a button or a select reaches the backend, it changes no      *)
(* ticket but the newest of its channel: an older one is closed, and refuses *)
(* (TicketControlView, TicketTransferSelectView).                            *)
THEOREM LateButtonsAreHarmless == BotSpec => StaleControlsAreHarmless
<1>1. ASSUME BotInductive, NEW i \in Interactions, NEW t \in Tickets, Act(i), tickets[t] # tickets'[t]
      PROVE  t = Newest(tickets[t].channel)
  <2>1. /\ BotTypeOK /\ OrderIsKept /\ CallIsSound(i)
        /\ call[i] # Nothing /\ call[i] \in Call /\ call[i].phase = "sent" /\ call[i].op # "open"
    BY <1>1, InteractionFacts DEF BotInductive, Act, InPhase
  <2>2. /\ t = call[i].ticket
        /\ Permits(call[i].op, tickets[t])
    BY <1>1, <2>1 DEF Act, BotTypeOK
  <2>3. t \in Stored /\ tickets[t].status # "closed"
    <3>1. t \in Stored /\ call[i].op \in Ops \ {"open"}
      BY <2>1, <2>2 DEF CallIsSound, OnChannel, Call
    <3>2. tickets[t] \in Row
      BY <2>1, <3>1 DEF BotTypeOK, Stored
    <3>3. QED
      BY <2>2, <3>1, <3>2 DEF Permits
  <2>4. QED
    BY <2>1, <2>3, ActiveIsNewest DEF IsUnclosed
<1>2. BotInductive /\ [BotNext]_botVars =>
        [\A i \in Interactions, t \in Tickets :
            (Act(i) /\ tickets[t] # tickets'[t]) => t = Newest(tickets[t].channel)]_botVars
  BY <1>1
<1>3. QED
  BY <1>2, BotInvariant, PTL DEF BotSpec, StaleControlsAreHarmless

===============================================================================
