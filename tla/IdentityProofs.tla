---------------------------- MODULE IdentityProofs ----------------------------
(***************************************************************************)
(* Identity for any users, organizations, teams, roles and mail addresses  *)
(* and any number of concurrent requests, from any sound database.         *)
(*                                                                         *)
(* The inductive invariant adds to the four invariants of the run that     *)
(* what a request has read is current but for what was committed since and *)
(* for locks that opened with time; that each of its changes is justified  *)
(* by what its guards saw, as far as no commit since has touched it; and   *)
(* what a walk up a hierarchy remembers.  A walk that has ended leaves a   *)
(* set that is closed upwards, holds the new parent and not the node.      *)
(***************************************************************************)
EXTENDS Identity, TransactionsProofs

(* Columns that no call writes, and the one that time does.                *)
Fixed == {"org", "email", "user_id", "from", "issued", "role_id"}
Drift == {"locked"}

Inserts(c, table) == c.table = table /\ c.old = None
Rewrites(c, table, k) == c.table = table /\ c.key = k /\ c.old # None /\ c.new # None
Removes(c, table, k) == c.table = table /\ c.key = k /\ c.new = None

(* What the guards of a request have made sure of and overlapping commits  *)
(* have left alone, for each of its changes.                               *)

(* The mark of a user who has a second factor is set with the factor and   *)
(* reset with its end.                                                     *)
MarkIsJustified(c, writes, since) ==
    c.old # None /\ c.new.mfa # c.old.mfa =>
       /\ c.new.mfa => \E e \in writes, k \in Keys : Rewrites(e, "totp", k) /\ e.new.user_id = c.key
       /\ ~c.new.mfa /\ since \cap {"mfa", "verified", "totp"} = {} =>
             \A k \in Of("totp", c.key) : \E e \in writes : Removes(e, "totp", k)

(* A reset issues no session and ends those that are open.                 *)
ResetIsJustified(c, writes, since) ==
    c.old # None /\ c.new.resets # c.old.resets =>
       /\ \A e \in writes : ~Inserts(e, "session")
       /\ since \cap {"session", "resets"} = {} =>
             \A s \in ActiveSessions(c.key) : \E e \in writes : Rewrites(e, "session", s)

IsLockedForCause(row) == row.locked # "never" => row.attempts >= Threshold

UserIsJustified(c, writes, since) ==
    /\ Undisturbed({"attempts", "locked"}, {"attempts", "locked"}) => IsLockedForCause(c.new)
    /\ c.old # None /\ "locked" \notin since => (c.old.locked = "never" <=> db["user"][c.key].locked = "never")
    /\ c.old = None => ~c.new.mfa
    /\ MarkIsJustified(c, writes, since) /\ ResetIsJustified(c, writes, since)

(* A token is issued by a request that uses up the outstanding ones.       *)
TokenIsJustified(c, writes, since) ==
    /\ c.old # None => c.new.consumed /\ (c.old.consumed => db[c.table][c.key].consumed)
    /\ c.old = None =>
          /\ \A e \in writes : Inserts(e, c.table) => e = c
          /\ c.table \notin since =>
                \A k \in Outstanding(c.table, c.new.user_id) : \E e \in writes : Rewrites(e, c.table, k)

(* A session is issued alone, for what its user's row says, and with the   *)
(* end of the one it is traded for.                                        *)
SessionIsJustified(c, writes, since) ==
    /\ c.old # None => c.new.revoked /\ (c.old.revoked => db["session"][c.key].revoked)
    /\ c.old = None =>
          /\ \A e \in writes : Inserts(e, "session") => e = c
          /\ c.new.user_id \in Stored("user")
          /\ "resets" \notin since => c.new.issued = db["user"][c.new.user_id].resets
          /\ c.new.from # None =>
                /\ \E e \in writes : Rewrites(e, "session", c.new.from)
                /\ "revoked" \notin since => ~db["session"][c.new.from].revoked

InvitationIsJustified(c, writes) ==
    c.new.invitation = "accepted" =>
        \E e \in writes : Inserts(e, "user") /\ e.new.org = c.new.org /\ e.new.email = c.new.email

FactorIsJustified(c, writes) ==
    /\ c.old = None => ~c.new.verified
    /\ c.old # None /\ c.new # None =>
          c.new.verified /\ \E e \in writes : Rewrites(e, "user", c.new.user_id) /\ e.new.mfa
    /\ c.new = None => \E e \in writes : Rewrites(e, "user", c.old.user_id) /\ ~e.new.mfa

(* What holds all that is above a node, and not another one.               *)
IsClosed(table, V) ==
    /\ table = "team" => V \subseteq Stored(table)
    /\ \A v \in V : IsFound(table, v) => ParentIn(table, v) \in V \cup {None}
NoWayUp(table, from, k) == \E V \in SUBSET Schema[table].keys : from \in V /\ k \notin V /\ IsClosed(table, V)

NodeIsJustified(c, writes, since) ==
    /\ writes = {c}
    /\ c.old = None /\ c.new[Column(c.table)] # None => c.table = "team" /\ c.new[Column(c.table)] \in Stored("team")
    /\ c.old # None /\ c.new # None =>
          /\ c.table = "team" /\ c.old.deleted => c.new.deleted
          /\ c.new[Column(c.table)] # c.old[Column(c.table)] /\ Column(c.table) \notin since =>
                c.new[Column(c.table)] = None \/ NoWayUp(c.table, c.new[Column(c.table)], c.key)

IsJustified(c, writes, since) ==
    /\ Touched(c) \cap Fixed = {}
    /\ c.table = "user" => UserIsJustified(c, writes, since)
    /\ c.table \in {"verify_token", "reset_token"} => TokenIsJustified(c, writes, since)
    /\ c.table = "session" => SessionIsJustified(c, writes, since)
    /\ c.table = "invitation" => InvitationIsJustified(c, writes)
    /\ c.table = "totp" => FactorIsJustified(c, writes)
    /\ c.table \in {"team", "role"} => NodeIsJustified(c, writes, since)

(* The walk up a hierarchy.  Unless a move was committed since, what it    *)
(* has seen are the nodes above as they still are, but for those that are  *)
(* gone; and it ends.                                                      *)
MoveOf(w) ==
    [table |-> w.table, key |-> w.node, old |-> w.row, new |-> Reparented(w.table, w.row, w.parent)]

Remembers(w, v) == v \in DOMAIN w.seen /\ w.seen[v] # None

WalkIsCurrent(w) ==
    /\ w.table = "team" => DOMAIN w.seen \cup {w.cursor} \subseteq Stored("team") \cup {None}
    /\ \A v \in DOMAIN w.seen : IsFound(w.table, v) => ParentIn(w.table, v) \in {w.seen[v], None}
    /\ \A v \in DOMAIN w.seen :
          Remembers(w, v) /\ (w.table = "team" \/ \E x \in Stored(w.table) : ParentIn(w.table, x) = v) =>
             v \in Stored(w.table) /\ ParentIn(w.table, v) = w.seen[v]
    /\ Undisturbed({Column(w.table)}, {Column(w.table)}) =>
          /\ w.cursor \notin DOMAIN w.seen
          /\ \A S \in SUBSET Stored(w.table) :
                (\A k \in S : (IsFound(w.table, k) \/ Remembers(w, k)) /\ ParentIn(w.table, k) \in S) => S = {}

ClimbIsSound(w, since) ==
    /\ w.table \in {"team", "role"} /\ w \in Climb(w.table) /\ w.row \in Schema[w.table].rows
    /\ IsCurrent(MoveOf(w), since \cup Drift, Schema)
    /\ \A v \in DOMAIN w.seen : w.seen[v] \in DOMAIN w.seen \cup {w.cursor}
    /\ w.node \notin DOMAIN w.seen /\ w.parent \in DOMAIN w.seen \cup {w.cursor}
    /\ Column(w.table) \notin since => WalkIsCurrent(w)

(* What is left to do for a user who is there, or comes with the writes.   *)
WalkIsSound(q) ==
    /\ q.pc = "walk" /\ q.walk.kind = "parent" => ClimbIsSound(q.walk, q.since)
    /\ q.pc = "walk" /\ q.walk.kind # "parent" =>
          q.walk \in Errand /\ q.walk.kind = "challenge" /\ q.walk.user \in Stored("user")
    /\ q.pc = "staged" /\ q.walk # None =>
          /\ q.walk \in Errand
          /\ q.walk.kind = "challenge" => q.walk.user \in Stored("user")
          /\ q.walk.kind = "welcome" =>
                /\ \E c \in q.writes : Inserts(c, "user") /\ c.key = q.walk.user
                /\ \A c \in q.writes : c.table # "verify_token"

RequestIsJustified(q) ==
    /\ q.since \cap Fixed = {}
    /\ \A c \in q.writes : IsCurrent(c, q.since \cup Drift, Schema) /\ IsJustified(c, q.writes, q.since)
    /\ WalkIsSound(q)

RequestsAreJustified == \A r \in Requests : RequestIsJustified(req[r])

(* A request inserts with its own id, once; a factor or a code that was    *)
(* read is gone or that of the same user.                                  *)
Volatiles == {"totp", "code"}
IsUsed(table, k) ==
    \/ k \in Stored(table)
    \/ \E r \in Requests : \E c \in req[r].writes : c.table = table /\ c.key = k /\ c.old # None

KeyIsFit(r, c) ==
    /\ c.old = None => c.key = r
    /\ c.table \in Volatiles =>
          /\ c.old = None => ~IsUsed(c.table, r)
          /\ c.old # None /\ c.key \in Stored(c.table) => db[c.table][c.key].user_id = c.old.user_id

KeysAreUsedOnce ==
    \A r \in Requests :
       /\ \A table \in Keyed : IsUsed(table, r) => req[r].pc # "new"
       /\ \A c \in req[r].writes : c.table \in Keyed => KeyIsFit(r, c)

(* The inductive invariant.                                                *)
IInv ==
    /\ Shared(Schema)
    /\ IdentityIsSound /\ SessionsAreAccountedFor /\ MfaHasItsFactor /\ HierarchiesHaveNoCycle
    /\ RequestsAreJustified /\ KeysAreUsedOnce

-----------------------------------------------------------------------------
LEMMA SchemaTables ==
    /\ DOMAIN Schema = {"organization", "role", "user_role", "user", "session", "verify_token", "reset_token",
                        "totp", "code", "team", "team_member", "invitation"}
    /\ Schema["organization"].rows = Organization /\ Schema["organization"].keys = Orgs
    /\ Schema["role"].rows = Role /\ Schema["role"].keys = Roles
    /\ Schema["user_role"].rows = UserRole /\ Schema["user_role"].keys = Users \X Roles
    /\ Schema["user"].rows = User /\ Schema["user"].keys = Users
    /\ Schema["session"].rows = Session /\ Schema["session"].keys = Keys
    /\ Schema["verify_token"].rows = Token /\ Schema["verify_token"].keys = Keys
    /\ Schema["reset_token"].rows = Token /\ Schema["reset_token"].keys = Keys
    /\ Schema["totp"].rows = TotpFactor /\ Schema["totp"].keys = Keys
    /\ Schema["code"].rows = RecoveryCode /\ Schema["code"].keys = Keys
    /\ Schema["team"].rows = Team /\ Schema["team"].keys = Teams
    /\ Schema["team_member"].rows = TeamMembership /\ Schema["team_member"].keys = Teams \X Users
    /\ Schema["invitation"].rows = Invitation /\ Schema["invitation"].keys = Keys
    /\ \A table \in {"organization", "user", "session", "verify_token", "reset_token", "team", "invitation"} :
          Schema[table].kept
    /\ \A table \in {"role", "user_role", "totp", "code", "team_member"} : ~Schema[table].kept
  BY DEF Schema, Table, Volatile

(* A row with the columns that a change of another one touches.            *)
Mix(row, old, new) ==
    [f \in DOMAIN row |-> IF f \in {g \in DOMAIN new : new[g] # old[g]} THEN new[f] ELSE row[f]]

Mixes(rows) == \A row, old, new \in rows : DOMAIN row = DOMAIN new /\ Mix(row, old, new) \in rows

LEMMA SchemaIsSound == IsSchema(Schema)
<1>1. ASSUME NEW table \in DOMAIN Schema PROVE None \notin Schema[table].rows
  BY <1>1, NoneAssumption
<1>2. Mixes(Organization) /\ Mixes(Role)
  BY DEF Mixes, Mix, Organization, Role
<1>3. Mixes(UserRole) /\ Mixes(TeamMembership)
  BY DEF Mixes, Mix, UserRole, TeamMembership
<1>4. Mixes(User)
  BY DEF Mixes, Mix, User
<1>5. Mixes(Session) /\ Mixes(Token)
  BY DEF Mixes, Mix, Session, Token
<1>6. Mixes(TotpFactor) /\ Mixes(RecoveryCode)
  BY DEF Mixes, Mix, TotpFactor, RecoveryCode
<1>7. Mixes(Team) /\ Mixes(Invitation)
  BY DEF Mixes, Mix, Team, Invitation
<1>8. ASSUME NEW table \in DOMAIN Schema PROVE Mixes(Schema[table].rows)
  BY <1>2, <1>3, <1>4, <1>5, <1>6, <1>7, SchemaTables
<1>9. \A table \in DOMAIN Schema : \A row, new \in Schema[table].rows : DOMAIN row = DOMAIN new
  BY <1>8 DEF Mixes
<1>10. \A table \in DOMAIN Schema : \A row, old, new \in Schema[table].rows : Mix(row, old, new) \in Schema[table].rows
  BY <1>8 DEF Mixes
<1>11. QED
  BY <1>1, <1>9, <1>10 DEF IsSchema, Mix

LEMMA NoneIsNoRow ==
    /\ \A table \in DOMAIN Schema : None \notin Schema[table].rows
    /\ None \notin Organization /\ None \notin Role /\ None \notin UserRole /\ None \notin User /\ None \notin Session
    /\ None \notin Token /\ None \notin TotpFactor /\ None \notin RecoveryCode /\ None \notin Team
    /\ None \notin TeamMembership /\ None \notin Invitation
    /\ None \notin Keys /\ None \notin Teams /\ None \notin Roles /\ None \notin Errand
    /\ None \notin Climb("team") /\ None \notin Climb("role")
  BY NoneAssumption, SchemaTables

(* The tables, one by one.                                                 *)
IsTableOf(table, keys, rows) ==
    /\ \A k \in keys : db[table][k] \in rows \cup {None}
    /\ Stored(table) = {k \in keys : db[table][k] # None}

LEMMA Typed ==
    ASSUME HasSchema(db, Schema)
    PROVE  /\ IsTableOf("organization", Orgs, Organization) /\ IsTableOf("role", Roles, Role)
           /\ IsTableOf("user_role", Users \X Roles, UserRole) /\ IsTableOf("user", Users, User)
           /\ IsTableOf("session", Keys, Session) /\ IsTableOf("verify_token", Keys, Token)
           /\ IsTableOf("reset_token", Keys, Token) /\ IsTableOf("totp", Keys, TotpFactor)
           /\ IsTableOf("code", Keys, RecoveryCode) /\ IsTableOf("team", Teams, Team)
           /\ IsTableOf("team_member", Teams \X Users, TeamMembership) /\ IsTableOf("invitation", Keys, Invitation)
           /\ \A table \in DOMAIN Schema : IsTableOf(table, Schema[table].keys, Schema[table].rows)
<1>1. ASSUME NEW table \in DOMAIN Schema PROVE IsTableOf(table, Schema[table].keys, Schema[table].rows)
  BY <1>1 DEF HasSchema, IsTableOf, Stored, Rows
<1>2. QED
  BY <1>1, SchemaTables

LEMMA IsTyped == IInv => HasSchema(db, Schema) /\ IsSchema(Schema)
  BY DEF IInv, Shared

LEMMA StartIsSound == Start => IInv
<1> SUFFICES ASSUME Start PROVE IInv
  OBVIOUS
<1>0. \A r \in Requests : req[r] = Fresh
  BY DEF Start
<1>1. Fresh.pc = "new" /\ Fresh.writes = {} /\ Fresh.since = {} /\ DOMAIN Fresh = {"pc", "writes", "since", "walk"}
  BY DEF Fresh
<1>2. Shared(Schema)
  BY <1>0, <1>1, SchemaIsSound DEF Start, Shared, IdentityIsSound, RequestsTyped, WritesTyped, AreChanges
<1>3. RequestsAreJustified
  BY <1>0, <1>1 DEF RequestsAreJustified, RequestIsJustified, WalkIsSound
<1>4. KeysAreUsedOnce
  BY <1>0, <1>1 DEF Start, KeysAreUsedOnce, IsUsed
<1>5. QED
  BY <1>2, <1>3, <1>4 DEF Start, IInv

-----------------------------------------------------------------------------
(* Steps that change one request and nothing else.                         *)

LEMMA SameTables ==
    ASSUME UNCHANGED <<db, raced>>
    PROVE  /\ \A A, B : Undisturbed(A, B)' <=> Undisturbed(A, B)
           /\ \A table : Stored(table)' = Stored(table)
           /\ \A table, u : Of(table, u)' = Of(table, u) /\ Outstanding(table, u)' = Outstanding(table, u)
           /\ \A u : ActiveSessions(u)' = ActiveSessions(u) /\ VerifiedTotp(u)' = VerifiedTotp(u)
           /\ \A o, e : WithEmail(o, e)' = WithEmail(o, e)
           /\ \A table, k : (IsFound(table, k)' <=> IsFound(table, k)) /\ ParentIn(table, k)' = ParentIn(table, k)
           /\ \A table, from, k : NoWayUp(table, from, k)' <=> NoWayUp(table, from, k)
           /\ \A table : IsHierarchy(table)' <=> IsHierarchy(table)
<1>1. \A A, B : Undisturbed(A, B)' <=> Undisturbed(A, B)
  BY DEF Undisturbed
<1>2. \A table : Stored(table)' = Stored(table)
  BY DEF Stored, Rows
<1>3. \A table, u : Of(table, u)' = Of(table, u)
  BY <1>2 DEF Of
<1>4. \A table, u : Outstanding(table, u)' = Outstanding(table, u)
  BY <1>3 DEF Outstanding
<1>5. \A u : ActiveSessions(u)' = ActiveSessions(u) /\ VerifiedTotp(u)' = VerifiedTotp(u)
  BY <1>3 DEF ActiveSessions, VerifiedTotp
<1>6. \A o, e : WithEmail(o, e)' = WithEmail(o, e)
  BY <1>2 DEF WithEmail
<1>7. \A table, k : (IsFound(table, k)' <=> IsFound(table, k)) /\ ParentIn(table, k)' = ParentIn(table, k)
  BY <1>2 DEF IsFound, LiveTeam, ParentIn
<1>8. \A table, from, k : NoWayUp(table, from, k)' <=> NoWayUp(table, from, k)
  BY <1>2, <1>7 DEF NoWayUp, IsClosed
<1>9. \A table : IsHierarchy(table)' <=> IsHierarchy(table)
  BY <1>2, <1>7 DEF IsHierarchy
<1>10. QED
  BY <1>1, <1>2, <1>3, <1>4, <1>5, <1>6, <1>7, <1>8, <1>9

LEMMA SameTablesJustify ==
    ASSUME UNCHANGED <<db, raced>>, NEW q, RequestIsJustified(q)
    PROVE  RequestIsJustified(q)'
<1> USE SameTables
<1>1. ASSUME NEW c, NEW writes, NEW since, IsJustified(c, writes, since) PROVE IsJustified(c, writes, since)'
  <2>1. UserIsJustified(c, writes, since) => UserIsJustified(c, writes, since)'
    BY DEF UserIsJustified, MarkIsJustified, ResetIsJustified
  <2>2. TokenIsJustified(c, writes, since) => TokenIsJustified(c, writes, since)'
    BY DEF TokenIsJustified
  <2>3. SessionIsJustified(c, writes, since) => SessionIsJustified(c, writes, since)'
    BY DEF SessionIsJustified
  <2>4. NodeIsJustified(c, writes, since) => NodeIsJustified(c, writes, since)'
    BY DEF NodeIsJustified
  <2>5. QED
    BY <1>1, <2>1, <2>2, <2>3, <2>4 DEF IsJustified
<1>2. ASSUME NEW c, NEW since, IsCurrent(c, since, Schema) PROVE IsCurrent(c, since, Schema)'
  BY <1>2 DEF IsCurrent
<1>3. ASSUME NEW w, WalkIsCurrent(w) PROVE WalkIsCurrent(w)'
  BY <1>3 DEF WalkIsCurrent
<1>4. ASSUME NEW w, NEW since, ClimbIsSound(w, since) PROVE ClimbIsSound(w, since)'
  BY <1>2, <1>3, <1>4 DEF ClimbIsSound
<1>5. WalkIsSound(q)'
  BY <1>4 DEF RequestIsJustified, WalkIsSound
<1>6. \A c \in q.writes : IsCurrent(c, q.since \cup Drift, Schema)' /\ IsJustified(c, q.writes, q.since)'
  BY <1>1, <1>2 DEF RequestIsJustified
<1>7. QED
  BY <1>5, <1>6 DEF RequestIsJustified

(* What the writes of a request say of keys.                               *)
KeysFit(r, writes) ==
    \A c \in writes : c.table \in Keyed => KeyIsFit(r, c) /\ (c.old # None => IsUsed(c.table, c.key))

(* A hierarchy without a cycle, and walks that never come round.           *)
LEMMA WalksComeToAnEnd ==
    ASSUME RequestsAreJustified, NEW table \in {"team", "role"}, Undisturbed({Column(table)}, {Column(table)}),
           NEW r \in Requests, IsWalking(r), Column(table) \notin req[r].since, req[r].walk.table = table
    PROVE  req[r].walk.cursor \notin DOMAIN req[r].walk.seen
  BY DEF RequestsAreJustified, RequestIsJustified, WalkIsSound, IsWalking, ClimbIsSound, WalkIsCurrent

LEMMA NoCycle ==
    ASSUME RequestsAreJustified,
           \A table \in {"team", "role"} : Undisturbed({Column(table)}, {Column(table)}) => IsHierarchy(table)
    PROVE  HierarchiesHaveNoCycle
  BY WalksComeToAnEnd DEF HierarchiesHaveNoCycle

LEMMA OneRequest ==
    ASSUME IInv, NEW r \in Requests, Only(r), NEW q, q = req'[r],
           DOMAIN q = {"pc", "writes", "since", "walk"},
           q.pc \in {"walk", "staged", "done"}, q.pc # "staged" => q.writes = {},
           q.pc = "walk" => q.walk # None, q.pc = "done" => q = Closed,
           AreChanges(q.writes, Schema), RequestIsJustified(q), KeysFit(r, q.writes)
    PROVE  IInv'
<1> USE DEF Only
<1>1. Shared(Schema)'
  BY DEF IInv, Shared, RequestsTyped, WritesTyped, HasSchema
<1>2. RequestsAreSound'
  BY DEF IInv, IdentityIsSound, RequestsAreSound, AreChanges
<1>3. UNCHANGED <<db, raced>>
  OBVIOUS
<1>4. RequestsAreJustified'
  <2>1. \A s \in Requests : RequestIsJustified(req'[s])
    BY DEF IInv, RequestsAreJustified
  <2>2. ASSUME NEW s \in Requests, NEW p, p = req'[s] PROVE RequestIsJustified(p)'
    BY <1>3, <2>1, <2>2, SameTablesJustify
  <2>3. ASSUME NEW s \in Requests PROVE RequestIsJustified(req[s])'
    BY <2>2
  <2>4. QED
    BY <2>3 DEF RequestsAreJustified
<1>5. IdentityIsSound'
  <2>1. Constraints(db)' /\ HasSchema(db, Schema)'
    BY <1>3 DEF IInv, IdentityIsSound
  <2>2. QED
    BY <1>2, <1>3, <2>1, SameTables DEF IInv, IdentityIsSound
<1>6. SessionsAreAccountedFor' /\ MfaHasItsFactor'
  BY <1>3, SameTables DEF IInv, SessionsAreAccountedFor, MfaHasItsFactor
<1>7. HierarchiesHaveNoCycle'
  <2>1. \A table \in {"team", "role"} : Undisturbed({Column(table)}, {Column(table)})' => IsHierarchy(table)'
    BY <1>3, SameTables DEF IInv, HierarchiesHaveNoCycle
  <2>2. (\A table \in {"team", "role"} : Undisturbed({Column(table)}, {Column(table)}) => IsHierarchy(table))'
    BY <2>1 DEF Column
  <2>3. QED
    BY <1>4, <2>2, NoCycle, PTL
<1>8. KeysAreUsedOnce'
  <2>1. ASSUME NEW table \in Keyed, NEW k, IsUsed(table, k)' PROVE IsUsed(table, k)
    BY <1>3, <2>1, SameTables DEF IsUsed, KeysFit
  <2>2. ASSUME NEW s \in Requests, NEW table \in Keyed, IsUsed(table, s)' PROVE req'[s].pc # "new"
    BY <2>1, <2>2 DEF IInv, KeysAreUsedOnce
  <2>3. ASSUME NEW s \in Requests, NEW c \in req'[s].writes, c.table \in Keyed PROVE KeyIsFit(s, c)
    BY <2>3 DEF IInv, KeysAreUsedOnce, KeysFit
  <2>4. ASSUME NEW s, NEW c, c.table \in Keyed, KeyIsFit(s, c) PROVE KeyIsFit(s, c)'
    BY <1>3, <2>1, <2>4, SameTables DEF KeyIsFit
  <2>5. QED
    BY <2>2, <2>3, <2>4 DEF KeysAreUsedOnce
<1>9. QED
  BY <1>1, <1>4, <1>5, <1>6, <1>7, <1>8 DEF IInv

(* A change that has just been read, and what its request's writes are.    *)
Fits(r, c, writes) ==
    /\ IsChange(c, Schema) /\ Reads(c) /\ IsJustified(c, writes, {})
    /\ c.table \in Keyed /\ c.old = None => c.key = r /\ (c.table \in Volatiles => req[r].pc = "new")

OfDifferentRows(writes) == \A c, e \in writes : c.table = e.table /\ c.key = e.key => c = e

LEMMA Staging ==
    ASSUME IInv, NEW r \in Requests, Only(r), NEW q, q = req'[r], DOMAIN q = {"pc", "writes", "since", "walk"},
           q.pc = "staged", q.since = {}, \A c \in q.writes : Fits(r, c, q.writes), OfDifferentRows(q.writes),
           WalkIsSound(q)
    PROVE  IInv'
<1>1. AreChanges(q.writes, Schema)
  BY DEF Fits, OfDifferentRows, AreChanges
<1>2. \A c \in q.writes : IsCurrent(c, q.since \cup Drift, Schema)
  BY DEF Fits, Reads, IsCurrent, SameRow
<1>3. RequestIsJustified(q)
  BY <1>2 DEF RequestIsJustified, Fits
<1>4. KeysFit(r, q.writes)
  <2>1. ASSUME NEW c \in q.writes, c.table \in Keyed, c.old = None PROVE KeyIsFit(r, c)
    BY <2>1 DEF Fits, IInv, KeysAreUsedOnce, KeyIsFit
  <2>2. ASSUME NEW c \in q.writes, c.table \in Keyed, c.old # None PROVE KeyIsFit(r, c) /\ IsUsed(c.table, c.key)
    <3>1. c.old = db[c.table][c.key] /\ c.table \in DOMAIN Schema /\ c.key \in Schema[c.table].keys
      BY <2>2 DEF Fits, Reads, IsChange
    <3>2. c.key \in Stored(c.table)
      BY <2>2, <3>1, Typed, IsTyped DEF IsTableOf
    <3>3. QED
      BY <2>2, <3>1, <3>2 DEF IsUsed, KeyIsFit
  <2>3. QED
    BY <2>1, <2>2 DEF KeysFit
<1>5. QED
  BY <1>1, <1>3, <1>4, OneRequest

(* A request that has not begun.                                           *)
LEMMA NewRequest ==
    ASSUME IInv, NEW r \in Requests, req[r].pc = "new"
    PROVE  req[r] = Fresh /\ DOMAIN req = Requests /\ DOMAIN Fresh = {"pc", "writes", "since", "walk"}
           /\ Fresh.pc = "new" /\ Fresh.writes = {} /\ Fresh.since = {} /\ Fresh.walk = None
<1>1. Fresh.pc = "new" /\ Closed.pc = "done"
  BY DEF Fresh, Closed
<1>2. req[r] = Fresh
  BY <1>1 DEF IInv, IdentityIsSound, RequestsAreSound
<1>3. QED
  BY <1>2 DEF IInv, Shared, RequestsTyped, Fresh

LEMMA Staged ==
    ASSUME IInv, NEW r \in Requests, NEW writes, Stage(r, writes),
           \A c \in writes : Fits(r, c, writes), OfDifferentRows(writes)
    PROVE  IInv'
<1>1. req[r].pc = "new" /\ req' = [req EXCEPT ![r].pc = "staged", ![r].writes = writes, ![r].since = {}]
      /\ UNCHANGED <<db, raced>>
  BY DEF Stage, StageMarked
<1> DEFINE q == req'[r]
<1>2. Only(r) /\ DOMAIN q = {"pc", "writes", "since", "walk"} /\ q.pc = "staged" /\ q.writes = writes /\ q.since = {}
      /\ q.walk = None
  BY <1>1, NewRequest DEF Only
<1>3. WalkIsSound(q)
  BY <1>2 DEF WalkIsSound
<1> HIDE DEF q
<1>4. QED
  BY <1>2, <1>3, Staging DEF q

(* A request that leaves an errand for its commit.                         *)
LEMMA StagedWithErrand ==
    ASSUME IInv, NEW r \in Requests, req[r].pc = "new", NEW writes, NEW w,
           req' = [req EXCEPT ![r].pc = "staged", ![r].writes = writes, ![r].walk = w], UNCHANGED <<db, raced>>,
           \A c \in writes : Fits(r, c, writes), OfDifferentRows(writes), w \in Errand,
           w.kind = "challenge" => w.user \in Stored("user"),
           w.kind = "welcome" =>
                /\ \E c \in writes : Inserts(c, "user") /\ c.key = w.user
                /\ \A c \in writes : c.table # "verify_token"
    PROVE  IInv'
<1> DEFINE q == req'[r]
<1>1. Only(r) /\ DOMAIN q = {"pc", "writes", "since", "walk"} /\ q.pc = "staged" /\ q.writes = writes /\ q.since = {}
      /\ q.walk = w
  BY NewRequest DEF Only
<1>2. WalkIsSound(q)
  BY <1>1 DEF WalkIsSound
<1> HIDE DEF q
<1>3. QED
  BY <1>1, <1>2, Staging DEF q

LEMMA Aborting ==
    ASSUME IInv, NEW r \in Requests, Abort(r)
    PROVE  IInv'
<1>1. /\ DOMAIN Closed = {"pc", "writes", "since", "walk"} /\ Closed.pc = "done" /\ Closed.writes = {} /\ Closed.since = {}
      /\ Closed.walk = None
  BY DEF Closed, Fresh
<1>2. Only(r) /\ req'[r] = Closed
  BY DEF IInv, Shared, RequestsTyped, Abort, Only
<1>3. RequestIsJustified(Closed) /\ AreChanges(Closed.writes, Schema) /\ KeysFit(r, Closed.writes)
  BY <1>1 DEF RequestIsJustified, WalkIsSound, AreChanges, KeysFit
<1>4. QED
  BY <1>1, <1>2, <1>3, OneRequest

(* The changes of a request before and after they were read again.         *)
AreAgain(writes, old) ==
    /\ \A e \in writes : \E c \in old : Again(e, c) /\ (c.table \notin Unversioned => e = c)
    /\ \A c \in old : \E e \in writes : Again(e, c) /\ (c.table \notin Unversioned => e = c)

LEMMA AgainTheSame ==
    ASSUME NEW writes, NEW old, AreAgain(writes, old)
    PROVE  /\ \A table, k : (\E e \in old : Rewrites(e, table, k)) => \E e \in writes : Rewrites(e, table, k)
           /\ \A table, k : (\E e \in old : Removes(e, table, k)) => \E e \in writes : Removes(e, table, k)
           /\ \A table : (\E e \in writes : Inserts(e, table)) => \E e \in old : Inserts(e, table)
<1>1. ASSUME NEW e, NEW c, Again(e, c) PROVE e.old = None <=> c.old = None
  BY <1>1 DEF Again, SameRow
<1>2. QED
  BY <1>1 DEF AreAgain, Again, Inserts, Rewrites, Removes

LEMMA Reloading ==
    ASSUME IInv, NEW r \in Requests, Reload(r, Unversioned)
    PROVE  IInv'
<1> DEFINE q == req'[r]
           p == req[r]
<1>1. /\ Only(r) /\ DOMAIN q = DOMAIN p /\ p.pc = "staged" /\ q.pc = "staged"
      /\ q.since = p.since /\ q.walk = p.walk /\ AreChanges(q.writes, Schema) /\ AreAgain(q.writes, p.writes)
  BY Rereads DEF IInv, Shared, AreAgain
<1>2. RequestIsJustified(p) /\ AreChanges(p.writes, Schema) /\ DOMAIN p = {"pc", "writes", "since", "walk"}
  BY DEF IInv, Shared, WritesTyped, RequestsTyped, RequestsAreJustified
<1> HIDE DEF q, p
<1>3. ASSUME NEW c \in p.writes, NEW e \in q.writes, Again(e, c), c.table \notin Unversioned => e = c
      PROVE  IsJustified(e, q.writes, q.since)
  <2>1. /\ IsJustified(c, p.writes, p.since) /\ IsCurrent(c, p.since \cup Drift, Schema) /\ p.since \cap Fixed = {}
        /\ IsChange(c, Schema) /\ IsChange(e, Schema)
    BY <1>1, <1>2, <1>3 DEF RequestIsJustified, AreChanges
  <2>2. /\ e.table = c.table /\ e.key = c.key /\ e.new = c.new /\ (e.old = None <=> c.old = None)
        /\ e.old # c.old => c.old # None /\ c.new # None /\ e.old = db[c.table][c.key]
    BY <1>3 DEF Again, SameRow
  <2>3. Touched(e) \cap Fixed = {}
    <3>1. CASE e.old = c.old
      BY <2>1, <2>2, <3>1 DEF IsJustified, Touched
    <3>2. CASE e.old # c.old
      <4>1. c.old \in Schema[c.table].rows /\ c.new \in Schema[c.table].rows /\ e.old \in Schema[c.table].rows
            /\ e.old = db[c.table][c.key] /\ c.old # None /\ c.new # None /\ e.old # None
        BY <2>1, <2>2, <3>2 DEF IsChange
      <4>2. DOMAIN c.old = DOMAIN c.new /\ DOMAIN e.old = DOMAIN c.new
        BY <2>1, <4>1, IsTyped DEF IsSchema, IsChange
      <4>3. \A f \in DOMAIN c.new \cap Fixed : c.new[f] = c.old[f]
        BY <2>1, <4>1 DEF IsJustified, Touched
      <4>4. \A f \in DOMAIN c.old \cap Fixed : e.old[f] = c.old[f]
        <5>1. CASE Schema[c.table].kept
          BY <2>1, <4>1, <5>1 DEF IsCurrent, Fixed, Drift
        <5>2. CASE c.table \in Volatiles
          <6>1. c.table \in DOMAIN Schema /\ c.key \in Schema[c.table].keys
            BY <2>1 DEF IsChange
          <6>2. c.key \in Stored(c.table)
            BY <4>1, <6>1, Typed, IsTyped DEF IsTableOf
          <6>3. e.old.user_id = c.old.user_id
            BY <1>3, <4>1, <5>2, <6>2 DEF IInv, KeysAreUsedOnce, KeyIsFit, Keyed, Volatiles, p
          <6>4. DOMAIN c.old \cap Fixed = {"user_id"}
            <7>1. \A row \in TotpFactor \cup RecoveryCode : DOMAIN row \cap Fixed = {"user_id"}
              BY DEF TotpFactor, RecoveryCode, Fixed
            <7>2. c.old \in TotpFactor \cup RecoveryCode
              BY <4>1, <5>2, SchemaTables DEF Volatiles
            <7>3. QED
              BY <7>1, <7>2
          <6>5. QED
            BY <6>3, <6>4
        <5>3. CASE c.table \notin Volatiles /\ ~Schema[c.table].kept
          <6>1. c.table = "team_member"
            BY <1>3, <2>2, <3>2, <5>3, SchemaTables DEF Unversioned, Volatiles
          <6>2. DOMAIN c.old \cap Fixed = {}
            BY <4>1, <6>1, SchemaTables DEF TeamMembership, Fixed
          <6>3. QED
            BY <6>2
        <5>4. QED
          BY <5>1, <5>2, <5>3
      <4>5. QED
        BY <2>2, <4>1, <4>2, <4>3, <4>4 DEF Touched
    <3>3. QED
      BY <3>1, <3>2
  <2>4. \A d \in q.writes : d.table = e.table /\ d.key = e.key => d = e
    BY <1>1, <1>3 DEF AreChanges
  <2>5. /\ \A table, k : (\E d \in p.writes : Rewrites(d, table, k)) => \E d \in q.writes : Rewrites(d, table, k)
        /\ \A table, k : (\E d \in p.writes : Removes(d, table, k)) => \E d \in q.writes : Removes(d, table, k)
        /\ \A table : (\E d \in q.writes : Inserts(d, table)) => \E d \in p.writes : Inserts(d, table)
    BY <1>1, AgainTheSame
  <2>6. e.table = "user" => UserIsJustified(e, q.writes, q.since)
    <3>1. SUFFICES ASSUME e.table = "user" PROVE UserIsJustified(e, q.writes, q.since)
      OBVIOUS
    <3>2. e = c /\ UserIsJustified(c, p.writes, p.since)
      BY <1>3, <2>1, <2>2, <3>1 DEF Unversioned, IsJustified
    <3>3. MarkIsJustified(c, q.writes, q.since)
      <4>1. ASSUME NEW d \in p.writes, NEW k, Rewrites(d, "totp", k), d.new.user_id = c.key
            PROVE  \E f \in q.writes : Rewrites(f, "totp", k) /\ f.new.user_id = c.key
        <5>1. PICK f \in q.writes : Again(f, d)
          BY <1>1 DEF AreAgain
        <5>2. QED
          BY <4>1, <5>1 DEF Again, Rewrites, SameRow
      <4>2. QED
        BY <1>1, <2>5, <3>2, <4>1 DEF UserIsJustified, MarkIsJustified
    <3>4. ResetIsJustified(c, q.writes, q.since)
      BY <1>1, <2>5, <3>2 DEF UserIsJustified, ResetIsJustified
    <3>5. QED
      BY <1>1, <3>2, <3>3, <3>4 DEF UserIsJustified
  <2>7. e.table \in {"verify_token", "reset_token"} => TokenIsJustified(e, q.writes, q.since)
    <3>1. SUFFICES ASSUME e.table \in {"verify_token", "reset_token"} PROVE TokenIsJustified(e, q.writes, q.since)
      OBVIOUS
    <3>2. TokenIsJustified(c, p.writes, p.since)
      BY <2>1, <2>2, <3>1 DEF IsJustified
    <3>3. ASSUME e.old = None, NEW d \in q.writes, Inserts(d, e.table) PROVE d = e
      <4>1. PICK f \in p.writes : Again(d, f)
        BY <1>1 DEF AreAgain
      <4>2. f = c
        BY <2>2, <3>2, <3>3, <4>1 DEF TokenIsJustified, Inserts, Again, SameRow
      <4>3. QED
        BY <2>2, <2>4, <4>1, <4>2 DEF Again
    <3>4. QED
      BY <1>1, <2>2, <2>5, <3>2, <3>3 DEF TokenIsJustified
  <2>8. e.table = "session" => SessionIsJustified(e, q.writes, q.since)
    <3>1. SUFFICES ASSUME e.table = "session" PROVE SessionIsJustified(e, q.writes, q.since)
      OBVIOUS
    <3>2. SessionIsJustified(c, p.writes, p.since)
      BY <2>1, <2>2, <3>1 DEF IsJustified
    <3>3. ASSUME e.old = None, NEW d \in q.writes, Inserts(d, "session") PROVE d = e
      <4>1. PICK f \in p.writes : Again(d, f)
        BY <1>1 DEF AreAgain
      <4>2. f = c
        BY <2>2, <3>2, <3>3, <4>1 DEF SessionIsJustified, Inserts, Again, SameRow
      <4>3. QED
        BY <2>2, <2>4, <4>1, <4>2 DEF Again
    <3>4. QED
      BY <1>1, <2>2, <2>5, <3>1, <3>2, <3>3 DEF SessionIsJustified
  <2>9. e.table = "invitation" => InvitationIsJustified(e, q.writes)
    <3>1. ASSUME NEW d \in p.writes, Inserts(d, "user") PROVE d \in q.writes
      BY <1>1, <3>1 DEF AreAgain, Inserts, Unversioned
    <3>2. QED
      BY <2>1, <2>2, <3>1 DEF IsJustified, InvitationIsJustified
  <2>10. e.table = "totp" => FactorIsJustified(e, q.writes)
    <3>1. ASSUME NEW d \in p.writes, NEW k, Rewrites(d, "user", k) PROVE d \in q.writes
      BY <1>1, <3>1 DEF AreAgain, Rewrites, Unversioned
    <3>2. QED
      BY <2>1, <2>2, <3>1 DEF IsJustified, FactorIsJustified
  <2>11. e.table \in {"team", "role"} => NodeIsJustified(e, q.writes, q.since)
    <3>1. SUFFICES ASSUME e.table \in {"team", "role"} PROVE NodeIsJustified(e, q.writes, q.since)
      OBVIOUS
    <3>2. e = c /\ NodeIsJustified(c, p.writes, p.since)
      BY <1>3, <2>1, <2>2, <3>1 DEF Unversioned, IsJustified
    <3>3. q.writes = {e}
      <4>1. \A d \in q.writes : Again(d, c)
        BY <1>1, <3>2 DEF NodeIsJustified, AreAgain
      <4>2. QED
        BY <1>3, <2>4, <3>2, <4>1 DEF Again
    <3>4. QED
      BY <1>1, <3>2, <3>3 DEF NodeIsJustified
  <2>12. QED
    BY <2>3, <2>6, <2>7, <2>8, <2>9, <2>10, <2>11 DEF IsJustified
<1>4. \A e \in q.writes : IsCurrent(e, q.since \cup Drift, Schema) /\ IsJustified(e, q.writes, q.since)
  BY <1>1, <1>2, <1>3, RereadIsCurrent DEF AreAgain, RequestIsJustified
<1>5. WalkIsSound(q)
  <2>1. ASSUME NEW c \in p.writes, Inserts(c, "user") PROVE c \in q.writes
    BY <1>1, <2>1 DEF AreAgain, Inserts, Unversioned
  <2>2. ASSUME \A c \in p.writes : c.table # "verify_token" PROVE \A c \in q.writes : c.table # "verify_token"
    BY <1>1, <2>2 DEF AreAgain, Again
  <2>3. QED
    BY <1>1, <1>2, <2>1, <2>2 DEF RequestIsJustified, WalkIsSound
<1>6. KeysFit(r, q.writes)
  <2>1. ASSUME NEW e \in q.writes, e.table \in Keyed
        PROVE  KeyIsFit(r, e) /\ (e.old # None => IsUsed(e.table, e.key))
    <3>1. PICK c \in p.writes : Again(e, c)
      BY <1>1 DEF AreAgain
    <3>2. c.table = e.table /\ c.key = e.key /\ (c.old = None <=> e.old = None)
      BY <3>1 DEF Again, SameRow
    <3>3. KeyIsFit(r, c) /\ (c.old # None => IsUsed(c.table, c.key))
      BY <2>1, <3>2 DEF p, IInv, KeysAreUsedOnce, IsUsed
    <3>4. QED
      BY <3>1, <3>2, <3>3 DEF Again, KeyIsFit
  <2>2. QED
    BY <2>1 DEF KeysFit
<1>7. RequestIsJustified(q)
  BY <1>1, <1>2, <1>4, <1>5 DEF RequestIsJustified
<1>8. QED
  BY <1>1, <1>2, <1>6, <1>7, OneRequest DEF q

-----------------------------------------------------------------------------
(* The changes the routes are made of.                                     *)

LEMMA InsertedRow ==
    ASSUME HasSchema(db, Schema), NEW table \in DOMAIN Schema, NEW k \in Schema[table].keys,
           NEW row \in Schema[table].rows, NEW c, c = Insert(table, k, row)
    PROVE  /\ c.table = table /\ c.key = k /\ c.old = None /\ c.new = row /\ c.new # None
           /\ IsChange(c, Schema) /\ Reads(c) /\ Touched(c) \cap Fixed = {}
<1>1. /\ c.table = table /\ c.key = k /\ c.old = None /\ c.new = row /\ DOMAIN c = {"table", "key", "old", "new"}
  BY DEF Insert
<1>2. table \notin Fixed
  BY SchemaTables DEF Fixed
<1>3. row # None
  BY NoneIsNoRow
<1>4. QED
  BY <1>1, <1>2, <1>3 DEF IsChange, Reads, Touched

LEMMA UpdatedRow ==
    ASSUME HasSchema(db, Schema), NEW table \in DOMAIN Schema, NEW k \in Stored(table), NEW row \in Schema[table].rows,
           \A f \in (Fixed \cup {"id"}) \cap DOMAIN row : row[f] = db[table][k][f],
           NEW c, c = Update(table, k, row)
    PROVE  /\ c.table = table /\ c.key = k /\ c.old = db[table][k] /\ c.new = row /\ c.old # None /\ c.new # None
           /\ c.old \in Schema[table].rows /\ IsChange(c, Schema) /\ Reads(c) /\ Touched(c) \cap Fixed = {}
<1>1. /\ c.table = table /\ c.key = k /\ c.old = db[table][k] /\ c.new = row /\ DOMAIN c = {"table", "key", "old", "new"}
  BY DEF Update
<1>2. k \in Schema[table].keys /\ db[table][k] \in Schema[table].rows /\ db[table][k] # None /\ row # None
  BY Typed, NoneIsNoRow DEF IsTableOf
<1>3. DOMAIN db[table][k] = DOMAIN row
  BY <1>2, SchemaIsSound DEF IsSchema
<1>4. IsChange(c, Schema)
  BY <1>1, <1>2, <1>3 DEF IsChange
<1>5. Touched(c) \cap Fixed = {}
  BY <1>1, <1>2 DEF Touched
<1>6. QED
  BY <1>1, <1>2, <1>4, <1>5 DEF Reads

LEMMA DeletedRow ==
    ASSUME HasSchema(db, Schema), NEW table \in {"role", "user_role", "totp", "code", "team_member"},
           NEW k \in Stored(table), NEW c, c = Delete(table, k)
    PROVE  /\ c.table = table /\ c.key = k /\ c.old = db[table][k] /\ c.new = None /\ c.old # None
           /\ c.old \in Schema[table].rows /\ IsChange(c, Schema) /\ Reads(c) /\ Touched(c) \cap Fixed = {}
<1>1. /\ c.table = table /\ c.key = k /\ c.old = db[table][k] /\ c.new = None /\ DOMAIN c = {"table", "key", "old", "new"}
  BY DEF Delete
<1>2. table \in DOMAIN Schema /\ ~Schema[table].kept
  BY SchemaTables
<1>3. k \in Schema[table].keys /\ db[table][k] \in Schema[table].rows /\ db[table][k] # None
  BY <1>2, Typed DEF IsTableOf
<1>4. table \notin Fixed
  BY DEF Fixed
<1>5. QED
  BY <1>1, <1>2, <1>3, <1>4 DEF IsChange, Reads, Touched

(* Changes that no other one depends on.                                   *)
LEMMA PlainFits ==
    ASSUME NEW r, NEW c, NEW writes, IsChange(c, Schema), Reads(c), Touched(c) \cap Fixed = {},
           c.table \in {"organization", "user_role", "team_member", "code"},
           c.table = "code" /\ c.old = None => c.key = r /\ req[r].pc = "new"
    PROVE  Fits(r, c, writes)
<1>1. IsJustified(c, writes, {})
  BY DEF IsJustified
<1>2. c.table \in Keyed => c.table = "code"
  BY DEF Keyed
<1>3. QED
  BY <1>1, <1>2 DEF Fits

LEMMA LockedForCause ==
    ASSUME IInv, NEW u \in Stored("user"), Undisturbed({"attempts", "locked"}, {"attempts", "locked"})
    PROVE  IsLockedForCause(db["user"][u])
  BY DEF IInv, IdentityIsSound, IsLockedForCause

(* An update of a user.                                                    *)
LEMMA UserFits ==
    ASSUME IInv, NEW r, NEW u \in Stored("user"), NEW row \in User, NEW old, old = db["user"][u],
           row.org = old.org, row.email = old.email, IsLockedForCause(old) => IsLockedForCause(row),
           NEW c, c = Update("user", u, row), NEW writes,
           MarkIsJustified(c, writes, {}), ResetIsJustified(c, writes, {})
    PROVE  /\ Fits(r, c, writes)
           /\ c.table = "user" /\ c.key = u /\ c.old = old /\ c.new = row /\ c.old # None /\ c.new # None
<1>1. "user" \in DOMAIN Schema /\ row \in Schema["user"].rows
  BY SchemaTables
<1>2. \A f \in (Fixed \cup {"id"}) \cap DOMAIN row : row[f] = db["user"][u][f]
  BY DEF User, Fixed
<1>3. /\ c.table = "user" /\ c.key = u /\ c.old = old /\ c.new = row /\ c.old # None /\ c.new # None
      /\ IsChange(c, Schema) /\ Reads(c) /\ Touched(c) \cap Fixed = {}
  BY <1>1, <1>2, UpdatedRow, IsTyped
<1>4. UserIsJustified(c, writes, {})
  BY <1>3, LockedForCause DEF UserIsJustified
<1>5. QED
  BY <1>3, <1>4 DEF Fits, IsJustified, Keyed

(* That leaves the mark and the password.                                  *)
LEMMA UserKeepsFit ==
    ASSUME IInv, NEW r, NEW u \in Stored("user"), NEW row \in User, NEW old, old = db["user"][u],
           row.org = old.org, row.email = old.email, row.mfa = old.mfa, row.resets = old.resets,
           IsLockedForCause(old) => IsLockedForCause(row),
           NEW c, c = Update("user", u, row), NEW writes
    PROVE  /\ Fits(r, c, writes)
           /\ c.table = "user" /\ c.key = u /\ c.old = old /\ c.new = row /\ c.old # None /\ c.new # None
<1>1. c.old = old /\ c.new = row
  BY DEF Update
<1>2. MarkIsJustified(c, writes, {}) /\ ResetIsJustified(c, writes, {})
  BY <1>1 DEF MarkIsJustified, ResetIsJustified
<1>3. QED
  BY <1>2, UserFits

LEMMA SaveUserFits ==
    ASSUME IInv, NEW r \in Requests, NEW u \in Stored("user"), NEW row \in User, NEW old, old = db["user"][u],
           row.org = old.org, row.email = old.email, row.mfa = old.mfa, row.resets = old.resets,
           IsLockedForCause(old) => IsLockedForCause(row), SaveUser(r, u, row)
    PROVE  IInv'
<1> DEFINE c == Update("user", u, row)
           writes == {c}
<1>1. Stage(r, writes)
  BY DEF SaveUser, Save
<1>2. Fits(r, c, writes)
  BY UserKeepsFit
<1>3. \A e \in writes : Fits(r, e, writes)
  BY <1>2
<1>4. OfDifferentRows(writes)
  BY DEF OfDifferentRows
<1> HIDE DEF writes
<1>5. QED
  BY <1>1, <1>3, <1>4, Staged

LEMMA StoredUser ==
    ASSUME IInv, NEW u \in Stored("user")
    PROVE  u \in Users /\ db["user"][u] \in User /\ db["user"][u] # None
  BY Typed, IsTyped DEF IsTableOf

LEMMA LoginRows ==
    ASSUME NEW old \in User
    PROVE  /\ FailedLogin(old) \in User /\ SuccessfulLogin(old) \in User
           /\ \A row \in {FailedLogin(old), SuccessfulLogin(old)} :
                 /\ row.org = old.org /\ row.email = old.email /\ row.mfa = old.mfa /\ row.resets = old.resets
                 /\ IsLockedForCause(old) => IsLockedForCause(row)
<1>1. old.attempts \in Nat /\ old.attempts + 1 \in Nat
  BY DEF User
<1> DEFINE tries == old.attempts + 1
           lock == IF tries >= Threshold THEN "now" ELSE old.locked
           row == [old EXCEPT !.attempts = tries, !.locked = lock]
<1>2. FailedLogin(old) = row
  BY DEF FailedLogin
<1>3. lock \in {"never", "now", "past"} /\ tries \in Nat
  BY <1>1 DEF User
<1>4. lock # "never" /\ IsLockedForCause(old) => tries >= Threshold
  BY <1>1, ThresholdAssumption DEF IsLockedForCause
<1> HIDE DEF tries, lock
<1>5. row \in User /\ row.org = old.org /\ row.email = old.email /\ row.mfa = old.mfa /\ row.resets = old.resets
      /\ row.attempts = tries /\ row.locked = lock
  BY <1>3 DEF User
<1> DEFINE good == SuccessfulLogin(old)
<1>6. good \in User /\ good.org = old.org /\ good.email = old.email /\ good.mfa = old.mfa /\ good.resets = old.resets
      /\ good.locked = "never"
  BY DEF User, SuccessfulLogin
<1> HIDE DEF row, good
<1>7. IsLockedForCause(good) /\ (IsLockedForCause(old) => IsLockedForCause(row))
  BY <1>4, <1>5, <1>6 DEF IsLockedForCause
<1>8. QED
  BY <1>2, <1>5, <1>6, <1>7 DEF good

LEMMA SaveUserRoutes ==
    ASSUME IInv, NEW r \in Requests, NEW u \in Users,
           \/ UpdateProfile(r, u) \/ UpdateAvatar(r, u) \/ UpdatePreferences(r, u) \/ ChangePassword(r, u)
           \/ SuspendUser(r, u) \/ ReactivateUser(r, u) \/ DeactivateUser(r, u)
           \/ LoginFails(r, u) \/ LoginIsChallenged(r, u)
    PROVE  IInv'
<1> DEFINE old == db["user"][u]
<1>1. u \in Stored("user")
  BY DEF UpdateProfile, UpdateAvatar, UpdatePreferences, ChangePassword, SuspendUser, ReactivateUser, DeactivateUser,
         SetUserStatus, LoginFails, LoginIsChallenged, CanTry
<1>2. old \in User
  BY <1>1, StoredUser
<1>3. CASE UpdateProfile(r, u) \/ UpdateAvatar(r, u) \/ UpdatePreferences(r, u) \/ ChangePassword(r, u)
  <2>1. SaveUser(r, u, old)
    BY <1>3 DEF UpdateProfile, UpdateAvatar, UpdatePreferences, ChangePassword
  <2>2. QED
    BY <1>1, <1>2, <2>1, SaveUserFits
<1>4. CASE SuspendUser(r, u) \/ ReactivateUser(r, u) \/ DeactivateUser(r, u)
  <2>1. PICK status \in UserStatuses : SaveUser(r, u, [old EXCEPT !.status = status])
    BY <1>4 DEF SuspendUser, ReactivateUser, DeactivateUser, SetUserStatus, UserStatuses
  <2> DEFINE row == [old EXCEPT !.status = status]
  <2>2. /\ row \in User /\ row.org = old.org /\ row.email = old.email /\ row.mfa = old.mfa /\ row.resets = old.resets
        /\ IsLockedForCause(old) => IsLockedForCause(row)
    BY <1>2 DEF User, IsLockedForCause
  <2> HIDE DEF row
  <2>3. QED
    BY <1>1, <2>1, <2>2, SaveUserFits DEF row
<1>5. CASE LoginFails(r, u) \/ LoginIsChallenged(r, u)
  <2>1. PICK row \in {FailedLogin(old), SuccessfulLogin(old)} : SaveUser(r, u, row)
    BY <1>5 DEF LoginFails, LoginIsChallenged
  <2>2. QED
    BY <1>1, <1>2, <2>1, LoginRows, SaveUserFits
<1>6. QED
  BY <1>3, <1>4, <1>5

-----------------------------------------------------------------------------
(* The routes of users, mails and passwords.                               *)

LEMMA NewKey ==
    ASSUME IInv, NEW r \in Requests, req[r].pc = "new", NEW table \in Keyed
    PROVE  r \notin Stored(table)
  BY DEF IInv, KeysAreUsedOnce, IsUsed

LEMMA KeyedTables ==
    /\ \A table \in Keyed : table \in DOMAIN Schema /\ Schema[table].keys = Keys
    /\ \A r \in Requests : r \in Keys
  BY SchemaTables DEF Keyed, Keys

LEMMA HasItsUser ==
    ASSUME IInv, NEW table \in {"session", "verify_token", "reset_token", "totp", "code"}, NEW k \in Stored(table)
    PROVE  db[table][k].user_id \in Stored("user")
<1>1. AccountConstraints(db)
  BY DEF IInv, IdentityIsSound, Constraints
<1>2. QED
  BY <1>1 DEF AccountConstraints, Stored

LEMMA InsertedUserFits ==
    ASSUME IInv, NEW r, NEW u \in Users, NEW o \in Orgs, NEW e \in Emails,
           NEW row, row = NewUser(o, e) \/ row = [NewUser(o, e) EXCEPT !.status = "active"],
           NEW c, c = Insert("user", u, row), NEW writes
    PROVE  Fits(r, c, writes) /\ Inserts(c, "user") /\ c.key = u /\ c.new = row /\ row.org = o /\ row.email = e
<1>1. row \in User /\ row.org = o /\ row.email = e /\ row.mfa = FALSE /\ row.locked = "never"
  <2> DEFINE new == NewUser(o, e)
  <2>1. new \in User /\ new.org = o /\ new.email = e /\ new.mfa = FALSE /\ new.locked = "never"
    BY DEF NewUser, User, UserStatuses
  <2> HIDE DEF new
  <2>2. [new EXCEPT !.status = "active"] \in User
    BY <2>1 DEF User, UserStatuses
  <2>3. QED
    BY <2>1, <2>2 DEF User, new
<1>2. "user" \in DOMAIN Schema /\ u \in Schema["user"].keys /\ row \in Schema["user"].rows
  BY <1>1, SchemaTables
<1>3. /\ c.table = "user" /\ c.key = u /\ c.old = None /\ c.new = row /\ IsChange(c, Schema) /\ Reads(c)
      /\ Touched(c) \cap Fixed = {}
  BY <1>2, InsertedRow, IsTyped
<1>4. UserIsJustified(c, writes, {})
  BY <1>1, <1>3 DEF UserIsJustified, MarkIsJustified, ResetIsJustified, IsLockedForCause
<1>5. QED
  BY <1>1, <1>3, <1>4 DEF Fits, IsJustified, Keyed, Inserts

LEMMA WelcomeFits ==
    ASSUME IInv, NEW r \in Requests, NEW writes, NEW u \in Users, StageWelcomed(r, writes, u),
           \A c \in writes : Fits(r, c, writes) /\ c.table # "verify_token", OfDifferentRows(writes),
           \E c \in writes : Inserts(c, "user") /\ c.key = u
    PROVE  IInv'
<1> DEFINE w == [kind |-> "welcome", user |-> u]
<1>1. w \in Errand /\ w.kind = "welcome" /\ w.user = u
  BY DEF Errand
<1>2. /\ req[r].pc = "new" /\ UNCHANGED <<db, raced>>
      /\ req' = [req EXCEPT ![r].pc = "staged", ![r].writes = writes, ![r].walk = w]
  BY DEF StageWelcomed
<1> HIDE DEF w
<1>3. QED
  BY <1>1, <1>2, StagedWithErrand

LEMMA RegisterIsSound ==
    ASSUME IInv, NEW r \in Requests, NEW u \in Users, NEW o \in Stored("organization"), NEW e \in Emails,
           Register(r, u, o, e)
    PROVE  IInv'
<1> DEFINE c == Insert("user", u, NewUser(o, e))
           writes == {c}
<1>1. o \in Orgs
  BY Typed, IsTyped DEF IsTableOf
<1>2. Fits(r, c, writes) /\ Inserts(c, "user") /\ c.key = u
  BY <1>1, InsertedUserFits
<1>3. StageWelcomed(r, writes, u)
  BY DEF Register
<1> HIDE DEF c
<1>4. OfDifferentRows(writes) /\ \A d \in writes : Fits(r, d, writes) /\ d.table # "verify_token"
  BY <1>2 DEF OfDifferentRows, Inserts
<1>5. QED
  BY <1>2, <1>3, <1>4, WelcomeFits

LEMMA UserRoutesAreSound ==
    ASSUME IInv, NEW r \in Requests, UserRoutes(r)
    PROVE  IInv'
  BY RegisterIsSound, SaveUserRoutes DEF UserRoutes

(* A token is used up, or issued.                                          *)
LEMMA ConsumedFits ==
    ASSUME IInv, NEW r, NEW table \in {"verify_token", "reset_token"}, NEW k \in Stored(table), NEW writes,
           NEW c, c = Update(table, k, Consumed(db[table][k]))
    PROVE  Fits(r, c, writes) /\ Rewrites(c, table, k)
<1> DEFINE row == Consumed(db[table][k])
<1>1. table \in DOMAIN Schema /\ Schema[table].rows = Token /\ db[table][k] \in Token
  BY Typed, IsTyped, SchemaTables, NoneIsNoRow DEF IsTableOf
<1>2. row \in Token /\ row.consumed = TRUE /\ \A f \in (Fixed \cup {"id"}) \cap DOMAIN row : row[f] = db[table][k][f]
  BY <1>1 DEF Consumed, Token, Fixed
<1> HIDE DEF row
<1>3. /\ c.table = table /\ c.key = k /\ c.old = db[table][k] /\ c.new = row /\ c.old # None /\ c.new # None
      /\ IsChange(c, Schema) /\ Reads(c) /\ Touched(c) \cap Fixed = {}
  BY <1>1, <1>2, UpdatedRow, IsTyped DEF row
<1>4. TokenIsJustified(c, writes, {})
  BY <1>2, <1>3 DEF TokenIsJustified
<1>5. QED
  BY <1>3, <1>4 DEF Fits, IsJustified, Rewrites

LEMMA ReissueFits ==
    ASSUME IInv, NEW r \in Requests, NEW table \in {"verify_token", "reset_token"}, NEW u \in Stored("user"),
           Stage(r, Reissue(r, table, u))
    PROVE  IInv'
<1> DEFINE writes == Reissue(r, table, u)
           used(k) == Update(table, k, Consumed(db[table][k]))
           c == Insert(table, r, NewToken(u))
<1>1. table \in Keyed /\ table \in DOMAIN Schema /\ Schema[table].rows = Token /\ Schema[table].keys = Keys /\ r \in Keys
  BY KeyedTables, SchemaTables DEF Keyed
<1>2. NewToken(u) \in Token /\ NewToken(u).user_id = u
  BY StoredUser DEF NewToken, Token
<1>3. c.table = table /\ c.key = r /\ c.old = None /\ c.new = NewToken(u) /\ IsChange(c, Schema) /\ Reads(c)
      /\ Touched(c) \cap Fixed = {}
  BY <1>1, <1>2, InsertedRow, IsTyped
<1>4. writes = {used(k) : k \in Outstanding(table, u)} \cup {c}
  BY DEF Reissue, UpdateAll
<1>5. \A k \in Outstanding(table, u) : k \in Stored(table) /\ k # r
  BY <1>1, NewKey DEF Outstanding, Of, Stage, StageMarked
<1> HIDE DEF c, writes
<1>6. \A k \in Outstanding(table, u) : Fits(r, used(k), writes) /\ Rewrites(used(k), table, k)
  BY <1>5, ConsumedFits
<1> HIDE DEF used
<1>7. Fits(r, c, writes)
  <2>1. \A e \in writes : Inserts(e, table) => e = c
    BY <1>4, <1>6 DEF Inserts, Rewrites
  <2>2. TokenIsJustified(c, writes, {})
    BY <1>2, <1>3, <1>4, <1>6, <2>1 DEF TokenIsJustified
  <2>3. QED
    BY <1>3, <2>2 DEF Fits, IsJustified, Volatiles
<1>8. \A e \in writes : Fits(r, e, writes)
  BY <1>4, <1>6, <1>7
<1>9. OfDifferentRows(writes)
  BY <1>3, <1>4, <1>5, <1>6 DEF OfDifferentRows, Rewrites
<1>10. QED
  BY <1>8, <1>9, Staged DEF writes

LEMMA VerifyEmailIsSound ==
    ASSUME IInv, NEW r \in Requests, NEW k \in Keys, VerifyEmail(r, k)
    PROVE  IInv'
<1> DEFINE u == db["verify_token"][k].user_id
           old == db["user"][u]
           row == [old EXCEPT !.status = "active"]
           c == Update("verify_token", k, Consumed(db["verify_token"][k]))
           e == Update("user", u, row)
           writes == {c, e}
<1>1. k \in Stored("verify_token") /\ Stage(r, writes)
  BY DEF VerifyEmail
<1>2. u \in Stored("user") /\ old \in User
  BY <1>1, HasItsUser, StoredUser
<1>3. /\ row \in User /\ row.org = old.org /\ row.email = old.email /\ row.mfa = old.mfa /\ row.resets = old.resets
      /\ IsLockedForCause(old) => IsLockedForCause(row)
  BY <1>2 DEF User, UserStatuses, IsLockedForCause
<1> HIDE DEF row, old, u
<1>4. Fits(r, c, writes) /\ c.table = "verify_token"
  BY <1>1, ConsumedFits DEF Rewrites
<1>5. Fits(r, e, writes) /\ e.table = "user"
  BY <1>2, <1>3, UserKeepsFit DEF old
<1> HIDE DEF c, e
<1>6. OfDifferentRows(writes) /\ \A d \in writes : Fits(r, d, writes)
  BY <1>4, <1>5 DEF OfDifferentRows
<1>7. QED
  BY <1>1, <1>6, Staged

LEMMA EmailRoutesAreSound ==
    ASSUME IInv, NEW r \in Requests, EmailRoutes(r)
    PROVE  IInv'
  BY ReissueFits, VerifyEmailIsSound DEF EmailRoutes, ResendVerification

(* A session is ended, or issued.                                          *)
LEMMA RevokedFits ==
    ASSUME IInv, NEW r, NEW k \in Stored("session"), NEW writes, NEW c, c = Update("session", k, Revoked(db["session"][k]))
    PROVE  Fits(r, c, writes) /\ Rewrites(c, "session", k)
<1> DEFINE row == Revoked(db["session"][k])
<1>1. "session" \in DOMAIN Schema /\ Schema["session"].rows = Session /\ db["session"][k] \in Session
  BY Typed, IsTyped, SchemaTables, NoneIsNoRow DEF IsTableOf
<1>2. row \in Session /\ row.revoked = TRUE
      /\ \A f \in (Fixed \cup {"id"}) \cap DOMAIN row : row[f] = db["session"][k][f]
  BY <1>1 DEF Revoked, Session, Fixed
<1> HIDE DEF row
<1>3. /\ c.table = "session" /\ c.key = k /\ c.old = db["session"][k] /\ c.new = row /\ c.old # None /\ c.new # None
      /\ IsChange(c, Schema) /\ Reads(c) /\ Touched(c) \cap Fixed = {}
  BY <1>1, <1>2, UpdatedRow, IsTyped DEF row
<1>4. SessionIsJustified(c, writes, {})
  BY <1>2, <1>3 DEF SessionIsJustified
<1>5. QED
  BY <1>3, <1>4 DEF Fits, IsJustified, Rewrites

LEMMA IssuedFits ==
    ASSUME IInv, NEW r \in Requests, NEW u \in Stored("user"), NEW from \in Stored("session") \cup {None}, NEW writes,
           NEW c, c = Insert("session", r, NewSession(u, from)),
           \A e \in writes : Inserts(e, "session") => e = c,
           from # None => ~db["session"][from].revoked /\ \E e \in writes : Rewrites(e, "session", from)
    PROVE  Fits(r, c, writes) /\ c.table = "session" /\ c.key = r /\ c.old = None
<1> DEFINE row == NewSession(u, from)
<1>1. "session" \in DOMAIN Schema /\ Schema["session"].rows = Session /\ Schema["session"].keys = Keys /\ r \in Keys
  BY SchemaTables, KeyedTables
<1>2. u \in Users /\ db["user"][u].resets \in SUBSET Requests /\ from \in Keys \cup {None}
  BY StoredUser, Typed, IsTyped DEF IsTableOf, User
<1>3. row \in Session /\ row.user_id = u /\ row.from = from /\ row.issued = db["user"][u].resets
  BY <1>2 DEF NewSession, Session
<1> HIDE DEF row
<1>4. c.table = "session" /\ c.key = r /\ c.old = None /\ c.new = row /\ IsChange(c, Schema) /\ Reads(c)
      /\ Touched(c) \cap Fixed = {}
  BY <1>1, <1>3, InsertedRow, IsTyped DEF row
<1>5. SessionIsJustified(c, writes, {})
  BY <1>3, <1>4 DEF SessionIsJustified
<1>6. QED
  BY <1>4, <1>5 DEF Fits, IsJustified, Volatiles

LEMMA ResetPasswordIsSound ==
    ASSUME IInv, NEW r \in Requests, NEW k \in Keys, ResetPassword(r, k)
    PROVE  IInv'
<1> DEFINE u == db["reset_token"][k].user_id
           old == db["user"][u]
           row == [old EXCEPT !.resets = @ \cup {r}]
           c == Update("user", u, row)
           e == Update("reset_token", k, Consumed(db["reset_token"][k]))
           ended(s) == Update("session", s, Revoked(db["session"][s]))
           writes == {c, e} \cup {ended(s) : s \in ActiveSessions(u)}
<1>1. k \in Stored("reset_token") /\ Stage(r, writes)
  BY DEF ResetPassword, UpdateAll
<1>2. u \in Stored("user") /\ old \in User
  BY <1>1, HasItsUser, StoredUser
<1>3. /\ row \in User /\ row.org = old.org /\ row.email = old.email /\ row.mfa = old.mfa
      /\ IsLockedForCause(old) => IsLockedForCause(row)
  BY <1>2 DEF User, IsLockedForCause
<1>4. c.table = "user" /\ c.key = u /\ c.old = old /\ c.new = row
  BY DEF Update
<1> HIDE DEF row, old, u, c, writes
<1>5. Fits(r, e, writes) /\ e.table = "reset_token"
  BY <1>1, ConsumedFits DEF Rewrites
<1>6. ASSUME NEW s \in ActiveSessions(u) PROVE Fits(r, ended(s), writes) /\ Rewrites(ended(s), "session", s)
  <2>1. s \in Stored("session")
    BY DEF ActiveSessions, Of
  <2>2. QED
    BY <2>1, RevokedFits
<1> HIDE DEF e, ended
<1>7. writes = {c, e} \cup {ended(s) : s \in ActiveSessions(u)}
  BY DEF writes
<1>8. \A d \in writes : ~Inserts(d, "session")
  BY <1>4, <1>5, <1>6, <1>7 DEF Inserts, Rewrites
<1>9. \A s \in ActiveSessions(u) : \E d \in writes : Rewrites(d, "session", s)
  BY <1>6, <1>7
<1>10. MarkIsJustified(c, writes, {}) /\ ResetIsJustified(c, writes, {})
  BY <1>3, <1>4, <1>8, <1>9 DEF MarkIsJustified, ResetIsJustified
<1>11. Fits(r, c, writes)
  BY <1>2, <1>3, <1>10, UserFits DEF c, old
<1>12. \A d \in writes : Fits(r, d, writes)
  BY <1>5, <1>6, <1>7, <1>11
<1>13. OfDifferentRows(writes)
  <2>1. \A d \in writes : d.table = "session" => d = ended(d.key)
    BY <1>4, <1>5, <1>6, <1>7 DEF Rewrites
  <2>2. \A d \in writes : d.table # "session" => d \in {c, e}
    BY <1>6, <1>7 DEF Rewrites
  <2>3. c.table # e.table
    BY <1>4, <1>5
  <2>4. QED
    BY <2>1, <2>2, <2>3 DEF OfDifferentRows
<1>14. QED
  BY <1>1, <1>12, <1>13, Staged

LEMMA PasswordRoutesAreSound ==
    ASSUME IInv, NEW r \in Requests, PasswordRoutes(r)
    PROVE  IInv'
  BY ReissueFits, ResetPasswordIsSound, SaveUserRoutes DEF PasswordRoutes, RequestReset

-----------------------------------------------------------------------------
(* The routes of logins, sessions and the second factor.                   *)

LEMMA EndSessionIsSound ==
    ASSUME IInv, NEW r \in Requests, NEW k \in Stored("session"), Save(r, "session", k, Revoked(db["session"][k]))
    PROVE  IInv'
<1> DEFINE c == Update("session", k, Revoked(db["session"][k]))
           writes == {c}
<1>1. Fits(r, c, writes)
  BY RevokedFits
<1>2. Stage(r, writes)
  BY DEF Save
<1> HIDE DEF c
<1>3. OfDifferentRows(writes) /\ \A e \in writes : Fits(r, e, writes)
  BY <1>1 DEF OfDifferentRows
<1>4. QED
  BY <1>2, <1>3, Staged

LEMMA LoginIsSound ==
    ASSUME IInv, NEW r \in Requests, NEW u \in Users, Login(r, u)
    PROVE  IInv'
<1> DEFINE old == db["user"][u]
           row == SuccessfulLogin(old)
           c == Update("user", u, row)
           e == Insert("session", r, NewSession(u, None))
           writes == {c, e}
<1>1. u \in Stored("user") /\ Stage(r, writes)
  BY DEF Login, CanTry
<1>2. old \in User
  BY <1>1, StoredUser
<1>3. /\ row \in User /\ row.org = old.org /\ row.email = old.email /\ row.mfa = old.mfa /\ row.resets = old.resets
      /\ IsLockedForCause(old) => IsLockedForCause(row)
  BY <1>2, LoginRows
<1> HIDE DEF row, old
<1>4. Fits(r, c, writes) /\ c.table = "user"
  BY <1>1, <1>3, UserKeepsFit DEF old
<1> HIDE DEF c
<1>5. \A d \in writes : Inserts(d, "session") => d = e
  BY <1>4 DEF Inserts
<1>6. Fits(r, e, writes) /\ e.table = "session"
  BY <1>1, <1>5, IssuedFits
<1> HIDE DEF e
<1>7. OfDifferentRows(writes) /\ \A d \in writes : Fits(r, d, writes)
  BY <1>4, <1>6 DEF OfDifferentRows
<1>8. QED
  BY <1>1, <1>7, Staged

LEMMA RefreshIsSound ==
    ASSUME IInv, NEW r \in Requests, NEW k \in Keys, Refresh(r, k)
    PROVE  IInv'
<1> DEFINE u == db["session"][k].user_id
           c == Update("session", k, Revoked(db["session"][k]))
           e == Insert("session", r, NewSession(u, k))
           writes == {c, e}
<1>1. k \in Stored("session") /\ ~db["session"][k].revoked /\ Stage(r, writes)
  BY DEF Refresh
<1>2. u \in Stored("user") /\ k # r
  BY <1>1, HasItsUser, NewKey DEF Stage, StageMarked, Keyed
<1> HIDE DEF u
<1>3. Fits(r, c, writes) /\ Rewrites(c, "session", k)
  BY <1>1, RevokedFits
<1> HIDE DEF c
<1>4. \A d \in writes : Inserts(d, "session") => d = e
  BY <1>3 DEF Inserts, Rewrites
<1>5. \E d \in writes : Rewrites(d, "session", k)
  BY <1>3
<1>6. Fits(r, e, writes) /\ e.table = "session" /\ e.key = r
  BY <1>1, <1>2, <1>4, <1>5, IssuedFits
<1> HIDE DEF e
<1>7. OfDifferentRows(writes) /\ \A d \in writes : Fits(r, d, writes)
  BY <1>2, <1>3, <1>6 DEF OfDifferentRows, Rewrites
<1>8. QED
  BY <1>1, <1>7, Staged

LEMMA AuthRoutesAreSound ==
    ASSUME IInv, NEW r \in Requests, AuthRoutes(r)
    PROVE  IInv'
  BY SaveUserRoutes, LoginIsSound, RefreshIsSound, EndSessionIsSound DEF AuthRoutes, Logout, RevokeSession

(* The rows of an enrolment.                                               *)
LEMMA NewCodeFits ==
    ASSUME IInv, NEW r \in Requests, req[r].pc = "new", NEW u \in Users, NEW c, c = NewCode(r, u), NEW writes
    PROVE  Fits(r, c, writes) /\ c.table = "code" /\ c.key = r
<1> DEFINE row == [user_id |-> u, used |-> FALSE]
<1>1. "code" \in DOMAIN Schema /\ r \in Schema["code"].keys /\ Schema["code"].rows = RecoveryCode
  BY SchemaTables, KeyedTables
<1>2. row \in RecoveryCode
  BY DEF RecoveryCode
<1>3. c = Insert("code", r, row)
  BY DEF NewCode
<1> HIDE DEF row
<1>4. c.table = "code" /\ c.key = r /\ c.old = None /\ IsChange(c, Schema) /\ Reads(c) /\ Touched(c) \cap Fixed = {}
  BY <1>1, <1>2, <1>3, InsertedRow, IsTyped
<1>5. QED
  BY <1>4, PlainFits

LEMMA DeletedCodeFits ==
    ASSUME IInv, NEW r \in Requests, NEW k \in Stored("code"), NEW c, c = Delete("code", k), NEW writes
    PROVE  Fits(r, c, writes) /\ c.table = "code" /\ c.key = k
<1>1. c.table = "code" /\ c.key = k /\ c.old # None /\ IsChange(c, Schema) /\ Reads(c) /\ Touched(c) \cap Fixed = {}
  BY DeletedRow, IsTyped
<1>2. QED
  BY <1>1, PlainFits

LEMMA RegenerateCodesIsSound ==
    ASSUME IInv, NEW r \in Requests, NEW u \in Users, RegenerateCodes(r, u)
    PROVE  IInv'
<1> DEFINE gone(k) == Delete("code", k)
           c == NewCode(r, u)
           writes == {gone(k) : k \in Of("code", u)} \cup {c}
<1>1. Stage(r, writes) /\ req[r].pc = "new"
  BY DEF RegenerateCodes, DeleteAll, Stage, StageMarked
<1>2. Fits(r, c, writes) /\ c.table = "code" /\ c.key = r
  BY <1>1, NewCodeFits
<1>3. ASSUME NEW k \in Of("code", u) PROVE Fits(r, gone(k), writes) /\ gone(k).key = k /\ k # r
  <2>1. k \in Stored("code")
    BY DEF Of
  <2>2. QED
    BY <1>1, <2>1, DeletedCodeFits, NewKey DEF Keyed
<1> HIDE DEF c, gone
<1>4. \A d \in writes : Fits(r, d, writes)
  BY <1>2, <1>3
<1>5. \A d \in writes : d = c \/ (d.key # r /\ d = gone(d.key))
  BY <1>3
<1> HIDE DEF writes
<1>6. OfDifferentRows(writes)
  BY <1>2, <1>5 DEF OfDifferentRows
<1>7. QED
  BY <1>1, <1>4, <1>6, Staged

LEMMA StartTotpIsSound ==
    ASSUME IInv, NEW r \in Requests, NEW u \in Users, StartTotp(r, u)
    PROVE  IInv'
<1> DEFINE row == [user_id |-> u, verified |-> FALSE]
           c == Insert("totp", r, row)
           writes == {c}
<1>1. Stage(r, writes) /\ req[r].pc = "new"
  BY DEF StartTotp, Stage, StageMarked
<1>2. "totp" \in DOMAIN Schema /\ r \in Schema["totp"].keys /\ Schema["totp"].rows = TotpFactor
  BY SchemaTables, KeyedTables
<1>3. row \in TotpFactor /\ row.verified = FALSE
  BY DEF TotpFactor
<1> HIDE DEF row
<1>4. c.table = "totp" /\ c.key = r /\ c.old = None /\ c.new = row /\ c.new # None /\ IsChange(c, Schema) /\ Reads(c)
      /\ Touched(c) \cap Fixed = {}
  BY <1>2, <1>3, InsertedRow, IsTyped
<1> HIDE DEF c
<1>5. FactorIsJustified(c, writes)
  BY <1>3, <1>4 DEF FactorIsJustified
<1>6. Fits(r, c, writes)
  BY <1>1, <1>4, <1>5 DEF Fits, IsJustified
<1>7. OfDifferentRows(writes) /\ \A d \in writes : Fits(r, d, writes)
  BY <1>6 DEF OfDifferentRows
<1>8. QED
  BY <1>1, <1>7, Staged

LEMMA ConfirmTotpIsSound ==
    ASSUME IInv, NEW r \in Requests, NEW k \in Keys, ConfirmTotp(r, k)
    PROVE  IInv'
<1> DEFINE was == db["totp"][k]
           u == was.user_id
           now == [was EXCEPT !.verified = TRUE]
           old == db["user"][u]
           row == [old EXCEPT !.mfa = TRUE]
           c == Update("totp", k, now)
           e == Update("user", u, row)
           n == NewCode(r, u)
           writes == {c, e, n}
<1>1. k \in Stored("totp") /\ Stage(r, writes) /\ req[r].pc = "new"
  BY DEF ConfirmTotp, Stage, StageMarked
<1>2. u \in Stored("user") /\ u \in Users /\ old \in User
  BY <1>1, HasItsUser, StoredUser
<1>3. "totp" \in DOMAIN Schema /\ Schema["totp"].rows = TotpFactor /\ was \in TotpFactor
  BY <1>1, Typed, IsTyped, SchemaTables DEF IsTableOf
<1>4. now \in TotpFactor /\ now.verified = TRUE /\ now.user_id = u
      /\ \A f \in (Fixed \cup {"id"}) \cap DOMAIN now : now[f] = was[f]
  BY <1>3 DEF TotpFactor, Fixed
<1>5. /\ row \in User /\ row.org = old.org /\ row.email = old.email /\ row.resets = old.resets /\ row.mfa = TRUE
      /\ IsLockedForCause(old) => IsLockedForCause(row)
  BY <1>2 DEF User, IsLockedForCause
<1> HIDE DEF row, old, now, u
<1>6. /\ c.table = "totp" /\ c.key = k /\ c.old = was /\ c.new = now /\ c.old # None /\ c.new # None
      /\ IsChange(c, Schema) /\ Reads(c) /\ Touched(c) \cap Fixed = {}
  BY <1>1, <1>3, <1>4, UpdatedRow, IsTyped
<1>7. e.table = "user" /\ e.key = u /\ e.old = old /\ e.new = row
  BY DEF Update, old
<1> HIDE DEF c, e, was
<1>8. MarkIsJustified(e, writes, {}) /\ ResetIsJustified(e, writes, {})
  BY <1>4, <1>5, <1>6, <1>7 DEF MarkIsJustified, ResetIsJustified, Rewrites
<1>9. Fits(r, e, writes) /\ Rewrites(e, "user", u)
  BY <1>2, <1>5, <1>8, UserFits DEF e, old, Rewrites
<1>10. FactorIsJustified(c, writes)
  BY <1>4, <1>5, <1>6, <1>7, <1>9 DEF FactorIsJustified
<1>11. Fits(r, c, writes)
  BY <1>6, <1>10 DEF Fits, IsJustified
<1>12. Fits(r, n, writes) /\ n.table = "code"
  BY <1>1, <1>2, NewCodeFits
<1> HIDE DEF n
<1>13. OfDifferentRows(writes) /\ \A d \in writes : Fits(r, d, writes)
  BY <1>6, <1>7, <1>9, <1>11, <1>12 DEF OfDifferentRows
<1>14. QED
  BY <1>1, <1>13, Staged

LEMMA DisableMfaIsSound ==
    ASSUME IInv, NEW r \in Requests, NEW u \in Users, DisableMfa(r, u)
    PROVE  IInv'
<1> DEFINE old == db["user"][u]
           row == [old EXCEPT !.mfa = FALSE]
           e == Update("user", u, row)
           end(k) == Delete("totp", k)
           gone(k) == Delete("code", k)
           writes == {end(k) : k \in Of("totp", u)} \cup {gone(k) : k \in Of("code", u)} \cup {e}
<1>1. u \in Stored("user") /\ Stage(r, writes)
  BY DEF DisableMfa, DeleteAll
<1>2. old \in User
  BY <1>1, StoredUser
<1>3. /\ row \in User /\ row.org = old.org /\ row.email = old.email /\ row.resets = old.resets /\ row.mfa = FALSE
      /\ IsLockedForCause(old) => IsLockedForCause(row)
  BY <1>2 DEF User, IsLockedForCause
<1> HIDE DEF row, old
<1>4. e.table = "user" /\ e.key = u /\ e.old = old /\ e.new = row
  BY DEF Update, old
<1> HIDE DEF writes
<1>5. ASSUME NEW k \in Of("code", u) PROVE Fits(r, gone(k), writes) /\ gone(k).table = "code" /\ gone(k).key = k
  <2>1. k \in Stored("code")
    BY DEF Of
  <2>2. QED
    BY <2>1, DeletedCodeFits
<1>6. ASSUME NEW k \in Of("totp", u)
      PROVE  /\ end(k).table = "totp" /\ end(k).key = k /\ end(k).old # None /\ end(k).new = None
             /\ end(k).old.user_id = u /\ IsChange(end(k), Schema) /\ Reads(end(k)) /\ Touched(end(k)) \cap Fixed = {}
  <2>1. k \in Stored("totp") /\ db["totp"][k].user_id = u
    BY DEF Of
  <2>2. QED
    BY <2>1, DeletedRow, IsTyped
<1> HIDE DEF e, end, gone
<1>7. writes = {end(k) : k \in Of("totp", u)} \cup {gone(k) : k \in Of("code", u)} \cup {e}
  BY DEF writes
<1>8. MarkIsJustified(e, writes, {}) /\ ResetIsJustified(e, writes, {})
  <2>1. \A k \in Of("totp", u) : \E d \in writes : Removes(d, "totp", k)
    BY <1>6, <1>7 DEF Removes
  <2>2. QED
    BY <1>3, <1>4, <2>1 DEF MarkIsJustified, ResetIsJustified
<1>9. Fits(r, e, writes) /\ Rewrites(e, "user", u)
  BY <1>1, <1>3, <1>8, UserFits DEF e, old, Rewrites
<1>10. ASSUME NEW k \in Of("totp", u) PROVE Fits(r, end(k), writes)
  <2>1. FactorIsJustified(end(k), writes)
    BY <1>3, <1>4, <1>6, <1>7, <1>9 DEF FactorIsJustified
  <2>2. QED
    BY <1>6, <2>1 DEF Fits, IsJustified
<1>11. \A d \in writes : Fits(r, d, writes)
  BY <1>5, <1>7, <1>9, <1>10
<1>12. OfDifferentRows(writes)
  <2>1. \A k \in Of("totp", u) : end(k).table = "totp" /\ end(k).key = k
    BY <1>6
  <2>2. \A k \in Of("code", u) : gone(k).table = "code" /\ gone(k).key = k
    BY <1>5
  <2>3. \A d \in writes : (d.table = "totp" /\ d = end(d.key)) \/ (d.table = "code" /\ d = gone(d.key)) \/ (d.table = "user" /\ d = e)
    <3>1. ASSUME NEW d \in writes, d # e
          PROVE  (\E k \in Of("totp", u) : d = end(k)) \/ (\E k \in Of("code", u) : d = gone(k))
      BY <1>7, <3>1
    <3>2. QED
      BY <1>4, <2>1, <2>2, <3>1
  <2>4. QED
    BY <2>3 DEF OfDifferentRows
<1>13. QED
  BY <1>1, <1>11, <1>12, Staged DEF writes

(* A challenge that is met, and the session that is issued for it.         *)
LEMMA VerifyTotpIsSound ==
    ASSUME IInv, NEW r \in Requests, NEW u \in Users, VerifyTotp(r, u)
    PROVE  IInv'
<1> DEFINE w == [kind |-> "challenge", user |-> u]
           q == req'[r]
<1>1. req[r].pc = "new" /\ u \in Stored("user") /\ req' = [req EXCEPT ![r].pc = "walk", ![r].walk = w]
      /\ UNCHANGED <<db, raced>>
  BY DEF VerifyTotp
<1>2. w \in Errand /\ w.kind = "challenge" /\ w.user = u
  BY DEF Errand
<1> HIDE DEF w
<1>3. Only(r) /\ DOMAIN q = {"pc", "writes", "since", "walk"} /\ q.pc = "walk" /\ q.writes = {} /\ q.since = {}
      /\ q.walk = w
  BY <1>1, NewRequest DEF Only
<1>4. w # None
  BY <1>2, NoneIsNoRow
<1> HIDE DEF q
<1>5. RequestIsJustified(q) /\ AreChanges(q.writes, Schema) /\ KeysFit(r, q.writes)
  BY <1>1, <1>2, <1>3 DEF RequestIsJustified, WalkIsSound, AreChanges, KeysFit
<1>6. QED
  BY <1>3, <1>4, <1>5, OneRequest DEF q

LEMMA VerifyCodeIsSound ==
    ASSUME IInv, NEW r \in Requests, NEW k \in Keys, VerifyCode(r, k)
    PROVE  IInv'
<1> DEFINE old == db["code"][k]
           row == [old EXCEPT !.used = TRUE]
           c == Update("code", k, row)
           writes == {c}
           w == [kind |-> "challenge", user |-> old.user_id]
<1>1. /\ req[r].pc = "new" /\ k \in Stored("code") /\ UNCHANGED <<db, raced>>
      /\ req' = [req EXCEPT ![r].pc = "staged", ![r].writes = writes, ![r].walk = w]
  BY DEF VerifyCode
<1>2. old.user_id \in Stored("user") /\ old.user_id \in Users
  BY <1>1, HasItsUser, StoredUser
<1>3. w \in Errand /\ w.kind = "challenge" /\ w.user = old.user_id
  BY <1>2 DEF Errand
<1> HIDE DEF w
<1>4. "code" \in DOMAIN Schema /\ Schema["code"].rows = RecoveryCode /\ old \in RecoveryCode
  BY <1>1, Typed, IsTyped, SchemaTables DEF IsTableOf
<1>5. row \in RecoveryCode /\ \A f \in (Fixed \cup {"id"}) \cap DOMAIN row : row[f] = old[f]
  BY <1>4 DEF RecoveryCode, Fixed
<1> HIDE DEF row
<1>6. c.table = "code" /\ c.old # None /\ IsChange(c, Schema) /\ Reads(c) /\ Touched(c) \cap Fixed = {}
  BY <1>1, <1>4, <1>5, UpdatedRow, IsTyped
<1> HIDE DEF c, old
<1>7. Fits(r, c, writes)
  BY <1>6, PlainFits
<1>8. OfDifferentRows(writes) /\ \A d \in writes : Fits(r, d, writes)
  BY <1>7 DEF OfDifferentRows
<1>9. QED
  BY <1>1, <1>2, <1>3, <1>8, StagedWithErrand

LEMMA CompleteChallengeIsSound ==
    ASSUME IInv, NEW r \in Requests, CompleteChallenge(r)
    PROVE  IInv'
<1> DEFINE u == req[r].walk.user
           c == Insert("session", r, NewSession(u, None))
           writes == {c}
           q == [Fresh EXCEPT !.pc = "staged", !.writes = writes]
<1>1. req[r].pc = "walk" /\ req[r].walk.kind = "challenge" /\ req' = [req EXCEPT ![r] = q] /\ UNCHANGED <<db, raced>>
  BY DEF CompleteChallenge
<1>2. u \in Stored("user")
  BY <1>1 DEF IInv, RequestsAreJustified, RequestIsJustified, WalkIsSound
<1>3. \A d \in writes : Inserts(d, "session") => d = c
  OBVIOUS
<1>4. Fits(r, c, writes)
  BY <1>2, <1>3, IssuedFits
<1> HIDE DEF c, u
<1>5. OfDifferentRows(writes) /\ \A d \in writes : Fits(r, d, writes)
  BY <1>4 DEF OfDifferentRows
<1> HIDE DEF writes
<1>6. DOMAIN req = Requests
  BY DEF IInv, Shared, RequestsTyped
<1>7. Only(r) /\ req'[r] = q
  BY <1>1, <1>6 DEF Only
<1>8. q.pc = "staged" /\ q.since = {} /\ DOMAIN q = {"pc", "writes", "since", "walk"} /\ q.writes = writes /\ q.walk = None
  BY DEF Fresh
<1> HIDE DEF q
<1>9. WalkIsSound(q)
  BY <1>8 DEF WalkIsSound
<1>10. QED
  BY <1>5, <1>7, <1>8, <1>9, Staging

LEMMA MfaRoutesAreSound ==
    ASSUME IInv, NEW r \in Requests, MfaRoutes(r)
    PROVE  IInv'
  BY StartTotpIsSound, RegenerateCodesIsSound, DisableMfaIsSound, VerifyTotpIsSound, ConfirmTotpIsSound,
     VerifyCodeIsSound, CompleteChallengeIsSound DEF MfaRoutes

-----------------------------------------------------------------------------
(* The routes of organizations and of who is in them.                      *)

LEMMA OneWrite ==
    ASSUME IInv, NEW r \in Requests, NEW c, NEW writes, writes = {c}, Stage(r, writes), Fits(r, c, writes)
    PROVE  IInv'
<1>1. OfDifferentRows(writes) /\ \A e \in writes : Fits(r, e, writes)
  BY DEF OfDifferentRows
<1>2. QED
  BY <1>1, Staged

LEMMA PlainSaved ==
    ASSUME IInv, NEW r, NEW table \in {"organization", "team_member"}, NEW k \in Stored(table),
           NEW row \in Schema[table].rows, "id" \in DOMAIN row => row["id"] = db[table][k]["id"],
           NEW c, c = Update(table, k, row), NEW writes
    PROVE  Fits(r, c, writes) /\ c.table = table
<1>1. table \in DOMAIN Schema
  BY SchemaTables
<1>2. \A f \in (Fixed \cup {"id"}) \cap DOMAIN row : row[f] = db[table][k][f]
  <2>1. DOMAIN row \cap Fixed = {}
    <3>1. \A org \in Organization : DOMAIN org \cap Fixed = {}
      BY DEF Organization, Fixed
    <3>2. \A mem \in TeamMembership : DOMAIN mem \cap Fixed = {}
      BY DEF TeamMembership, Fixed
    <3>3. QED
      BY <3>1, <3>2, SchemaTables
  <2>2. QED
    BY <2>1
<1>3. c.table = table /\ c.old # None /\ IsChange(c, Schema) /\ Reads(c) /\ Touched(c) \cap Fixed = {}
  BY <1>1, <1>2, UpdatedRow, IsTyped
<1>4. QED
  BY <1>3, PlainFits

LEMMA StoredOrganization ==
    ASSUME IInv, NEW o \in Stored("organization")
    PROVE  o \in Orgs /\ db["organization"][o] \in Organization
  BY Typed, IsTyped DEF IsTableOf

LEMMA SaveOrganizationFits ==
    ASSUME IInv, NEW r, NEW o \in Stored("organization"), NEW row \in Organization,
           NEW c, c = Update("organization", o, row), NEW writes
    PROVE  Fits(r, c, writes) /\ c.table = "organization"
<1>1. row \in Schema["organization"].rows /\ "id" \notin DOMAIN row
  BY SchemaTables DEF Organization
<1>2. QED
  BY <1>1, PlainSaved

LEMMA GivenRoleFits ==
    ASSUME IInv, NEW r \in Requests, NEW u \in Users, NEW x \in Roles,
           NEW c, c = Insert("user_role", <<u, x>>, [id |-> r]), NEW writes
    PROVE  Fits(r, c, writes) /\ c.table = "user_role" /\ c.key = <<u, x>>
<1> DEFINE row == [id |-> r]
           k == <<u, x>>
<1>1. "user_role" \in DOMAIN Schema /\ Schema["user_role"].rows = UserRole /\ Schema["user_role"].keys = Users \X Roles
  BY SchemaTables
<1>2. row \in UserRole /\ k \in Users \X Roles
  BY DEF UserRole, Ids
<1> HIDE DEF row, k
<1>3. c = Insert("user_role", k, row)
  BY DEF row, k
<1>4. c.table = "user_role" /\ c.key = k /\ IsChange(c, Schema) /\ Reads(c) /\ Touched(c) \cap Fixed = {}
  BY <1>1, <1>2, <1>3, InsertedRow, IsTyped
<1>5. QED
  BY <1>4, PlainFits DEF k

LEMMA AsOwnerFits ==
    ASSUME IInv, NEW r \in Requests, NEW u \in Users, NEW writes
    PROVE  \A c \in AsOwner(r, u) :
              Fits(r, c, writes) /\ c.table = "user_role" /\ c = Insert("user_role", <<u, OwnerRole>>, [id |-> r])
<1>1. CASE OwnerRole \in Stored("role")
  <2>1. OwnerRole \in Roles
    BY <1>1, Typed, IsTyped DEF IsTableOf
  <2>2. QED
    BY <2>1, GivenRoleFits DEF AsOwner
<1>2. CASE OwnerRole \notin Stored("role")
  BY <1>2 DEF AsOwner
<1>3. QED
  BY <1>1, <1>2

LEMMA TransferIsSound ==
    ASSUME IInv, NEW r \in Requests, NEW o \in Orgs, NEW u \in Users, TransferOwnership(r, o, u)
    PROVE  IInv'
<1> DEFINE old == db["organization"][o]
           row == [old EXCEPT !.owner = u]
           c == Update("organization", o, row)
           writes == {c} \cup AsOwner(r, u)
<1>1. o \in Stored("organization") /\ Stage(r, writes)
  BY DEF TransferOwnership
<1>2. row \in Organization
  BY <1>1, StoredOrganization DEF Organization
<1> HIDE DEF row
<1>3. Fits(r, c, writes) /\ c.table = "organization"
  BY <1>1, <1>2, SaveOrganizationFits
<1>4. \A d \in AsOwner(r, u) : Fits(r, d, writes) /\ d.table = "user_role" /\ d = Insert("user_role", <<u, OwnerRole>>, [id |-> r])
  BY AsOwnerFits
<1> DEFINE e == Insert("user_role", <<u, OwnerRole>>, [id |-> r])
<1> HIDE DEF c, e
<1>5. \A d \in writes : (d = c \/ (d = e /\ d.table = "user_role")) /\ Fits(r, d, writes)
  BY <1>3, <1>4 DEF e
<1> HIDE DEF writes
<1>6. OfDifferentRows(writes)
  BY <1>3, <1>5 DEF OfDifferentRows
<1>7. QED
  BY <1>1, <1>5, <1>6, Staged

LEMMA SaveOrganizationIsSound ==
    ASSUME IInv, NEW r \in Requests, NEW o \in Stored("organization"), NEW row \in Organization,
           Save(r, "organization", o, row)
    PROVE  IInv'
<1> DEFINE c == Update("organization", o, row)
<1>1. Stage(r, {c})
  BY DEF Save
<1>2. Fits(r, c, {c})
  BY SaveOrganizationFits
<1>3. QED
  BY <1>1, <1>2, OneWrite

LEMMA OrganizationRoutesAreSound ==
    ASSUME IInv, NEW r \in Requests, OrganizationRoutes(r)
    PROVE  IInv'
<1>1. PICK o \in Orgs :
         \/ \E slug \in Slugs : UpdateOrganization(r, o, slug)
         \/ \E u \in Users : TransferOwnership(r, o, u)
         \/ UpdateOrganizationSettings(r, o) \/ SuspendOrganization(r, o) \/ ReactivateOrganization(r, o)
  BY DEF OrganizationRoutes
<1> DEFINE old == db["organization"][o]
<1>2. ASSUME NEW slug \in Slugs, UpdateOrganization(r, o, slug) PROVE IInv'
  <2>1. o \in Stored("organization") /\ Save(r, "organization", o, [old EXCEPT !.slug = slug])
    BY <1>2 DEF UpdateOrganization
  <2>2. [old EXCEPT !.slug = slug] \in Organization
    BY <2>1, StoredOrganization DEF Organization
  <2>3. QED
    BY <2>1, <2>2, SaveOrganizationIsSound
<1>3. ASSUME UpdateOrganizationSettings(r, o) PROVE IInv'
  BY <1>3, StoredOrganization, SaveOrganizationIsSound DEF UpdateOrganizationSettings
<1>4. ASSUME NEW status \in OrgStatuses, SetOrganizationStatus(r, o, status) PROVE IInv'
  <2>1. o \in Stored("organization") /\ Save(r, "organization", o, [old EXCEPT !.org_status = status])
    BY <1>4 DEF SetOrganizationStatus
  <2>2. [old EXCEPT !.org_status = status] \in Organization
    BY <2>1, StoredOrganization DEF Organization
  <2>3. QED
    BY <2>1, <2>2, SaveOrganizationIsSound
<1>5. QED
  BY <1>1, <1>2, <1>3, <1>4, TransferIsSound DEF SuspendOrganization, ReactivateOrganization, OrgStatuses

LEMMA RegisterOrganizationIsSound ==
    ASSUME IInv, NEW r \in Requests, NEW o \in Orgs, NEW slug \in Slugs, NEW u \in Users, NEW em \in Emails,
           RegisterOrganization(r, o, slug, u, em)
    PROVE  IInv'
<1> DEFINE row == NewOrganization(slug, u)
           c == Insert("organization", o, row)
           d == Insert("user", u, NewUser(o, em))
           e == Insert("user_role", <<u, OwnerRole>>, [id |-> r])
           writes == {c, d} \cup AsOwner(r, u)
<1>1. StageWelcomed(r, writes, u)
  BY DEF RegisterOrganization
<1>2. "organization" \in DOMAIN Schema /\ o \in Schema["organization"].keys /\ row \in Schema["organization"].rows
  BY SchemaTables DEF NewOrganization, Organization, OrgStatuses
<1> HIDE DEF row
<1>3. c.table = "organization" /\ IsChange(c, Schema) /\ Reads(c) /\ Touched(c) \cap Fixed = {}
  BY <1>2, InsertedRow, IsTyped
<1>4. Fits(r, c, writes)
  BY <1>3, PlainFits
<1>5. Fits(r, d, writes) /\ Inserts(d, "user") /\ d.key = u
  BY InsertedUserFits
<1>6. \A f \in AsOwner(r, u) : Fits(r, f, writes) /\ f.table = "user_role" /\ f = e
  BY AsOwnerFits
<1> HIDE DEF c, d, e
<1>7. \A f \in writes : Fits(r, f, writes)
  BY <1>4, <1>5, <1>6
<1>8. \A f \in writes : f \in {c, d} \/ (f.table = "user_role" /\ f = e)
  BY <1>6
<1> HIDE DEF writes
<1>9. OfDifferentRows(writes) /\ \A f \in writes : f.table # "verify_token"
  BY <1>3, <1>5, <1>8 DEF OfDifferentRows, Inserts
<1>10. d \in writes
  BY DEF writes
<1>11. QED
  BY <1>1, <1>5, <1>7, <1>9, <1>10, WelcomeFits

-----------------------------------------------------------------------------
(* The routes of invitations.                                              *)

LEMMA AnsweredFits ==
    ASSUME IInv, NEW r, NEW i \in Stored("invitation"), NEW status \in {"pending", "accepted", "revoked"}, NEW writes,
           NEW inv, inv = db["invitation"][i],
           status = "accepted" => \E e \in writes : Inserts(e, "user") /\ e.new.org = inv.org /\ e.new.email = inv.email,
           NEW c, c = Answered(i, status)
    PROVE  Fits(r, c, writes) /\ Rewrites(c, "invitation", i)
<1> DEFINE row == [inv EXCEPT !.invitation = status]
<1>1. "invitation" \in DOMAIN Schema /\ Schema["invitation"].rows = Invitation /\ inv \in Invitation
  BY Typed, IsTyped, SchemaTables, NoneIsNoRow DEF IsTableOf
<1>2. /\ row \in Invitation /\ row.invitation = status /\ row.org = inv.org /\ row.email = inv.email
      /\ \A f \in (Fixed \cup {"id"}) \cap DOMAIN row : row[f] = inv[f]
  BY <1>1 DEF Invitation, Fixed
<1>3. c = Update("invitation", i, row)
  BY DEF Answered
<1> HIDE DEF row
<1>4. /\ c.table = "invitation" /\ c.key = i /\ c.new = row /\ c.old # None /\ c.new # None
      /\ IsChange(c, Schema) /\ Reads(c) /\ Touched(c) \cap Fixed = {}
  BY <1>1, <1>2, <1>3, UpdatedRow, IsTyped
<1>5. InvitationIsJustified(c, writes)
  BY <1>2, <1>4 DEF InvitationIsJustified
<1>6. QED
  BY <1>4, <1>5 DEF Fits, IsJustified, Rewrites

LEMMA InviteIsSound ==
    ASSUME IInv, NEW r \in Requests, NEW o \in Orgs, NEW em \in Emails, NEW x \in Roles, InviteMember(r, o, em, x)
    PROVE  IInv'
<1> DEFINE gone(i) == Answered(i, "revoked")
           row == [org |-> o, email |-> em, role_id |-> x, invitation |-> "pending"]
           c == Insert("invitation", r, row)
           writes == {gone(i) : i \in PendingFor(o, em)} \cup {c}
<1>1. Stage(r, writes) /\ req[r].pc = "new"
  BY DEF InviteMember, Stage, StageMarked
<1>2. "invitation" \in DOMAIN Schema /\ r \in Schema["invitation"].keys /\ Schema["invitation"].rows = Invitation
  BY SchemaTables, KeyedTables
<1>3. row \in Invitation /\ row.invitation = "pending"
  BY DEF Invitation
<1> HIDE DEF row
<1>4. c.table = "invitation" /\ c.key = r /\ c.old = None /\ c.new = row /\ IsChange(c, Schema) /\ Reads(c)
      /\ Touched(c) \cap Fixed = {}
  BY <1>2, <1>3, InsertedRow, IsTyped
<1> HIDE DEF c
<1>5. InvitationIsJustified(c, writes)
  BY <1>3, <1>4 DEF InvitationIsJustified
<1>6. Fits(r, c, writes)
  BY <1>4, <1>5 DEF Fits, IsJustified, Volatiles
<1>7. ASSUME NEW i \in PendingFor(o, em) PROVE Fits(r, gone(i), writes) /\ gone(i).key = i /\ i # r
  <2>1. i \in Stored("invitation")
    BY DEF PendingFor
  <2>2. QED
    BY <1>1, <2>1, AnsweredFits, NewKey DEF Keyed, Rewrites
<1> HIDE DEF gone
<1>8. \A d \in writes : Fits(r, d, writes)
  BY <1>6, <1>7
<1>9. \A d \in writes : d = c \/ (d.key # r /\ d = gone(d.key))
  BY <1>7
<1> HIDE DEF writes
<1>10. OfDifferentRows(writes)
  BY <1>4, <1>9 DEF OfDifferentRows
<1>11. QED
  BY <1>1, <1>8, <1>10, Staged

LEMMA AcceptIsSound ==
    ASSUME IInv, NEW r \in Requests, NEW i \in Keys, NEW u \in Users, AcceptInvitation(r, i, u)
    PROVE  IInv'
<1> DEFINE inv == db["invitation"][i]
           row == [NewUser(inv.org, inv.email) EXCEPT !.status = "active"]
           c == Insert("user", u, row)
           d == Insert("user_role", <<u, inv.role_id>>, [id |-> r])
           e == Answered(i, "accepted")
           writes == {c, d, e}
<1>1. i \in Stored("invitation") /\ StageWelcomed(r, writes, u)
  BY DEF AcceptInvitation
<1>2. inv.org \in Orgs /\ inv.email \in Emails /\ inv.role_id \in Roles
  BY <1>1, Typed, IsTyped DEF IsTableOf, Invitation
<1>3. Fits(r, c, writes) /\ Inserts(c, "user") /\ c.key = u /\ c.new.org = inv.org /\ c.new.email = inv.email
  BY <1>2, InsertedUserFits
<1>4. Fits(r, d, writes) /\ d.table = "user_role"
  BY <1>2, GivenRoleFits
<1> HIDE DEF c, d
<1>5. \E f \in writes : Inserts(f, "user") /\ f.new.org = inv.org /\ f.new.email = inv.email
  BY <1>3
<1>6. Fits(r, e, writes) /\ Rewrites(e, "invitation", i)
  BY <1>1, <1>5, AnsweredFits
<1> HIDE DEF e
<1>7. OfDifferentRows(writes) /\ \A f \in writes : f.table # "verify_token"
  BY <1>3, <1>4, <1>6 DEF OfDifferentRows, Inserts, Rewrites
<1>8. QED
  BY <1>1, <1>3, <1>4, <1>6, <1>7, WelcomeFits

LEMMA InvitationRoutesAreSound ==
    ASSUME IInv, NEW r \in Requests, InvitationRoutes(r)
    PROVE  IInv'
<1>1. ASSUME NEW i \in Keys, RevokeInvitation(r, i) PROVE IInv'
  <2> DEFINE c == Answered(i, "revoked")
  <2>1. i \in Stored("invitation") /\ Stage(r, {c})
    BY <1>1 DEF RevokeInvitation
  <2>2. Fits(r, c, {c})
    BY <2>1, AnsweredFits
  <2>3. QED
    BY <2>1, <2>2, OneWrite
<1>2. QED
  BY <1>1, InviteIsSound, AcceptIsSound DEF InvitationRoutes

-----------------------------------------------------------------------------
(* The routes of teams and roles.                                          *)

LEMMA StoredNode ==
    ASSUME IInv
    PROVE  /\ \A t \in Stored("team") : t \in Teams /\ db["team"][t] \in Team
           /\ \A x \in Stored("role") : x \in Roles /\ db["role"][x] \in Role
           /\ \A t \in Teams : LiveTeam(t) => t \in Stored("team")
           /\ \A t \in Stored("team") : db["team"][t].parent_team \in Stored("team") \cup {None}
           /\ \A x \in Stored("role") : db["role"][x].parent_role \in Stored("role") \cup {None}
<1>1. OrganizationConstraints(db)
  BY DEF IInv, IdentityIsSound, Constraints
<1>2. IsTableOf("team", Teams, Team) /\ IsTableOf("role", Roles, Role)
  BY Typed, IsTyped
<1>3. QED
  BY <1>1, <1>2 DEF OrganizationConstraints, IsTableOf, LiveTeam, Stored

LEMMA NodeSaved ==
    ASSUME IInv, NEW r \in Requests, NEW table \in {"team", "role"}, NEW k \in Stored(table),
           NEW row \in Schema[table].rows, NEW old, old = db[table][k],
           \A f \in (Fixed \cup {"id"}) \cap DOMAIN row : row[f] = old[f],
           row[Column(table)] \in {old[Column(table)], None}, table = "team" => (old.deleted => row.deleted),
           Save(r, table, k, row)
    PROVE  IInv'
<1> DEFINE c == Update(table, k, row)
<1>1. Stage(r, {c})
  BY DEF Save
<1>2. table \in DOMAIN Schema
  BY SchemaTables
<1>3. /\ c.table = table /\ c.key = k /\ c.old = old /\ c.new = row /\ c.old # None /\ c.new # None
      /\ IsChange(c, Schema) /\ Reads(c) /\ Touched(c) \cap Fixed = {}
  BY <1>2, UpdatedRow, IsTyped
<1> HIDE DEF c
<1>4. NodeIsJustified(c, {c}, {})
  BY <1>3 DEF NodeIsJustified
<1>5. Fits(r, c, {c})
  BY <1>3, <1>4 DEF Fits, IsJustified, Keyed
<1>6. QED
  BY <1>1, <1>5, OneWrite

LEMMA NodeInserted ==
    ASSUME IInv, NEW r \in Requests, NEW table \in {"team", "role"}, NEW k \in Schema[table].keys,
           NEW row \in Schema[table].rows,
           row[Column(table)] # None => table = "team" /\ row[Column(table)] \in Stored("team"),
           Stage(r, {Insert(table, k, row)})
    PROVE  IInv'
<1> DEFINE c == Insert(table, k, row)
<1>1. table \in DOMAIN Schema
  BY SchemaTables
<1>2. /\ c.table = table /\ c.key = k /\ c.old = None /\ c.new = row /\ c.new # None
      /\ IsChange(c, Schema) /\ Reads(c) /\ Touched(c) \cap Fixed = {}
  BY <1>1, InsertedRow, IsTyped
<1>3. Stage(r, {c})
  OBVIOUS
<1> HIDE DEF c
<1>4. NodeIsJustified(c, {c}, {})
  BY <1>2 DEF NodeIsJustified
<1>5. Fits(r, c, {c})
  BY <1>2, <1>4 DEF Fits, IsJustified, Keyed
<1>6. QED
  BY <1>3, <1>5, OneWrite

(* A team keeps its organization and what is deleted, a role its id.       *)
LEMMA SaveTeamIsSound ==
    ASSUME IInv, NEW r \in Requests, NEW t \in Teams, LiveTeam(t), NEW row \in Team, NEW old, old = db["team"][t],
           row.org = old.org, row.parent_team \in {old.parent_team, None}, Save(r, "team", t, row)
    PROVE  IInv'
<1>1. t \in Stored("team") /\ ~old.deleted /\ row \in Schema["team"].rows
  BY StoredNode, SchemaTables DEF LiveTeam
<1>2. \A f \in (Fixed \cup {"id"}) \cap DOMAIN row : row[f] = old[f]
  BY DEF Team, Fixed
<1>3. row[Column("team")] \in {old[Column("team")], None}
  BY DEF Column
<1>4. QED
  BY <1>1, <1>2, <1>3, NodeSaved

LEMMA SaveRoleIsSound ==
    ASSUME IInv, NEW r \in Requests, NEW x \in Stored("role"), NEW row \in Role, NEW old, old = db["role"][x],
           row.org = old.org, row.id = old.id, row.parent_role \in {old.parent_role, None}, Save(r, "role", x, row)
    PROVE  IInv'
<1>1. row \in Schema["role"].rows
  BY SchemaTables
<1>2. \A f \in (Fixed \cup {"id"}) \cap DOMAIN row : row[f] = old[f]
  BY DEF Role, Fixed
<1>3. row[Column("role")] \in {old[Column("role")], None}
  BY DEF Column
<1>4. QED
  BY <1>1, <1>2, <1>3, NodeSaved

LEMMA MemberRoutesAreSound ==
    ASSUME IInv, NEW r \in Requests, NEW t \in Teams, NEW u \in Users, NEW role \in {"lead", "member"},
           AddTeamMember(r, t, u, role) \/ UpdateMemberRole(r, t, u, role) \/ RemoveTeamMember(r, t, u)
    PROVE  IInv'
<1> DEFINE k == <<t, u>>
<1>0. "team_member" \in DOMAIN Schema /\ k \in Schema["team_member"].keys /\ Schema["team_member"].rows = TeamMembership
  BY SchemaTables
<1>1. ASSUME AddTeamMember(r, t, u, role) PROVE IInv'
  <2> DEFINE row == [team_role |-> role, id |-> r]
             c == Insert("team_member", k, row)
  <2>1. Stage(r, {c})
    BY <1>1 DEF AddTeamMember
  <2>2. row \in TeamMembership
    BY DEF TeamMembership, Ids
  <2> HIDE DEF row
  <2>3. c.table = "team_member" /\ IsChange(c, Schema) /\ Reads(c) /\ Touched(c) \cap Fixed = {}
    BY <1>0, <2>2, InsertedRow, IsTyped
  <2>4. Fits(r, c, {c})
    BY <2>3, PlainFits
  <2>5. QED
    BY <2>1, <2>4, OneWrite
<1>2. ASSUME UpdateMemberRole(r, t, u, role) PROVE IInv'
  <2> DEFINE old == db["team_member"][k]
             row == [old EXCEPT !.team_role = role]
             c == Update("team_member", k, row)
  <2>1. k \in Stored("team_member") /\ Stage(r, {c})
    BY <1>2 DEF UpdateMemberRole, Save
  <2>2. old \in TeamMembership
    BY <2>1, Typed, IsTyped DEF IsTableOf
  <2>3. row \in Schema["team_member"].rows /\ ("id" \in DOMAIN row => row["id"] = old["id"])
    BY <1>0, <2>2 DEF TeamMembership
  <2> HIDE DEF row
  <2>4. Fits(r, c, {c})
    BY <2>1, <2>3, PlainSaved
  <2>5. QED
    BY <2>1, <2>4, OneWrite
<1>3. ASSUME RemoveTeamMember(r, t, u) PROVE IInv'
  <2> DEFINE c == Delete("team_member", k)
  <2>1. k \in Stored("team_member") /\ Stage(r, {c})
    BY <1>3 DEF RemoveTeamMember
  <2>2. c.table = "team_member" /\ c.old # None /\ IsChange(c, Schema) /\ Reads(c) /\ Touched(c) \cap Fixed = {}
    BY <2>1, DeletedRow, IsTyped
  <2>3. Fits(r, c, {c})
    BY <2>2, PlainFits
  <2>4. QED
    BY <2>1, <2>3, OneWrite
<1>4. QED
  BY <1>1, <1>2, <1>3

(* What a walk holds when it starts.                                       *)
LEMMA StartWalkIsSound ==
    ASSUME IInv, NEW r \in Requests, NEW table \in {"team", "role"}, NEW k \in Stored(table),
           NEW parent, table = "team" => parent \in Stored("team"), table = "role" => parent \in Roles,
           StartWalk(r, table, k, parent)
    PROVE  IInv'
<1> DEFINE w == [kind |-> "parent", table |-> table, node |-> k, row |-> db[table][k],
                 parent |-> parent, cursor |-> parent, seen |-> <<>>]
           q == req'[r]
<1>1. req[r].pc = "new" /\ req' = [req EXCEPT ![r].pc = "walk", ![r].walk = w] /\ UNCHANGED <<db, raced>>
  BY DEF StartWalk
<1>2. Only(r) /\ DOMAIN q = {"pc", "writes", "since", "walk"} /\ q.pc = "walk" /\ q.writes = {} /\ q.since = {}
      /\ q.walk = w
  BY <1>1, NewRequest DEF Only
<1>3. table \in DOMAIN Schema /\ db[table][k] \in Schema[table].rows /\ db[table][k] # None
      /\ db[table][k] \in Team \cup Role
  BY StoredNode, NoneIsNoRow, SchemaTables
<1>4. w \in Climb(table)
  <2> DEFINE Nodes == IF table = "team" THEN Teams ELSE Roles
             none == <<>>
  <2>1. k \in Nodes /\ parent \in Nodes
    BY StoredNode
  <2>2. none \in [{} -> Nodes \cup {None}]
    OBVIOUS
  <2>3. none \in UNION {[V -> Nodes \cup {None}] : V \in SUBSET Nodes}
    BY <2>2
  <2> HIDE DEF none
  <2>4. [kind |-> "parent", table |-> table, node |-> k, row |-> db[table][k],
         parent |-> parent, cursor |-> parent, seen |-> none] \in Climb(table)
    BY <1>3, <2>1, <2>3 DEF Climb
  <2>5. QED
    BY <2>4 DEF none
<1>5. /\ w.kind = "parent" /\ w.table = table /\ w.node = k /\ w.row = db[table][k] /\ w.parent = parent
      /\ w.cursor = parent /\ DOMAIN w.seen = {}
  OBVIOUS
<1>6. w # None
  BY <1>4, NoneIsNoRow
<1> HIDE DEF w
<1>7. WalkIsCurrent(w)
  <2>1. Undisturbed({Column(table)}, {Column(table)}) => IsHierarchy(table)
    BY DEF IInv, HierarchiesHaveNoCycle
  <2>2. QED
    BY <1>5, <2>1 DEF WalkIsCurrent, IsHierarchy, Remembers
<1>8. IsCurrent(MoveOf(w), {} \cup Drift, Schema)
  BY <1>3, <1>5 DEF MoveOf, IsCurrent, SameRow
<1>9. ClimbIsSound(w, {})
  BY <1>3, <1>4, <1>5, <1>7, <1>8 DEF ClimbIsSound
<1> HIDE DEF q
<1>10. RequestIsJustified(q) /\ AreChanges(q.writes, Schema) /\ KeysFit(r, q.writes)
  BY <1>2, <1>5, <1>9 DEF RequestIsJustified, WalkIsSound, AreChanges, KeysFit
<1>11. QED
  BY <1>2, <1>6, <1>10, OneRequest DEF q

LEMMA TeamRoutesAreSound ==
    ASSUME IInv, NEW r \in Requests, TeamRoutes(r)
    PROVE  IInv'
<1>1. PICK t \in Teams :
         \/ \E o \in Stored("organization"), parent \in Teams \cup {None} : CreateTeam(r, t, o, parent)
         \/ UpdateTeam(r, t) \/ DeleteTeam(r, t)
         \/ \E parent \in Teams \cup {None} : SetTeamParent(r, t, parent)
         \/ \E u \in Users :
               \/ \E role \in {"lead", "member"} : AddTeamMember(r, t, u, role) \/ UpdateMemberRole(r, t, u, role)
               \/ RemoveTeamMember(r, t, u)
  BY DEF TeamRoutes
<1> DEFINE old == db["team"][t]
<1>2. LiveTeam(t) => t \in Stored("team") /\ old \in Team
  BY StoredNode
<1>3. ASSUME NEW o \in Stored("organization"), NEW parent \in Teams \cup {None}, CreateTeam(r, t, o, parent) PROVE IInv'
  <2> DEFINE row == NewTeam(o, parent)
  <2>1. Stage(r, {Insert("team", t, row)}) /\ (parent # None => parent \in Stored("team"))
    BY <1>3, StoredNode DEF CreateTeam, TeamOf
  <2>2. row \in Team /\ row.parent_team = parent
    BY StoredOrganization DEF NewTeam, Team
  <2> HIDE DEF row
  <2>3. /\ row \in Schema["team"].rows /\ t \in Schema["team"].keys
        /\ row[Column("team")] # None => row[Column("team")] \in Stored("team")
    BY <2>1, <2>2, SchemaTables DEF Column
  <2>4. QED
    BY <2>1, <2>3, NodeInserted
<1>4. ASSUME UpdateTeam(r, t) PROVE IInv'
  BY <1>2, <1>4, SaveTeamIsSound DEF UpdateTeam
<1>5. ASSUME DeleteTeam(r, t) PROVE IInv'
  <2> DEFINE row == [old EXCEPT !.deleted = TRUE]
  <2>1. LiveTeam(t) /\ Save(r, "team", t, row)
    BY <1>5 DEF DeleteTeam
  <2>2. row \in Team /\ row.org = old.org /\ row.parent_team = old.parent_team
    BY <1>2, <2>1 DEF Team
  <2> HIDE DEF row
  <2>3. QED
    BY <2>1, <2>2, SaveTeamIsSound
<1>6. ASSUME NEW parent \in Teams \cup {None}, SetTeamParent(r, t, parent) PROVE IInv'
  <2>1. CASE parent = None
    <3> DEFINE row == Reparented("team", old, None)
    <3>1. LiveTeam(t) /\ Save(r, "team", t, row)
      BY <1>6, <2>1 DEF SetTeamParent
    <3>2. row \in Team /\ row.org = old.org /\ row.parent_team = None
      BY <1>2, <3>1 DEF Reparented, Column, Team
    <3> HIDE DEF row
    <3>3. QED
      BY <3>1, <3>2, SaveTeamIsSound
  <2>2. CASE parent # None
    <3>1. LiveTeam(t) /\ LiveTeam(parent) /\ parent \in Teams /\ StartWalk(r, "team", t, parent)
      BY <1>6, <2>2 DEF SetTeamParent, TeamOf
    <3>2. parent \in Stored("team")
      BY <3>1, StoredNode
    <3>3. QED
      BY <1>2, <3>1, <3>2, StartWalkIsSound
  <2>3. QED
    BY <2>1, <2>2
<1>7. ASSUME NEW u \in Users, RemoveTeamMember(r, t, u) PROVE IInv'
  BY <1>7, MemberRoutesAreSound
<1>8. QED
  BY <1>1, <1>3, <1>4, <1>5, <1>6, <1>7, MemberRoutesAreSound

LEMMA RoleRoutesAreSound ==
    ASSUME IInv, NEW r \in Requests, RoleRoutes(r)
    PROVE  IInv'
<1>1. PICK x \in Roles :
         \/ \E o \in Stored("organization") : CreateCustomRole(r, x, o)
         \/ UpdateRole(r, x) \/ GrantPermission(r, x) \/ RevokePermission(r, x) \/ DeleteRole(r, x)
         \/ \E parent \in Roles \cup {None} : SetRoleParent(r, x, parent)
         \/ \E u \in Users : AssignRole(r, u, x) \/ RevokeRole(r, u, x)
  BY DEF RoleRoutes
<1> DEFINE old == db["role"][x]
<1>2. IsCustom(x) => x \in Stored("role") /\ old \in Role
  BY StoredNode DEF IsCustom
<1>3. ASSUME NEW o \in Stored("organization"), CreateCustomRole(r, x, o) PROVE IInv'
  <2> DEFINE row == NewRole(r, o)
  <2>1. Stage(r, {Insert("role", x, row)})
    BY <1>3 DEF CreateCustomRole
  <2>2. row \in Role /\ row.parent_role = None
    BY StoredOrganization DEF NewRole, Role, Ids
  <2> HIDE DEF row
  <2>3. row \in Schema["role"].rows /\ x \in Schema["role"].keys /\ row[Column("role")] = None
    BY <2>2, SchemaTables DEF Column
  <2>4. QED
    BY <2>1, <2>3, NodeInserted
<1>4. ASSUME UpdateRole(r, x) \/ GrantPermission(r, x) \/ RevokePermission(r, x) PROVE IInv'
  <2>1. IsCustom(x) /\ Save(r, "role", x, old)
    BY <1>4 DEF UpdateRole, GrantPermission, RevokePermission
  <2>2. QED
    BY <1>2, <2>1, SaveRoleIsSound
<1>5. ASSUME DeleteRole(r, x) PROVE IInv'
  <2> DEFINE c == Delete("role", x)
  <2>1. x \in Stored("role") /\ Stage(r, {c})
    BY <1>2, <1>5 DEF DeleteRole
  <2>2. c.table = "role" /\ c.old # None /\ c.new = None /\ IsChange(c, Schema) /\ Reads(c) /\ Touched(c) \cap Fixed = {}
    BY <2>1, DeletedRow, IsTyped
  <2>3. Fits(r, c, {c})
    BY <2>2 DEF Fits, IsJustified, NodeIsJustified, Keyed
  <2>4. QED
    BY <2>1, <2>3, OneWrite
<1>6. ASSUME NEW parent \in Roles \cup {None}, SetRoleParent(r, x, parent) PROVE IInv'
  <2>1. CASE parent = None
    <3> DEFINE row == Reparented("role", old, None)
    <3>1. IsCustom(x) /\ Save(r, "role", x, row)
      BY <1>6, <2>1 DEF SetRoleParent
    <3>2. row \in Role /\ row.org = old.org /\ row.id = old.id /\ row.parent_role = None
      BY <1>2, <3>1 DEF Reparented, Column, Role
    <3> HIDE DEF row
    <3>3. QED
      BY <1>2, <3>1, <3>2, SaveRoleIsSound
  <2>2. CASE parent # None
    BY <1>2, <1>6, <2>2, StartWalkIsSound DEF SetRoleParent
  <2>3. QED
    BY <2>1, <2>2
<1>7. ASSUME NEW u \in Users, AssignRole(r, u, x) PROVE IInv'
  <2> DEFINE c == Insert("user_role", <<u, x>>, [id |-> r])
  <2>1. Stage(r, {c})
    BY <1>7 DEF AssignRole
  <2>2. Fits(r, c, {c})
    BY GivenRoleFits
  <2>3. QED
    BY <2>1, <2>2, OneWrite
<1>8. ASSUME NEW u \in Users, RevokeRole(r, u, x) PROVE IInv'
  <2> DEFINE k == <<u, x>>
             c == Delete("user_role", k)
  <2>1. k \in Stored("user_role") /\ Stage(r, {c})
    BY <1>8 DEF RevokeRole
  <2>2. c.table = "user_role" /\ c.old # None /\ IsChange(c, Schema) /\ Reads(c) /\ Touched(c) \cap Fixed = {}
    BY <2>1, DeletedRow, IsTyped
  <2>3. Fits(r, c, {c})
    BY <2>2, PlainFits
  <2>4. QED
    BY <2>1, <2>3, OneWrite
<1>9. QED
  BY <1>1, <1>3, <1>4, <1>5, <1>6, <1>7, <1>8

-----------------------------------------------------------------------------
(* The walks.                                                              *)

(* A request that is on its way up.                                        *)
LEMMA Walking ==
    ASSUME IInv, NEW r \in Requests, IsWalking(r), NEW w, w = req[r].walk
    PROVE  /\ req[r].pc = "walk" /\ req[r].writes = {} /\ req[r].since \cap Fixed = {} /\ w.kind = "parent"
           /\ DOMAIN req = Requests /\ DOMAIN req[r] = {"pc", "writes", "since", "walk"}
           /\ ClimbIsSound(w, req[r].since)
  BY DEF IInv, Shared, RequestsTyped, RequestsAreJustified, RequestIsJustified, WalkIsSound, IsWalking

NodesOf(table) == IF table = "team" THEN Teams ELSE Roles

LEMMA ClimbTyped ==
    ASSUME NEW table \in {"team", "role"}, NEW w, w \in Climb(table)
    PROVE  /\ DOMAIN w = {"kind", "table", "node", "row", "parent", "cursor", "seen"}
           /\ w.kind = "parent" /\ w.table = table /\ w.node \in NodesOf(table) /\ w.row \in Team \cup Role
           /\ w.parent \in NodesOf(table) /\ w.cursor \in NodesOf(table) \cup {None}
           /\ DOMAIN w.seen \subseteq NodesOf(table) /\ w.seen \in [DOMAIN w.seen -> NodesOf(table) \cup {None}]
           /\ None \notin NodesOf(table)
<1>1. None \notin NodesOf(table)
  BY NoneIsNoRow DEF NodesOf
<1>2. PICK V \in SUBSET NodesOf(table) : w.seen \in [V -> NodesOf(table) \cup {None}]
  BY DEF Climb, NodesOf
<1>3. DOMAIN w.seen = V
  BY <1>2
<1>4. QED
  BY <1>1, <1>2, <1>3 DEF Climb, NodesOf

(* A walk that has gone on, from what it had.                              *)
GoesOn(w, next, seen) ==
    /\ next \in NodesOf(w.table) \cup {None} /\ DOMAIN seen \subseteq NodesOf(w.table)
    /\ seen \in [DOMAIN seen -> NodesOf(w.table) \cup {None}]
    /\ \A k \in DOMAIN seen : seen[k] \in DOMAIN seen \cup {next}
    /\ w.node \notin DOMAIN seen /\ w.parent \in DOMAIN seen \cup {next}

LEMMA WalksOn ==
    ASSUME IInv, NEW r \in Requests, IsWalking(r), NEW w, w = req[r].walk, NEW next, NEW seen,
           GoesOn(w, next, seen), NEW v, v = [w EXCEPT !.cursor = next, !.seen = seen],
           req' = [req EXCEPT ![r].walk = v], UNCHANGED <<db, raced>>,
           Column(w.table) \notin req[r].since => WalkIsCurrent(v)
    PROVE  IInv'
<1> DEFINE q == req'[r]
           table == w.table
<1>1. /\ req[r].pc = "walk" /\ req[r].writes = {} /\ req[r].since \cap Fixed = {} /\ w.kind = "parent"
      /\ DOMAIN req = Requests /\ DOMAIN req[r] = {"pc", "writes", "since", "walk"}
      /\ ClimbIsSound(w, req[r].since)
  BY Walking
<1>2. Only(r) /\ DOMAIN q = {"pc", "writes", "since", "walk"} /\ q.pc = "walk" /\ q.writes = {} /\ q.since = req[r].since
      /\ q.walk = v
  BY <1>1 DEF Only
<1>3. table \in {"team", "role"} /\ w \in Climb(table)
  BY <1>1 DEF ClimbIsSound
<1>4. seen \in UNION {[V -> NodesOf(table) \cup {None}] : V \in SUBSET NodesOf(table)}
  BY DEF GoesOn
<1>5. v \in Climb(table)
  BY <1>3, <1>4 DEF Climb, NodesOf, GoesOn
<1>6. /\ v.kind = "parent" /\ v.table = table /\ v.node = w.node /\ v.row = w.row /\ v.parent = w.parent
      /\ v.cursor = next /\ v.seen = seen
  BY <1>3, ClimbTyped
<1>7. v # None
  BY <1>3, <1>5, NoneIsNoRow
<1>8. MoveOf(v) = MoveOf(w)
  BY <1>6 DEF MoveOf
<1>9. ClimbIsSound(v, q.since)
  BY <1>1, <1>2, <1>5, <1>6, <1>8 DEF ClimbIsSound, GoesOn
<1> HIDE DEF q
<1>10. RequestIsJustified(q) /\ AreChanges(q.writes, Schema) /\ KeysFit(r, q.writes)
  BY <1>1, <1>2, <1>6, <1>9 DEF RequestIsJustified, WalkIsSound, AreChanges, KeysFit
<1>11. QED
  BY <1>2, <1>7, <1>10, OneRequest DEF q

LEMMA WalkUpIsSound ==
    ASSUME IInv, NEW r \in Requests, WalkUp(r)
    PROVE  IInv'
<1> DEFINE w == req[r].walk
           table == w.table
           at == w.cursor
           next == IF IsFound(table, at) THEN ParentIn(table, at) ELSE None
           V == DOMAIN w.seen \cup {at}
           seen == [k \in V |-> IF k = at THEN next ELSE w.seen[k]]
           v == [w EXCEPT !.cursor = next, !.seen = seen]
<1>1. IsWalking(r) /\ at \notin DOMAIN w.seen /\ at # w.node /\ at # None /\ UNCHANGED <<db, raced>>
  BY DEF WalkUp
<1>2. /\ DOMAIN req = Requests /\ DOMAIN req[r] = {"pc", "writes", "since", "walk"}
      /\ ClimbIsSound(w, req[r].since)
  BY <1>1, Walking
<1>3. table \in {"team", "role"} /\ w \in Climb(table)
  BY <1>2 DEF ClimbIsSound
<1>4. /\ DOMAIN w = {"kind", "table", "node", "row", "parent", "cursor", "seen"}
      /\ at \in NodesOf(table) /\ DOMAIN w.seen \subseteq NodesOf(table)
      /\ w.seen \in [DOMAIN w.seen -> NodesOf(table) \cup {None}] /\ None \notin NodesOf(table)
  BY <1>1, <1>3, ClimbTyped
<1>5. req' = [req EXCEPT ![r].walk = v]
  BY <1>2, <1>4 DEF WalkUp
<1>6. next \in NodesOf(table) \cup {None} /\ (table = "team" => next \in Stored("team") \cup {None})
      /\ (IsFound(table, at) => at \in Stored(table) /\ next = ParentIn(table, at)) /\ (~IsFound(table, at) => next = None)
  <2>1. IsFound(table, at) => at \in Stored(table)
    BY <1>3, <1>4, StoredNode DEF IsFound, NodesOf
  <2>2. CASE IsFound(table, at)
    <3>1. ParentIn(table, at) \in Stored(table) \cup {None}
      BY <1>3, <2>1, <2>2, StoredNode DEF ParentIn, Column
    <3>2. Stored(table) \subseteq NodesOf(table)
      BY <1>3, StoredNode DEF NodesOf
    <3>3. QED
      BY <2>1, <2>2, <3>1, <3>2
  <2>3. CASE ~IsFound(table, at)
    BY <2>3
  <2>4. QED
    BY <2>2, <2>3
<1> HIDE DEF next
<1>7. DOMAIN seen = V /\ V \subseteq NodesOf(table) /\ seen[at] = next /\ (\A k \in DOMAIN w.seen : seen[k] = w.seen[k])
      /\ seen \in [DOMAIN seen -> NodesOf(table) \cup {None}]
  BY <1>1, <1>4, <1>6
<1> HIDE DEF seen
<1>8. \A k \in V : seen[k] \in V \cup {next}
  BY <1>2, <1>7 DEF ClimbIsSound
<1>9. w.node \notin V /\ w.parent \in V
  BY <1>1, <1>2 DEF ClimbIsSound
<1>10. v.table = table /\ v.cursor = next /\ v.seen = seen
  BY <1>4
<1> HIDE DEF v
<1>11. ASSUME Column(table) \notin req[r].since PROVE WalkIsCurrent(v)
  <2>1. WalkIsCurrent(w)
    BY <1>2, <1>11 DEF ClimbIsSound
  <2> HIDE DEF w
  <2>2. table = "team" => V \cup {next} \subseteq Stored("team") \cup {None}
    BY <1>6, <2>1 DEF WalkIsCurrent
  <2>3. \A k \in V : IsFound(table, k) => ParentIn(table, k) \in {seen[k], None}
    BY <1>6, <1>7, <2>1 DEF WalkIsCurrent
  <2>4. \A k \in V : seen[k] # None /\ (table = "team" \/ \E x \in Stored(table) : ParentIn(table, x) = k) =>
           k \in Stored(table) /\ ParentIn(table, k) = seen[k]
    BY <1>6, <1>7, <2>1 DEF WalkIsCurrent, Remembers
  <2>5. ASSUME Undisturbed({Column(table)}, {Column(table)})
        PROVE  /\ next \notin V
               /\ \A S \in SUBSET Stored(table) :
                     (\A k \in S : (IsFound(table, k) \/ Remembers(v, k)) /\ ParentIn(table, k) \in S) => S = {}
    <3>1. \A S \in SUBSET Stored(table) :
             (\A k \in S : (IsFound(table, k) \/ Remembers(w, k)) /\ ParentIn(table, k) \in S) => S = {}
      BY <2>1, <2>5 DEF WalkIsCurrent
    <3>2. \A k : Remembers(v, k) => Remembers(w, k) \/ IsFound(table, k)
      BY <1>6, <1>7, <1>10 DEF Remembers
    <3>3. ASSUME next \in V PROVE FALSE
      <4> DEFINE S == {x \in V : x \in Stored(table) /\ ParentIn(table, x) = seen[x]}
      <4>1. next # None /\ IsFound(table, at) /\ at \in S
        BY <1>4, <1>6, <1>7, <3>3
      <4>2. \A k \in V : seen[k] \in V /\ seen[k] # None
        BY <1>4, <1>7, <1>8, <3>3
      <4>3. ASSUME NEW x \in S PROVE seen[x] \in S
        <5>1. seen[x] \in V /\ seen[seen[x]] # None /\ ParentIn(table, x) = seen[x] /\ x \in Stored(table)
          BY <4>2, <4>3
        <5>2. QED
          BY <2>4, <5>1
      <4>4. ASSUME NEW x \in S PROVE (IsFound(table, x) \/ Remembers(w, x)) /\ ParentIn(table, x) \in S
        <5>1. Remembers(v, x)
          BY <1>7, <1>10, <4>2, <4>4 DEF Remembers
        <5>2. QED
          BY <3>2, <4>3, <4>4, <5>1
      <4>5. S \in SUBSET Stored(table)
        OBVIOUS
      <4> HIDE DEF S
      <4>6. QED
        BY <3>1, <4>1, <4>4, <4>5
    <3>4. QED
      BY <3>1, <3>2, <3>3
  <2>6. QED
    BY <1>7, <1>10, <2>2, <2>3, <2>4, <2>5 DEF WalkIsCurrent, Remembers
<1>12. v = [w EXCEPT !.cursor = next, !.seen = seen]
  BY DEF v
<1>13. w = req[r].walk
  OBVIOUS
<1> HIDE DEF w, V
<1>14. GoesOn(w, next, seen)
  <2>1. DOMAIN seen \subseteq NodesOf(w.table) /\ seen \in [DOMAIN seen -> NodesOf(w.table) \cup {None}]
    BY <1>7
  <2>2. \A k \in DOMAIN seen : seen[k] \in DOMAIN seen \cup {next}
    BY <1>7, <1>8
  <2>3. QED
    BY <1>6, <1>7, <1>9, <2>1, <2>2 DEF GoesOn
<1>15. QED
  BY <1>1, <1>5, <1>11, <1>12, <1>13, <1>14, WalksOn

LEMMA WalkRoundIsSound ==
    ASSUME IInv, NEW r \in Requests, WalkRound(r)
    PROVE  IInv'
<1> DEFINE w == req[r].walk
           next == w.seen[w.cursor]
           seen == w.seen
           v == [w EXCEPT !.cursor = next, !.seen = seen]
<1>1. IsWalking(r) /\ w.table = "team" /\ w.cursor \in DOMAIN w.seen /\ UNCHANGED <<db, raced>>
  BY DEF WalkRound
<1>2. /\ DOMAIN req = Requests /\ DOMAIN req[r] = {"pc", "writes", "since", "walk"}
      /\ ClimbIsSound(w, req[r].since) /\ w \in Climb("team")
  BY <1>1, Walking DEF ClimbIsSound
<1>3. /\ DOMAIN w = {"kind", "table", "node", "row", "parent", "cursor", "seen"} /\ DOMAIN w.seen \subseteq NodesOf("team")
      /\ w.seen \in [DOMAIN w.seen -> NodesOf("team") \cup {None}]
  BY <1>2, ClimbTyped
<1>4. v = [w EXCEPT !.cursor = next]
  BY <1>3
<1>5. req' = [req EXCEPT ![r].walk = v]
  BY <1>2, <1>4 DEF WalkRound
<1>6. next \in DOMAIN seen /\ next \in NodesOf("team") \cup {None}
  BY <1>1, <1>2, <1>3 DEF ClimbIsSound
<1>7. (\A k \in DOMAIN seen : seen[k] \in DOMAIN seen \cup {next}) /\ w.node \notin DOMAIN seen
      /\ w.parent \in DOMAIN seen \cup {next}
  BY <1>1, <1>2 DEF ClimbIsSound
<1>8. v.table = "team" /\ v.cursor = next /\ v.seen = w.seen
  BY <1>1, <1>3
<1> HIDE DEF v
<1>9. ASSUME Column(w.table) \notin req[r].since PROVE WalkIsCurrent(v)
  <2>1. WalkIsCurrent(w)
    BY <1>2, <1>9 DEF ClimbIsSound
  <2> HIDE DEF w
  <2>2. \A k : Remembers(v, k) <=> Remembers(w, k)
    BY <1>8 DEF Remembers
  <2>3. ~Undisturbed({Column("team")}, {Column("team")})
    BY <1>1, <2>1 DEF WalkIsCurrent
  <2>4. QED
    BY <1>1, <1>6, <1>8, <2>1, <2>2, <2>3 DEF WalkIsCurrent
<1>10. w = req[r].walk /\ v = [w EXCEPT !.cursor = next, !.seen = seen]
  BY DEF v
<1> HIDE DEF w, next
<1>11. GoesOn(w, next, seen)
  BY <1>1, <1>3, <1>6, <1>7 DEF GoesOn
<1>12. QED
  BY <1>1, <1>5, <1>9, <1>10, <1>11, WalksOn

(* What a walk is for is a change of the schema that touches one column.   *)
LEMMA MoveIsChange ==
    ASSUME NEW w, NEW table \in {"team", "role"}, table = w.table, w \in Climb(table), w.row \in Schema[table].rows,
           NEW c, c = MoveOf(w)
    PROVE  /\ IsChange(c, Schema) /\ Touched(c) \cap Fixed = {} /\ Schema[table].keys = NodesOf(table)
           /\ c.table = table /\ c.key = w.node /\ c.old = w.row /\ c.old # None /\ c.new # None
           /\ c.new[Column(table)] = w.parent
           /\ table = "team" => c.new.deleted = w.row.deleted
<1> DEFINE new == Reparented(table, w.row, w.parent)
<1>1. w.node \in NodesOf(table) /\ w.parent \in NodesOf(table)
  BY ClimbTyped
<1>2. /\ table \in DOMAIN Schema /\ Schema[table].keys = NodesOf(table)
      /\ c.table = table /\ c.key = w.node /\ c.old = w.row /\ c.new = new /\ DOMAIN c = {"table", "key", "old", "new"}
  BY SchemaTables DEF NodesOf, MoveOf
<1>3. /\ new \in Schema[table].rows /\ DOMAIN new = DOMAIN w.row /\ new[Column(table)] = w.parent
      /\ \A f \in DOMAIN new : f # Column(table) => new[f] = w.row[f]
  <2>1. CASE table = "team"
    <3>1. Column(table) = "parent_team" /\ Schema[table].rows = Team /\ NodesOf(table) = Teams
      BY <2>1, SchemaTables DEF Column, NodesOf
    <3>2. QED
      BY <1>1, <3>1 DEF Reparented, Team
  <2>2. CASE table = "role"
    <3>1. Column(table) = "parent_role" /\ Schema[table].rows = Role /\ NodesOf(table) = Roles
      BY <2>2, SchemaTables DEF Column, NodesOf
    <3>2. QED
      BY <1>1, <3>1 DEF Reparented, Role
  <2>3. QED
    BY <2>1, <2>2
<1> HIDE DEF new
<1>4. Column(table) \in {"parent_team", "parent_role"}
  BY DEF Column
<1>5. w.row # None /\ new # None
  BY <1>2, <1>3, NoneIsNoRow
<1>6. IsChange(c, Schema)
  BY <1>1, <1>2, <1>3, <1>4, <1>5 DEF IsChange
<1>7. Touched(c) \cap Fixed = {}
  BY <1>2, <1>3, <1>4, <1>5 DEF Touched, Fixed
<1>8. table = "team" => new.deleted = w.row.deleted
  <2>1. \A row \in Team : "deleted" \in DOMAIN row
    BY DEF Team
  <2>2. table = "team" => w.row \in Team
    BY SchemaTables
  <2>3. QED
    BY <1>3, <1>4, <2>1, <2>2
<1>9. QED
  BY <1>2, <1>3, <1>5, <1>6, <1>7, <1>8

(* What is above the new parent has been seen, and the node is not there.  *)
LEMMA FinishWalkIsSound ==
    ASSUME IInv, NEW r \in Requests, FinishWalk(r)
    PROVE  IInv'
<1> DEFINE w == req[r].walk
           table == w.table
           since == req[r].since
           c == MoveOf(w)
           q == req'[r]
<1>1. /\ IsWalking(r) /\ EndsHere(w) /\ UNCHANGED <<db, raced>>
      /\ req' = [req EXCEPT ![r].pc = "staged", ![r].walk = None, ![r].writes = {c}]
  BY DEF FinishWalk, MoveOf
<1>2. /\ DOMAIN req = Requests /\ DOMAIN req[r] = {"pc", "writes", "since", "walk"} /\ since \cap Fixed = {}
      /\ ClimbIsSound(w, since)
  BY <1>1, Walking
<1>3. table \in {"team", "role"} /\ w \in Climb(table) /\ w.row \in Schema[table].rows
  BY <1>2 DEF ClimbIsSound
<1>4. Only(r) /\ DOMAIN q = {"pc", "writes", "since", "walk"} /\ q.pc = "staged" /\ q.writes = {c} /\ q.since = since
      /\ q.walk = None
  BY <1>1, <1>2 DEF Only
<1> HIDE DEF q
<1>5. None \notin NodesOf(table) /\ w.parent \in NodesOf(table) /\ DOMAIN w.seen \subseteq NodesOf(table)
  BY <1>3, ClimbTyped
<1>6. /\ IsChange(c, Schema) /\ Touched(c) \cap Fixed = {} /\ Schema[table].keys = NodesOf(table)
      /\ c.table = table /\ c.key = w.node /\ c.old = w.row /\ c.old # None /\ c.new # None
      /\ c.new[Column(table)] = w.parent
      /\ table = "team" => c.new.deleted = w.row.deleted
  BY <1>3, MoveIsChange
<1>7. IsCurrent(c, since \cup Drift, Schema)
  BY <1>2 DEF ClimbIsSound
<1> HIDE DEF c
<1>8. ASSUME Column(table) \notin since PROVE NoWayUp(table, w.parent, w.node)
  <2> DEFINE V == DOMAIN w.seen
  <2>1. WalkIsCurrent(w) /\ w.node \notin V /\ w.parent \in V \cup {w.cursor}
        /\ \A v \in V : w.seen[v] \in V \cup {w.cursor}
    BY <1>2, <1>8 DEF ClimbIsSound
  <2>2. w.cursor = None \/ w.cursor \in V
    BY <1>1 DEF EndsHere
  <2>3. w.parent \in V /\ None \notin V
    BY <1>5, <2>1, <2>2
  <2>4. IsClosed(table, V)
    BY <2>1, <2>2, <2>3 DEF WalkIsCurrent, IsClosed
  <2>5. V \in SUBSET Schema[table].keys
    BY <1>5, <1>6
  <2> HIDE DEF V
  <2>6. QED
    BY <2>1, <2>3, <2>4, <2>5 DEF NoWayUp
<1>9. NodeIsJustified(c, {c}, since)
  BY <1>6, <1>8 DEF NodeIsJustified
<1>10. IsJustified(c, {c}, since)
  BY <1>3, <1>6, <1>9 DEF IsJustified
<1>11. RequestIsJustified(q)
  BY <1>2, <1>4, <1>7, <1>10 DEF RequestIsJustified, WalkIsSound
<1>12. AreChanges(q.writes, Schema) /\ KeysFit(r, q.writes)
  BY <1>3, <1>4, <1>6 DEF AreChanges, KeysFit, Keyed
<1>13. QED
  BY <1>4, <1>11, <1>12, OneRequest DEF q

-----------------------------------------------------------------------------
(* A lock opens with time: of all columns only that one is another.        *)

UserColumns == {"org", "email", "status", "mfa", "attempts", "resets"}

SameUser(row, new) ==
    /\ new # None <=> row # None
    /\ row # None => /\ new \in User /\ (new.locked = "never" <=> row.locked = "never")
                     /\ \A f \in UserColumns : new[f] = row[f]

LEMMA LockOpens ==
    ASSUME IInv, NEW u \in Users, LockExpires(u)
    PROVE  /\ UNCHANGED <<req, raced>> /\ DOMAIN db' = DOMAIN Schema
           /\ \A table \in DOMAIN Schema \ {"user"} : db'[table] = db[table]
           /\ DOMAIN db'["user"] = Users /\ \A x \in Users : SameUser(db["user"][x], db'["user"][x])
<1> DEFINE old == db["user"][u]
           row == [old EXCEPT !.locked = "past"]
<1>1. u \in Stored("user") /\ old.locked = "now" /\ UNCHANGED <<req, raced>> /\ db' = [db EXCEPT !["user"][u] = row]
  BY DEF LockExpires
<1>2. old \in User /\ old # None
  BY <1>1, StoredUser
<1>3. row \in User /\ row.locked = "past" /\ \A f \in UserColumns : row[f] = old[f]
  BY <1>2 DEF User, UserColumns
<1>4. row # None
  BY <1>3, NoneIsNoRow
<1>5. SameUser(old, row)
  BY <1>1, <1>2, <1>3, <1>4 DEF SameUser
<1> HIDE DEF row
<1>6. DOMAIN db = DOMAIN Schema /\ "user" \in DOMAIN Schema /\ db["user"] \in [Users -> User \cup {None}]
  BY IsTyped, SchemaTables DEF HasSchema
<1>7. DOMAIN db' = DOMAIN Schema /\ (\A table \in DOMAIN Schema \ {"user"} : db'[table] = db[table])
      /\ db'["user"] = [db["user"] EXCEPT ![u] = row]
  BY <1>1, <1>6
<1>8. ASSUME NEW x \in Users PROVE SameUser(db["user"][x], db'["user"][x])
  <2>1. CASE x = u
    BY <1>5, <1>6, <1>7, <2>1
  <2>2. CASE x # u
    <3>1. db'["user"][x] = db["user"][x] /\ db["user"][x] \in User \cup {None}
      BY <1>6, <1>7, <2>2
    <3>2. QED
      BY <3>1 DEF SameUser
  <2>3. QED
    BY <2>1, <2>2
<1>9. DOMAIN db'["user"] = Users
  BY <1>6, <1>7
<1>10. QED
  BY <1>1, <1>7, <1>8, <1>9

LEMMA LockLeaves ==
    ASSUME IInv, NEW u \in Users, LockExpires(u)
    PROVE  /\ \A A, B : Undisturbed(A, B)' <=> Undisturbed(A, B)
           /\ \A table \in DOMAIN Schema : Stored(table)' = Stored(table)
           /\ \A table \in DOMAIN Schema \ {"user"} : \A x :
                 Of(table, x)' = Of(table, x) /\ Outstanding(table, x)' = Outstanding(table, x)
           /\ \A x : ActiveSessions(x)' = ActiveSessions(x) /\ VerifiedTotp(x)' = VerifiedTotp(x)
           /\ \A o, e : WithEmail(o, e)' = WithEmail(o, e)
           /\ \A table \in {"team", "role"} : \A k :
                 (IsFound(table, k)' <=> IsFound(table, k)) /\ ParentIn(table, k)' = ParentIn(table, k)
           /\ \A table \in {"team", "role"} : \A from, k : NoWayUp(table, from, k)' <=> NoWayUp(table, from, k)
           /\ \A table \in {"team", "role"} : IsHierarchy(table)' <=> IsHierarchy(table)
<1>1. /\ UNCHANGED <<req, raced>> /\ DOMAIN db' = DOMAIN Schema /\ DOMAIN db["user"] = Users
      /\ \A table \in DOMAIN Schema \ {"user"} : db'[table] = db[table]
      /\ DOMAIN db'["user"] = Users /\ \A x \in Users : SameUser(db["user"][x], db'["user"][x])
  BY LockOpens, IsTyped, SchemaTables DEF HasSchema
<1>2. \A A, B : Undisturbed(A, B)' <=> Undisturbed(A, B)
  BY <1>1 DEF Undisturbed
<1>3. \A table \in DOMAIN Schema : Stored(table)' = Stored(table)
  <2>1. Stored("user")' = Stored("user")
    BY <1>1 DEF Stored, Rows, SameUser
  <2>2. ASSUME NEW table \in DOMAIN Schema \ {"user"} PROVE Stored(table)' = Stored(table)
    BY <1>1 DEF Stored, Rows
  <2>3. QED
    BY <2>1, <2>2
<1>4. \A table \in DOMAIN Schema \ {"user"} : \A x : Of(table, x)' = Of(table, x)
  BY <1>1, <1>3 DEF Of
<1>5. \A table \in DOMAIN Schema \ {"user"} : \A x : Outstanding(table, x)' = Outstanding(table, x)
  BY <1>1, <1>4 DEF Outstanding
<1>6. \A x : ActiveSessions(x)' = ActiveSessions(x) /\ VerifiedTotp(x)' = VerifiedTotp(x)
  BY <1>1, <1>4, SchemaTables DEF ActiveSessions, VerifiedTotp
<1>7. \A o, e : WithEmail(o, e)' = WithEmail(o, e)
  <2>1. \A x \in Stored("user") : db'["user"][x].org = db["user"][x].org /\ db'["user"][x].email = db["user"][x].email
    BY <1>1, StoredUser DEF SameUser, UserColumns
  <2>2. QED
    BY <1>3, <2>1, SchemaTables DEF WithEmail
<1>8. \A table \in {"team", "role"} : \A k :
         (IsFound(table, k)' <=> IsFound(table, k)) /\ ParentIn(table, k)' = ParentIn(table, k)
  BY <1>1, <1>3, SchemaTables DEF IsFound, LiveTeam, ParentIn
<1>9. \A table \in {"team", "role"} : \A from, k : NoWayUp(table, from, k)' <=> NoWayUp(table, from, k)
  BY <1>3, <1>8, SchemaTables DEF NoWayUp, IsClosed
<1>10. \A table \in {"team", "role"} : IsHierarchy(table)' <=> IsHierarchy(table)
  BY <1>3, <1>8, SchemaTables DEF IsHierarchy
<1>11. QED
  BY <1>2, <1>3, <1>4, <1>5, <1>6, <1>7, <1>8, <1>9, <1>10

LEMMA LockLeavesJustified ==
    ASSUME IInv, NEW u \in Users, LockExpires(u), NEW q, RequestIsJustified(q), AreChanges(q.writes, Schema)
    PROVE  RequestIsJustified(q)'
<1>1. /\ UNCHANGED <<req, raced>> /\ DOMAIN db' = DOMAIN Schema /\ DOMAIN db["user"] = Users
      /\ \A table \in DOMAIN Schema \ {"user"} : db'[table] = db[table]
      /\ DOMAIN db'["user"] = Users /\ \A x \in Users : SameUser(db["user"][x], db'["user"][x])
  BY LockOpens, IsTyped, SchemaTables DEF HasSchema
<1>2. ASSUME NEW c, IsChange(c, Schema), NEW writes, NEW since, IsJustified(c, writes, since)
      PROVE  IsJustified(c, writes, since)'
  <2>0. c.table \in DOMAIN Schema /\ c.key \in Schema[c.table].keys
        /\ c.old \in Schema[c.table].rows \cup {None} /\ c.new \in Schema[c.table].rows \cup {None}
    BY <1>2 DEF IsChange
  <2>1. c.table = "user" /\ UserIsJustified(c, writes, since) => UserIsJustified(c, writes, since)'
    <3>1. MarkIsJustified(c, writes, since) => MarkIsJustified(c, writes, since)'
      BY LockLeaves, SchemaTables DEF MarkIsJustified
    <3>2. ResetIsJustified(c, writes, since) => ResetIsJustified(c, writes, since)'
      BY LockLeaves DEF ResetIsJustified
    <3>3. ASSUME c.table = "user", c.old # None, c.old.locked = "never" <=> db["user"][c.key].locked = "never"
          PROVE  c.old.locked = "never" <=> db'["user"][c.key].locked = "never"
      <4>1. c.key \in Users /\ SameUser(db["user"][c.key], db'["user"][c.key])
        BY <1>1, <2>0, <3>3, SchemaTables
      <4>2. CASE db["user"][c.key] # None
        BY <3>3, <4>1, <4>2 DEF SameUser
      <4>3. CASE db["user"][c.key] = None
        BY <3>3, <4>1, <4>3 DEF SameUser
      <4>4. QED
        BY <4>2, <4>3
    <3>4. QED
      BY <3>1, <3>2, <3>3, LockLeaves DEF UserIsJustified
  <2>2. c.table \in {"verify_token", "reset_token"} /\ TokenIsJustified(c, writes, since) => TokenIsJustified(c, writes, since)'
    BY <1>1, <2>0, LockLeaves DEF TokenIsJustified
  <2>3. c.table = "session" /\ SessionIsJustified(c, writes, since) => SessionIsJustified(c, writes, since)'
    <3>1. \A x \in Stored("user") : db'["user"][x].resets = db["user"][x].resets
      BY <1>1, StoredUser DEF SameUser, UserColumns
    <3>2. db'["session"] = db["session"] /\ Stored("user")' = Stored("user")
      BY <1>1, LockLeaves, SchemaTables
    <3>3. QED
      BY <3>1, <3>2 DEF SessionIsJustified
  <2>4. c.table \in {"team", "role"} /\ NodeIsJustified(c, writes, since) => NodeIsJustified(c, writes, since)'
    BY <2>0, LockLeaves DEF NodeIsJustified
  <2>5. QED
    BY <1>2, <2>1, <2>2, <2>3, <2>4 DEF IsJustified
<1>3. ASSUME NEW c, c.table \in DOMAIN Schema, c.key \in Schema[c.table].keys,
             c.old \in Schema[c.table].rows \cup {None}, NEW since, IsCurrent(c, since \cup Drift, Schema)
      PROVE  IsCurrent(c, since \cup Drift, Schema)'
  <2>1. CASE c.table # "user"
    BY <1>1, <1>3, <2>1 DEF IsCurrent
  <2>2. CASE c.table = "user"
    <3>1. c.key \in Users /\ SameUser(db["user"][c.key], db'["user"][c.key])
      BY <1>1, <1>3, <2>2, SchemaTables
    <3>2. c.old # None => "id" \notin DOMAIN c.old /\ DOMAIN c.old = UserColumns \cup {"locked"}
      BY <1>3, <2>2, SchemaTables DEF User, UserColumns
    <3>3. QED
      BY <1>3, <2>2, <3>1, <3>2 DEF IsCurrent, SameRow, SameUser, Drift
  <2>3. QED
    BY <2>1, <2>2
<1>4. ASSUME NEW w, w.table \in {"team", "role"}, WalkIsCurrent(w) PROVE WalkIsCurrent(w)'
  BY <1>4, LockLeaves, SchemaTables DEF WalkIsCurrent
<1>5. ASSUME NEW w, NEW since, ClimbIsSound(w, since) PROVE ClimbIsSound(w, since)'
  <2>1. w.table \in {"team", "role"} /\ w \in Climb(w.table) /\ w.row \in Schema[w.table].rows
    BY <1>5 DEF ClimbIsSound
  <2>2. w.node \in NodesOf(w.table)
    BY <2>1, ClimbTyped
  <2> DEFINE c == MoveOf(w)
  <2>3. c.table = w.table /\ c.key = w.node /\ c.old = w.row
    BY DEF MoveOf
  <2>4. c.table \in DOMAIN Schema /\ c.key \in Schema[c.table].keys
    BY <2>1, <2>2, <2>3, SchemaTables DEF NodesOf
  <2>5. IsCurrent(c, since \cup Drift, Schema)
    BY <1>5 DEF ClimbIsSound
  <2>6. IsCurrent(c, since \cup Drift, Schema)'
    BY <1>3, <2>1, <2>3, <2>4, <2>5
  <2>7. QED
    BY <1>4, <1>5, <2>1, <2>6 DEF ClimbIsSound
<1>6. WalkIsSound(q)'
  BY <1>5, LockLeaves, SchemaTables DEF RequestIsJustified, WalkIsSound
<1>7. \A c \in q.writes : IsCurrent(c, q.since \cup Drift, Schema)' /\ IsJustified(c, q.writes, q.since)'
  BY <1>2, <1>3 DEF RequestIsJustified, AreChanges, IsChange
<1>8. QED
  BY <1>6, <1>7 DEF RequestIsJustified

LEMMA LockExpiresIsSound ==
    ASSUME IInv, NEW u \in Users, LockExpires(u)
    PROVE  IInv'
<1>1. /\ UNCHANGED <<req, raced>> /\ DOMAIN db' = DOMAIN Schema /\ DOMAIN db["user"] = Users
      /\ \A table \in DOMAIN Schema \ {"user"} : db'[table] = db[table]
      /\ DOMAIN db'["user"] = Users /\ \A x \in Users : SameUser(db["user"][x], db'["user"][x])
  BY LockOpens, IsTyped, SchemaTables DEF HasSchema
<1>2. \A x \in Stored("user") :
         /\ db["user"][x] \in User /\ db'["user"][x] \in User
         /\ \A f \in UserColumns : db'["user"][x][f] = db["user"][x][f]
         /\ db'["user"][x].locked = "never" <=> db["user"][x].locked = "never"
  BY <1>1, StoredUser DEF SameUser
<1>3. Stored("user")' = Stored("user") /\ "user" \in DOMAIN Schema /\ Schema["user"].keys = Users
      /\ Schema["user"].rows = User
  BY LockLeaves, SchemaTables
<1>4. HasSchema(db, Schema)'
  <2>1. \A x \in Users : db'["user"][x] \in User \cup {None}
    BY <1>1 DEF SameUser
  <2>2. db'["user"] \in [Users -> User \cup {None}]
    <3>1. db'["user"] = [x \in Users |-> db'["user"][x]]
      BY <1>1 DEF LockExpires
    <3>2. QED
      BY <2>1, <3>1
  <2>3. QED
    BY <1>1, <1>3, <2>2, IsTyped DEF HasSchema
<1>5. Shared(Schema)'
  BY <1>1, <1>4 DEF IInv, Shared, RequestsTyped, WritesTyped
<1>6. RequestsAreSound'
  BY <1>1 DEF IInv, IdentityIsSound, RequestsAreSound
<1>7. RequestsAreJustified'
  <2>1. ASSUME NEW r \in Requests, NEW q, q = req[r] PROVE RequestIsJustified(q)'
    BY <2>1, LockLeavesJustified DEF IInv, Shared, WritesTyped, RequestsAreJustified
  <2>2. ASSUME NEW r \in Requests PROVE RequestIsJustified(req[r])'
    BY <1>1, <2>1
  <2>3. QED
    BY <2>2 DEF RequestsAreJustified
<1>8. Constraints(db)'
  <2>1. \A table \in DOMAIN Schema : Rows(db, table)' = Rows(db, table)
    BY LockLeaves DEF Stored
  <2>2. \A x \in Rows(db, "user") : db'["user"][x].org = db["user"][x].org /\ db'["user"][x].email = db["user"][x].email
    BY <1>2 DEF UserColumns, Stored
  <2>3. Constraints(db)
    BY DEF IInv, IdentityIsSound
  <2>4. AccountConstraints(db)'
    BY <1>1, <2>1, <2>2, <2>3, SchemaTables DEF Constraints, AccountConstraints
  <2>5. OrganizationConstraints(db)'
    BY <1>1, <2>1, <2>3, SchemaTables DEF Constraints, OrganizationConstraints
  <2>6. /\ \A table \in {"user", "organization", "invitation", "role"} : Rows(db, table)' = Rows(db, table)
        /\ db'["invitation"] = db["invitation"]
    BY <1>1, <2>1, SchemaTables
  <2>7. (\A x \in Rows(db, "user") : db["user"][x].org \in Rows(db, "organization"))'
    BY <2>2, <2>3, <2>6 DEF Constraints
  <2>8. (\A i \in Rows(db, "invitation") :
           /\ db["invitation"][i].org \in Rows(db, "organization") /\ db["invitation"][i].role_id \in Rows(db, "role"))'
    BY <2>3, <2>6 DEF Constraints
  <2>9. (\A i, j \in Rows(db, "invitation") :
           LET inv == db["invitation"][i]
               other == db["invitation"][j]
           IN  i # j /\ inv.org = other.org /\ inv.email = other.email
                 => {inv.invitation, other.invitation} # {"pending"})'
    BY <2>3, <2>6 DEF Constraints
  <2>10. QED
    BY <2>4, <2>5, <2>7, <2>8, <2>9 DEF Constraints
<1>9. IdentityIsSound'
  <2>1. Stored("invitation")' = Stored("invitation") /\ db'["invitation"] = db["invitation"]
    BY <1>1, LockLeaves, SchemaTables
  <2>2. (\A i \in Stored("invitation") :
           db["invitation"][i].invitation = "accepted" =>
              WithEmail(db["invitation"][i].org, db["invitation"][i].email) # {})'
    BY <2>1, LockLeaves DEF IInv, IdentityIsSound
  <2>3. (\A x \in Stored("user") :
           Undisturbed({"attempts", "locked"}, {"attempts", "locked"}) =>
              (db["user"][x].locked # "never" => db["user"][x].attempts >= Threshold))'
    BY <1>2, <1>3, LockLeaves DEF IInv, IdentityIsSound, UserColumns
  <2>4. \A table \in {"verify_token", "reset_token"} : \A x : Outstanding(table, x)' = Outstanding(table, x)
    BY LockLeaves, SchemaTables
  <2>5. (\A x \in Stored("user") : \A table \in {"verify_token", "reset_token"} :
           Undisturbed({table}, {table}) => \A k, l \in Outstanding(table, x) : k = l)'
    <3>1. \A x \in Stored("user") : \A table \in {"verify_token", "reset_token"} :
             Undisturbed({table}, {table}) => \A k, l \in Outstanding(table, x) : k = l
      BY DEF IInv, IdentityIsSound
    <3>2. QED
      BY <1>3, <2>4, <3>1, LockLeaves
  <2>6. QED
    BY <1>4, <1>6, <1>8, <2>2, <2>3, <2>5 DEF IdentityIsSound
<1>10. SessionsAreAccountedFor'
  <2>1. db'["session"] = db["session"] /\ Stored("session")' = Stored("session")
    BY <1>1, LockLeaves, SchemaTables
  <2>2. \A x \in Stored("user") : db'["user"][x].resets = db["user"][x].resets
    BY <1>2 DEF UserColumns
  <2>3. QED
    BY <1>3, <2>1, <2>2, LockLeaves DEF IInv, SessionsAreAccountedFor
<1>11. MfaHasItsFactor'
  <2>1. \A x \in Stored("user") : db'["user"][x].mfa = db["user"][x].mfa
    BY <1>2 DEF UserColumns
  <2>2. QED
    BY <1>3, <2>1, LockLeaves DEF IInv, MfaHasItsFactor
<1>12. HierarchiesHaveNoCycle'
  <2>1. (\A table \in {"team", "role"} : Undisturbed({Column(table)}, {Column(table)}) => IsHierarchy(table))'
    BY LockLeaves DEF IInv, HierarchiesHaveNoCycle, Column
  <2>2. QED
    BY <1>7, <2>1, NoCycle, PTL
<1>13. KeysAreUsedOnce'
  <2>1. \A table \in Keyed : table \in DOMAIN Schema \ {"user"}
    BY SchemaTables DEF Keyed
  <2>2. \A table \in Keyed : \A k : IsUsed(table, k)' <=> IsUsed(table, k)
    BY <1>1, <2>1, LockLeaves DEF IsUsed
  <2>3. ASSUME NEW r, NEW c, c.table \in Keyed, KeyIsFit(r, c) PROVE KeyIsFit(r, c)'
    BY <1>1, <2>1, <2>2, <2>3, LockLeaves DEF KeyIsFit
  <2>4. QED
    BY <1>1, <2>2, <2>3 DEF IInv, KeysAreUsedOnce
<1>14. QED
  BY <1>5, <1>7, <1>9, <1>10, <1>11, <1>12, <1>13 DEF IInv

-----------------------------------------------------------------------------
(* The commit of a request.  First what becomes of the rows of any table.  *)

Commits(r) == \E admitted, then : admitted \in BOOLEAN /\ CommitTo(r, admitted, then)

LEMMA CommitsWhatIsJustified ==
    ASSUME IInv, NEW r \in Requests, Commits(r)
    PROVE  /\ req[r].pc = "staged" /\ TouchedBy(r) \cap Fixed = {} /\ req[r].since \cap Fixed = {}
           /\ \A c \in req[r].writes :
                 /\ IsChange(c, Schema) /\ IsCurrent(c, req[r].since \cup Drift, Schema)
                 /\ IsJustified(c, req[r].writes, req[r].since)
           /\ HasSchema(db, Schema)'
<1>1. PICK admitted, then : admitted \in BOOLEAN /\ CommitTo(r, admitted, then)
  BY DEF Commits
<1>2. Shared(Schema) /\ RequestIsJustified(req[r])
  BY DEF IInv, RequestsAreJustified
<1>3. \A c \in req[r].writes :
         /\ IsChange(c, Schema) /\ IsCurrent(c, req[r].since \cup Drift, Schema)
         /\ IsJustified(c, req[r].writes, req[r].since)
  BY <1>2 DEF RequestIsJustified, Shared, WritesTyped, AreChanges
<1>4. TouchedBy(r) \cap Fixed = {}
  BY <1>3 DEF TouchedBy, IsJustified
<1>5. HasSchema(db, Schema)'
  BY <1>1, <1>2, CommitKeepsSchema
<1>6. QED
  BY <1>1, <1>2, <1>3, <1>4, <1>5 DEF CommitTo, RequestIsJustified

LEMMA CommitRaced ==
    ASSUME NEW r, Commits(r), NEW A, NEW B, Undisturbed(A, B)'
    PROVE  Undisturbed(A, B) /\ (TouchedBy(r) \cap A = {} \/ req[r].since \cap B = {})
<1>1. PICK admitted, then : admitted \in BOOLEAN /\ CommitTo(r, admitted, then)
  BY DEF Commits
<1>2. QED
  BY <1>1, CommitRaces

LEMMA RowsAfter ==
    ASSUME IInv, NEW r \in Requests, Commits(r), NEW table \in DOMAIN Schema
    PROVE  /\ Stored(table) \subseteq Schema[table].keys /\ Stored(table)' \subseteq Schema[table].keys
           /\ \A k \in Stored(table) : db[table][k] \in Schema[table].rows
           /\ \A k \in Stored(table)' : db'[table][k] \in Schema[table].rows
           /\ Schema[table].kept => Stored(table) \subseteq Stored(table)'
           /\ table \notin TouchedBy(r) => Stored(table)' = Stored(table)
           /\ \A k \in Stored(table) \cap Stored(table)' :
                 \A f \in DOMAIN db[table][k] : f \notin TouchedBy(r) => db'[table][k][f] = db[table][k][f]
           /\ \A k \in Schema[table].keys : /\ k \notin Stored(table) => db[table][k] = None
                                            /\ k \notin Stored(table)' => db'[table][k] = None
<1>1. PICK admitted, then : admitted \in BOOLEAN /\ CommitTo(r, admitted, then)
  BY DEF Commits
<1>2. Shared(Schema) /\ HasSchema(db, Schema) /\ HasSchema(db, Schema)'
  BY CommitsWhatIsJustified DEF IInv, Shared
<1>3. IsTableOf(table, Schema[table].keys, Schema[table].rows)
  BY <1>2, Typed
<1>4. IsTableOf(table, Schema[table].keys, Schema[table].rows)'
  BY <1>2 DEF HasSchema, IsTableOf, Stored, Rows
<1>5. ASSUME NEW k \in Schema[table].keys
      PROVE  /\ Schema[table].kept /\ db[table][k] # None => db'[table][k] # None
             /\ Leaves(db'[table][k], db[table][k], table, TouchedBy(r))
  BY <1>1, <1>2, CommitRow
<1>6. QED
  BY <1>3, <1>4, <1>5 DEF IsTableOf, Leaves

(* The rows that a commit inserts.                                         *)
LEMMA NewRow ==
    ASSUME IInv, NEW r \in Requests, Commits(r), NEW table \in DOMAIN Schema, NEW k \in Stored(table)', k \notin Stored(table)
    PROVE  \E c \in req[r].writes : Inserts(c, table) /\ c.key = k /\ db'[table][k] = c.new /\ table \in TouchedBy(r)
<1>1. PICK admitted, then : admitted \in BOOLEAN /\ CommitTo(r, admitted, then)
  BY DEF Commits
<1>2. k \in Schema[table].keys /\ db[table][k] = None /\ db'[table][k] # None
  BY RowsAfter DEF Stored, Rows
<1>3. PICK c \in req[r].writes : ComesOf(c, table, k, Schema)
  BY <1>1, <1>2, CommitRowBy DEF IInv
<1>4. None \notin Schema[table].rows
  BY NoneIsNoRow
<1>5. c.old = None
  BY <1>2, <1>3, <1>4 DEF ComesOf
<1>6. table \in TouchedBy(r)
  BY <1>3, <1>5 DEF ComesOf, TouchedBy, Touched
<1>7. QED
  BY <1>3, <1>5, <1>6 DEF ComesOf, Inserts

LEMMA Inserted ==
    ASSUME IInv, NEW r \in Requests, Commits(r), NEW c \in req[r].writes, c.old = None, NEW table, table = c.table
    PROVE  /\ table \in DOMAIN Schema /\ c.key \in Stored(table)' /\ c.key \notin Stored(table)
           /\ db'[table][c.key] = c.new /\ c.new \in Schema[table].rows /\ table \in TouchedBy(r)
<1>1. PICK admitted, then : admitted \in BOOLEAN /\ CommitTo(r, admitted, then)
  BY DEF Commits
<1>2. IsChange(c, Schema) /\ c.new # None
  BY CommitsWhatIsJustified DEF IsChange
<1>3. db'[table][c.key] = c.new /\ db[table][c.key] = None
  BY <1>1, CommitWrites DEF IInv, Written, Fails
<1>4. table \in DOMAIN Schema /\ c.key \in Schema[table].keys /\ c.new \in Schema[table].rows
  BY <1>2 DEF IsChange
<1>5. c.key \in Stored(table)' /\ c.key \notin Stored(table)
  BY <1>2, <1>3, <1>4, RowsAfter DEF Stored, Rows
<1>6. table \in TouchedBy(r)
  BY DEF TouchedBy, Touched
<1>7. QED
  BY <1>3, <1>4, <1>5, <1>6

(* The rows that a commit changes.                                         *)
LEMMA Rewritten ==
    ASSUME IInv, NEW r \in Requests, Commits(r), NEW table, NEW k, NEW c \in req[r].writes, Rewrites(c, table, k)
    PROVE  /\ table \in DOMAIN Schema /\ k \in Stored(table) /\ k \in Stored(table)'
           /\ c.old \in Schema[table].rows /\ c.new \in Schema[table].rows
           /\ \A f \in DOMAIN c.new :
                 /\ f \in DOMAIN c.old /\ f \in DOMAIN db[table][k]
                 /\ c.new[f] # c.old[f] => f \in TouchedBy(r)
                 /\ db'[table][k][f] = IF c.new[f] # c.old[f] THEN c.new[f] ELSE db[table][k][f]
<1>1. PICK admitted, then : admitted \in BOOLEAN /\ CommitTo(r, admitted, then)
  BY DEF Commits
<1>2. IsChange(c, Schema) /\ IsSchema(Schema)
  BY CommitsWhatIsJustified, IsTyped
<1>3. /\ c.table = table /\ c.key = k /\ c.old # None /\ c.new # None /\ table \in DOMAIN Schema /\ k \in Schema[table].keys
      /\ c.old \in Schema[table].rows /\ c.new \in Schema[table].rows
  BY <1>2 DEF IsChange, Rewrites
<1>4. db'[table][k] = Written(db[table][k], c) /\ ~Fails(db[table][k], c)
  BY <1>1, <1>3, CommitWrites DEF IInv
<1>5. db[table][k] # None
  BY <1>3, <1>4 DEF Fails, SameRow
<1>6. k \in Stored(table)
  BY <1>3, <1>5, RowsAfter
<1>7. db[table][k] \in Schema[table].rows
  BY <1>3, <1>6, RowsAfter
<1>8. DOMAIN db[table][k] = DOMAIN c.new /\ DOMAIN c.old = DOMAIN c.new
  BY <1>2, <1>3, <1>7 DEF IsSchema
<1>9. db'[table][k] = [f \in DOMAIN c.new |-> IF f \in Touched(c) THEN c.new[f] ELSE db[table][k][f]]
  BY <1>3, <1>4, <1>8 DEF Written, Updated
<1>10. Touched(c) = {f \in DOMAIN c.new : c.new[f] # c.old[f]}
  BY <1>3 DEF Touched
<1>11. Touched(c) \subseteq TouchedBy(r)
  BY DEF TouchedBy
<1>12. db'[table][k] # None
  <2>1. Written(db[table][k], c) \in Schema[table].rows
    BY <1>2, <1>3, <1>7, <1>9, <1>10, <1>4 DEF IsSchema
  <2>2. QED
    BY <1>3, <1>4, <2>1, NoneIsNoRow
<1>13. k \in Stored(table)'
  BY <1>3, <1>12, RowsAfter
<1>14. QED
  BY <1>3, <1>6, <1>8, <1>9, <1>10, <1>11, <1>13

LEMMA ChangedRow ==
    ASSUME IInv, NEW r \in Requests, Commits(r), NEW table \in DOMAIN Schema,
           NEW k \in Stored(table) \cap Stored(table)', db'[table][k] # db[table][k]
    PROVE  \E c \in req[r].writes : Rewrites(c, table, k)
<1>1. PICK admitted, then : admitted \in BOOLEAN /\ CommitTo(r, admitted, then)
  BY DEF Commits
<1>2. k \in Schema[table].keys /\ db[table][k] # None /\ db'[table][k] # None
  BY RowsAfter DEF Stored, Rows
<1>3. PICK c \in req[r].writes : ComesOf(c, table, k, Schema)
  BY <1>1, <1>2, CommitRowBy DEF IInv
<1>4. c.old # None /\ c.new # None
  BY <1>2, <1>3 DEF ComesOf
<1>5. QED
  BY <1>3, <1>4 DEF ComesOf, Rewrites

(* A column that is not overtaken takes what was written.                  *)
LEMMA Taken ==
    ASSUME IInv, NEW r \in Requests, Commits(r), NEW table, NEW k, NEW c \in req[r].writes, Rewrites(c, table, k),
           Schema[table].kept \/ table \notin req[r].since, table # "locked",
           NEW f \in DOMAIN c.new, f \notin req[r].since, f # "locked"
    PROVE  db'[table][k][f] = c.new[f] /\ db[table][k][f] = c.old[f]
<1>1. IsCurrent(c, req[r].since \cup Drift, Schema)
  BY CommitsWhatIsJustified
<1>2. f \in DOMAIN c.old /\ db'[table][k][f] = IF c.new[f] # c.old[f] THEN c.new[f] ELSE db[table][k][f]
  BY Rewritten
<1>3. db[table][k][f] = c.old[f]
  BY <1>1, <1>2 DEF IsCurrent, Drift, Rewrites
<1>4. QED
  BY <1>2, <1>3

(* Rows that are gone.                                                     *)
LEMMA GoneRow ==
    ASSUME IInv, NEW r \in Requests, Commits(r), NEW table \in DOMAIN Schema, NEW k \in Stored(table), k \notin Stored(table)'
    PROVE  \E c \in req[r].writes : Removes(c, table, k) /\ c.old # None
<1>1. PICK admitted, then : admitted \in BOOLEAN /\ CommitTo(r, admitted, then)
  BY DEF Commits
<1>2. k \in Schema[table].keys /\ db[table][k] # None /\ db'[table][k] = None
  BY RowsAfter DEF Stored, Rows
<1>3. PICK c \in req[r].writes : ComesOf(c, table, k, Schema)
  BY <1>1, <1>2, CommitRowBy DEF IInv
<1>4. None \notin Schema[table].rows
  BY NoneIsNoRow
<1>5. c.new = None /\ c.old # None
  BY <1>2, <1>3, <1>4 DEF ComesOf
<1>6. QED
  BY <1>3, <1>5 DEF ComesOf, Removes

LEMMA Removed ==
    ASSUME IInv, NEW r \in Requests, Commits(r), NEW table, NEW k, NEW c \in req[r].writes, Removes(c, table, k),
           table \notin req[r].since, table # "locked"
    PROVE  k \notin Stored(table)'
<1>1. PICK admitted, then : admitted \in BOOLEAN /\ CommitTo(r, admitted, then)
  BY DEF Commits
<1>2. IsChange(c, Schema) /\ IsCurrent(c, req[r].since \cup Drift, Schema)
  BY CommitsWhatIsJustified
<1>3. c.table = table /\ c.key = k /\ c.new = None /\ c.old # None /\ table \in DOMAIN Schema
  BY <1>2 DEF IsChange, Removes
<1>4. SameRow(db[table][k], c.old)
  BY <1>2, <1>3 DEF IsCurrent, Drift
<1>5. db'[table][k] = None
  BY <1>1, <1>3, <1>4, CommitWrites DEF IInv, Written
<1>6. QED
  BY <1>5 DEF Stored, Rows

-----------------------------------------------------------------------------
(* The columns that never change and the ones that change once.            *)

LEMMA FixedStay ==
    ASSUME IInv, NEW r \in Requests, Commits(r), NEW table \in DOMAIN Schema,
           NEW k \in Stored(table) \cap Stored(table)', NEW f \in Fixed, f \in DOMAIN db[table][k]
    PROVE  db'[table][k][f] = db[table][k][f]
<1>1. f \notin TouchedBy(r)
  BY CommitsWhatIsJustified
<1>2. QED
  BY <1>1, RowsAfter

Tokens == {"verify_token", "reset_token"}

LEMMA TokenRows ==
    ASSUME IInv, NEW r \in Requests, Commits(r), NEW table \in Tokens
    PROVE  /\ table \in DOMAIN Schema /\ Schema[table].rows = Token /\ Schema[table].keys = Keys
           /\ Stored(table) \subseteq Stored(table)' /\ Stored(table)' \subseteq Keys
           /\ \A k \in Stored(table) : db[table][k] \in Token /\ db'[table][k].user_id = db[table][k].user_id
           /\ \A k \in Stored(table)' : db'[table][k] \in Token
<1>1. table \in DOMAIN Schema /\ Schema[table].rows = Token /\ Schema[table].keys = Keys /\ Schema[table].kept
  BY SchemaTables DEF Tokens
<1>2. /\ Stored(table) \subseteq Stored(table)' /\ Stored(table)' \subseteq Keys
      /\ \A k \in Stored(table) : db[table][k] \in Token
      /\ \A k \in Stored(table)' : db'[table][k] \in Token
  BY <1>1, RowsAfter
<1>3. ASSUME NEW k \in Stored(table) PROVE db'[table][k].user_id = db[table][k].user_id
  <2>1. "user_id" \in DOMAIN db[table][k]
    BY <1>2 DEF Token
  <2>2. "user_id" \in Fixed
    BY DEF Fixed
  <2>3. k \in Stored(table) \cap Stored(table)'
    BY <1>2
  <2>4. QED
    BY <1>1, <2>1, <2>2, <2>3, FixedStay
<1>4. QED
  BY <1>1, <1>2, <1>3

LEMMA TokenIsSpent ==
    ASSUME IInv, NEW r \in Requests, Commits(r), NEW table \in Tokens, NEW k, NEW c \in req[r].writes, Rewrites(c, table, k)
    PROVE  db'[table][k].consumed
<1>1. IsJustified(c, req[r].writes, req[r].since) /\ c.table = table /\ c.key = k /\ c.old # None
  BY CommitsWhatIsJustified DEF Rewrites
<1>2. TokenIsJustified(c, req[r].writes, req[r].since)
  BY <1>1 DEF IsJustified, Tokens
<1>3. c.new.consumed /\ (c.old.consumed => db[table][k].consumed)
  BY <1>1, <1>2 DEF TokenIsJustified
<1>4. c.new \in Token /\ c.old \in Token
  BY Rewritten, TokenRows
<1>5. "consumed" \in DOMAIN c.new /\ c.new.consumed \in BOOLEAN /\ c.old.consumed \in BOOLEAN
  BY <1>4 DEF Token
<1>6. db'[table][k].consumed = IF c.new.consumed # c.old.consumed THEN c.new.consumed ELSE db[table][k].consumed
  BY <1>5, Rewritten
<1>7. QED
  BY <1>3, <1>5, <1>6

LEMMA SpentStays ==
    ASSUME IInv, NEW r \in Requests, Commits(r), NEW table \in Tokens, NEW k \in Stored(table), db[table][k].consumed
    PROVE  db'[table][k].consumed
<1>1. CASE db'[table][k] = db[table][k]
  BY <1>1
<1>2. CASE db'[table][k] # db[table][k]
  <2>1. \E c \in req[r].writes : Rewrites(c, table, k)
    BY <1>2, TokenRows, ChangedRow
  <2>2. QED
    BY <2>1, TokenIsSpent
<1>3. QED
  BY <1>1, <1>2

(* The sessions.                                                           *)
LEMMA SessionRows ==
    ASSUME IInv, NEW r \in Requests, Commits(r)
    PROVE  /\ Stored("session") \subseteq Stored("session")' /\ Stored("session")' \subseteq Keys
           /\ \A k \in Stored("session") :
                 /\ db["session"][k] \in Session
                 /\ db'["session"][k].user_id = db["session"][k].user_id
                 /\ db'["session"][k].from = db["session"][k].from
                 /\ db'["session"][k].issued = db["session"][k].issued
           /\ \A k \in Stored("session")' : db'["session"][k] \in Session
<1>1. "session" \in DOMAIN Schema /\ Schema["session"].rows = Session /\ Schema["session"].keys = Keys /\ Schema["session"].kept
  BY SchemaTables
<1>2. /\ Stored("session") \subseteq Stored("session")' /\ Stored("session")' \subseteq Keys
      /\ \A k \in Stored("session") : db["session"][k] \in Session
      /\ \A k \in Stored("session")' : db'["session"][k] \in Session
  BY <1>1, RowsAfter
<1>3. ASSUME NEW k \in Stored("session"), NEW f \in {"user_id", "from", "issued"}
      PROVE  db'["session"][k][f] = db["session"][k][f]
  <2>1. f \in DOMAIN db["session"][k]
    BY <1>2 DEF Session
  <2>2. f \in Fixed
    BY DEF Fixed
  <2>3. k \in Stored("session") \cap Stored("session")'
    BY <1>2
  <2>4. QED
    BY <1>1, <2>1, <2>2, <2>3, FixedStay
<1>4. QED
  BY <1>2, <1>3

LEMMA SessionIsEnded ==
    ASSUME IInv, NEW r \in Requests, Commits(r), NEW k, NEW c \in req[r].writes, Rewrites(c, "session", k)
    PROVE  db'["session"][k].revoked
<1>1. IsJustified(c, req[r].writes, req[r].since) /\ c.table = "session" /\ c.key = k /\ c.old # None
  BY CommitsWhatIsJustified DEF Rewrites
<1>2. SessionIsJustified(c, req[r].writes, req[r].since)
  BY <1>1 DEF IsJustified
<1>3. c.new.revoked /\ (c.old.revoked => db["session"][k].revoked)
  BY <1>1, <1>2 DEF SessionIsJustified
<1>4. c.new \in Session /\ c.old \in Session
  BY Rewritten, SchemaTables
<1>5. "revoked" \in DOMAIN c.new /\ c.new.revoked \in BOOLEAN /\ c.old.revoked \in BOOLEAN
  BY <1>4 DEF Session
<1>6. db'["session"][k].revoked = IF c.new.revoked # c.old.revoked THEN c.new.revoked ELSE db["session"][k].revoked
  BY <1>5, Rewritten
<1>7. QED
  BY <1>3, <1>5, <1>6

LEMMA EndedStays ==
    ASSUME IInv, NEW r \in Requests, Commits(r), NEW k \in Stored("session"), db["session"][k].revoked
    PROVE  db'["session"][k].revoked
<1>1. CASE db'["session"][k] = db["session"][k]
  BY <1>1
<1>2. CASE db'["session"][k] # db["session"][k]
  <2>1. k \in Stored("session") \cap Stored("session")' /\ "session" \in DOMAIN Schema
    BY SessionRows, SchemaTables
  <2>2. \E c \in req[r].writes : Rewrites(c, "session", k)
    BY <1>2, <2>1, ChangedRow
  <2>3. QED
    BY <2>2, SessionIsEnded
<1>3. QED
  BY <1>1, <1>2

(* The users.                                                              *)
LEMMA UserRows ==
    ASSUME IInv, NEW r \in Requests, Commits(r)
    PROVE  /\ "user" \in DOMAIN Schema /\ Stored("user") \subseteq Stored("user")' /\ Stored("user")' \subseteq Users
           /\ \A u \in Stored("user") :
                 /\ db["user"][u] \in User
                 /\ db'["user"][u].org = db["user"][u].org /\ db'["user"][u].email = db["user"][u].email
           /\ \A u \in Stored("user")' : db'["user"][u] \in User
           /\ \A u \in Users : (u \notin Stored("user") => db["user"][u] = None) /\ (u \notin Stored("user")' => db'["user"][u] = None)
<1>1. "user" \in DOMAIN Schema /\ Schema["user"].rows = User /\ Schema["user"].keys = Users /\ Schema["user"].kept
  BY SchemaTables
<1>2. /\ Stored("user") \subseteq Stored("user")' /\ Stored("user")' \subseteq Users
      /\ \A k \in Stored("user") : db["user"][k] \in User
      /\ \A k \in Stored("user")' : db'["user"][k] \in User
      /\ \A u \in Users : (u \notin Stored("user") => db["user"][u] = None) /\ (u \notin Stored("user")' => db'["user"][u] = None)
  BY <1>1, RowsAfter
<1>3. ASSUME NEW k \in Stored("user"), NEW f \in {"org", "email"} PROVE db'["user"][k][f] = db["user"][k][f]
  <2>1. f \in DOMAIN db["user"][k]
    BY <1>2 DEF User
  <2>2. f \in Fixed
    BY DEF Fixed
  <2>3. k \in Stored("user") \cap Stored("user")'
    BY <1>2
  <2>4. QED
    BY <1>1, <2>1, <2>2, <2>3, FixedStay
<1>4. QED
  BY <1>1, <1>2, <1>3

-----------------------------------------------------------------------------
(* What a commit leaves of IdentityIsSound.                                *)

LEMMA InvitationsStayAnswered ==
    ASSUME IInv, NEW r \in Requests, Commits(r), NEW i \in Stored("invitation")', db'["invitation"][i].invitation = "accepted"
    PROVE  \E u \in Stored("user")' :
              db'["user"][u].org = db'["invitation"][i].org /\ db'["user"][u].email = db'["invitation"][i].email
<1> DEFINE row == db["invitation"][i]
           new == db'["invitation"][i]
<1>1. /\ "invitation" \in DOMAIN Schema /\ Schema["invitation"].rows = Invitation /\ Schema["invitation"].kept
      /\ new \in Invitation
  BY SchemaTables, RowsAfter
<1>2. ASSUME NEW c \in req[r].writes, c.table = "invitation", c.new.invitation = "accepted",
             c.new.org = new.org, c.new.email = new.email
      PROVE  \E u \in Stored("user")' : db'["user"][u].org = new.org /\ db'["user"][u].email = new.email
  <2>1. IsJustified(c, req[r].writes, req[r].since)
    BY CommitsWhatIsJustified
  <2>2. PICK e \in req[r].writes : Inserts(e, "user") /\ e.new.org = c.new.org /\ e.new.email = c.new.email
    BY <1>2, <2>1 DEF IsJustified, InvitationIsJustified
  <2>3. e.table = "user" /\ e.old = None
    BY <2>2 DEF Inserts
  <2>4. e.key \in Stored("user")' /\ db'["user"][e.key] = e.new
    BY <2>3, Inserted
  <2>5. QED
    BY <1>2, <2>2, <2>4
<1>3. CASE i \in Stored("invitation") /\ row.invitation = "accepted"
  <2>1. row \in Invitation /\ i \in Stored("invitation") \cap Stored("invitation")'
    BY <1>1, <1>3, RowsAfter
  <2>2. new.org = row.org /\ new.email = row.email
    <3>1. "org" \in DOMAIN row /\ "email" \in DOMAIN row
      BY <2>1 DEF Invitation
    <3>2. "org" \in Fixed /\ "email" \in Fixed
      BY DEF Fixed
    <3>3. QED
      BY <1>1, <2>1, <3>1, <3>2, FixedStay
  <2>3. WithEmail(row.org, row.email) # {}
    BY <1>3 DEF IInv, IdentityIsSound
  <2>4. PICK u \in Stored("user") : db["user"][u].org = row.org /\ db["user"][u].email = row.email
    BY <2>3 DEF WithEmail
  <2>5. QED
    BY <2>2, <2>4, UserRows
<1>4. CASE i \in Stored("invitation") /\ row.invitation # "accepted"
  <2>1. i \in Stored("invitation") \cap Stored("invitation")' /\ new # row
    BY <1>4
  <2>2. PICK c \in req[r].writes : Rewrites(c, "invitation", i)
    BY <1>1, <2>1, ChangedRow
  <2>3. c.new \in Invitation /\ c.table = "invitation"
    BY <1>1, <2>2, Rewritten DEF Rewrites
  <2>4. {"invitation", "org", "email"} \subseteq DOMAIN c.new
    BY <2>3 DEF Invitation
  <2>5. c.new.invitation = "accepted"
    BY <1>4, <2>2, <2>4, Rewritten
  <2>6. "org" \notin req[r].since /\ "email" \notin req[r].since
    BY CommitsWhatIsJustified DEF Fixed
  <2>7. new.org = c.new.org /\ new.email = c.new.email
    BY <1>1, <2>2, <2>4, <2>6, Taken
  <2>8. QED
    BY <1>2, <2>3, <2>5, <2>7
<1>5. CASE i \notin Stored("invitation")
  <2>1. PICK c \in req[r].writes : Inserts(c, "invitation") /\ c.key = i /\ new = c.new
    BY <1>1, <1>5, NewRow
  <2>2. QED
    BY <1>2, <2>1 DEF Inserts
<1>6. QED
  BY <1>3, <1>4, <1>5

LEMMA LocksStayForCause ==
    ASSUME IInv, NEW r \in Requests, Commits(r), Undisturbed({"attempts", "locked"}, {"attempts", "locked"})',
           NEW u \in Stored("user")'
    PROVE  IsLockedForCause(db'["user"][u])
<1> DEFINE row == db["user"][u]
           new == db'["user"][u]
           A == {"attempts", "locked"}
<1>1. "user" \in DOMAIN Schema /\ Schema["user"].rows = User /\ Schema["user"].kept /\ new \in User
  BY SchemaTables, UserRows
<1>2. Undisturbed(A, A) /\ (TouchedBy(r) \cap A = {} \/ req[r].since \cap A = {})
  BY CommitRaced
<1>3. CASE u \notin Stored("user")
  <2>1. PICK c \in req[r].writes : Inserts(c, "user") /\ new = c.new
    BY <1>1, <1>3, NewRow
  <2>2. UserIsJustified(c, req[r].writes, req[r].since)
    BY <2>1, CommitsWhatIsJustified DEF Inserts, IsJustified
  <2>3. QED
    BY <1>2, <2>1, <2>2 DEF UserIsJustified
<1>4. CASE u \in Stored("user")
  <2>1. u \in Stored("user") \cap Stored("user")' /\ row \in User /\ IsLockedForCause(row)
    BY <1>2, <1>4, UserRows DEF IInv, IdentityIsSound, IsLockedForCause
  <2>2. CASE TouchedBy(r) \cap A = {}
    <3>1. "attempts" \in DOMAIN row /\ "locked" \in DOMAIN row
      BY <2>1 DEF User
    <3>2. new.attempts = row.attempts /\ new.locked = row.locked
      BY <1>1, <2>1, <2>2, <3>1, RowsAfter
    <3>3. QED
      BY <2>1, <3>2 DEF IsLockedForCause
  <2>3. CASE req[r].since \cap A = {} /\ new # row
    <3>1. PICK c \in req[r].writes : Rewrites(c, "user", u)
      BY <1>1, <2>1, <2>3, ChangedRow
    <3>2. UserIsJustified(c, req[r].writes, req[r].since) /\ c.old # None /\ c.key = u
      BY <3>1, CommitsWhatIsJustified DEF Rewrites, IsJustified
    <3>3. IsLockedForCause(c.new) /\ (c.old.locked = "never" <=> row.locked = "never")
      BY <1>2, <2>3, <3>2 DEF UserIsJustified
    <3>4. "attempts" \in DOMAIN c.new /\ "locked" \in DOMAIN c.new
      <4>1. c.new \in User
        BY <1>1, <3>1, Rewritten
      <4>2. QED
        BY <4>1 DEF User
    <3>5. new.attempts = c.new.attempts
      <4>1. "attempts" \notin req[r].since
        BY <2>3
      <4>2. QED
        BY <1>1, <3>1, <3>4, <4>1, Taken
    <3>6. new.locked = IF c.new.locked # c.old.locked THEN c.new.locked ELSE row.locked
      BY <3>1, <3>4, Rewritten
    <3>7. QED
      BY <3>3, <3>5, <3>6 DEF IsLockedForCause
  <2>4. QED
    BY <1>2, <2>1, <2>2, <2>3
<1>5. QED
  BY <1>3, <1>4

(* The foreign keys, as the invariant has them.                            *)
LEMMA HaveTheirUser ==
    ASSUME IInv, NEW table \in {"session", "verify_token", "reset_token", "totp", "code"}, NEW k \in Stored(table)
    PROVE  db[table][k].user_id \in Stored("user")
  BY DEF IInv, IdentityIsSound, Constraints, AccountConstraints, Stored

LEMMA TokensStayAlone ==
    ASSUME IInv, NEW r \in Requests, Commits(r), NEW table \in Tokens, Undisturbed({table}, {table})', NEW u
    PROVE  \A k, l \in Outstanding(table, u)' : k = l
<1>1. Undisturbed({table}, {table}) /\ (table \notin TouchedBy(r) \/ table \notin req[r].since)
  BY CommitRaced
<1>2. table \in DOMAIN Schema
  BY TokenRows
<1>3. ASSUME NEW k \in Outstanding(table, u)'
      PROVE  k \in Stored(table)' /\ db'[table][k].user_id = u /\ ~db'[table][k].consumed
  BY DEF Outstanding, Of
<1>4. ASSUME NEW k \in Outstanding(table, u)', k \in Stored(table) PROVE k \in Outstanding(table, u)
  BY <1>3, <1>4, TokenRows, SpentStays DEF Outstanding, Of
<1>5. ASSUME NEW k \in Outstanding(table, u)', k \notin Stored(table)
      PROVE  \E c \in req[r].writes :
                /\ Inserts(c, table) /\ c.key = k /\ c.new.user_id = u /\ table \in TouchedBy(r)
                /\ TokenIsJustified(c, req[r].writes, req[r].since)
  <2>1. PICK c \in req[r].writes : Inserts(c, table) /\ c.key = k /\ db'[table][k] = c.new /\ table \in TouchedBy(r)
    BY <1>2, <1>3, <1>5, NewRow
  <2>2. TokenIsJustified(c, req[r].writes, req[r].since)
    BY <2>1, CommitsWhatIsJustified DEF Inserts, IsJustified, Tokens
  <2>3. QED
    BY <1>3, <2>1, <2>2
<1>6. ASSUME NEW k \in Outstanding(table, u)', NEW l \in Outstanding(table, u)', k \notin Stored(table) PROVE k = l
  <2>1. PICK c \in req[r].writes :
           /\ Inserts(c, table) /\ c.key = k /\ c.new.user_id = u /\ table \in TouchedBy(r)
           /\ TokenIsJustified(c, req[r].writes, req[r].since)
    BY <1>5, <1>6
  <2>2. CASE l \notin Stored(table)
    <3>1. PICK d \in req[r].writes : Inserts(d, table) /\ d.key = l
      BY <1>5, <2>2
    <3>2. QED
      BY <2>1, <3>1 DEF TokenIsJustified, Inserts
  <2>3. CASE l \in Stored(table)
    <3>1. l \in Outstanding(table, u) /\ table \notin req[r].since
      BY <1>1, <1>4, <2>1, <2>3
    <3>2. PICK e \in req[r].writes : Rewrites(e, table, l)
      BY <2>1, <3>1 DEF TokenIsJustified, Inserts
    <3>3. QED
      BY <1>3, <3>2, TokenIsSpent
  <2>4. QED
    BY <2>2, <2>3
<1>7. ASSUME NEW k \in Outstanding(table, u)', NEW l \in Outstanding(table, u)', k \in Stored(table), l \in Stored(table)
      PROVE k = l
  <2>1. k \in Outstanding(table, u) /\ l \in Outstanding(table, u)
    BY <1>4, <1>7
  <2>2. k \in Stored(table) /\ db[table][k].user_id = u
    BY <2>1 DEF Outstanding, Of
  <2>3. u \in Stored("user")
    BY <2>2, HaveTheirUser DEF Tokens
  <2>4. QED
    BY <1>1, <2>1, <2>3 DEF IInv, IdentityIsSound, Tokens
<1>8. QED
  BY <1>6, <1>7

-----------------------------------------------------------------------------
(* What a commit leaves of SessionsAreAccountedFor.                        *)

LEMMA NewSessionIsJustified ==
    ASSUME IInv, NEW r \in Requests, Commits(r), NEW s \in Stored("session")', s \notin Stored("session")
    PROVE  \E c \in req[r].writes :
              /\ Inserts(c, "session") /\ c.key = s /\ db'["session"][s] = c.new /\ "session" \in TouchedBy(r)
              /\ SessionIsJustified(c, req[r].writes, req[r].since)
<1>1. PICK c \in req[r].writes : Inserts(c, "session") /\ c.key = s /\ db'["session"][s] = c.new /\ "session" \in TouchedBy(r)
  BY NewRow, SchemaTables
<1>2. SessionIsJustified(c, req[r].writes, req[r].since)
  BY <1>1, CommitsWhatIsJustified DEF Inserts, IsJustified
<1>3. QED
  BY <1>1, <1>2

LEMMA TradedStayEnded ==
    ASSUME IInv, NEW r \in Requests, Commits(r), NEW s \in Stored("session")', NEW f, f = db'["session"][s].from, f # None
    PROVE  f \in Stored("session")' /\ db'["session"][f].revoked
<1>1. CASE s \in Stored("session")
  <2>1. db["session"][s].from = f
    BY <1>1, SessionRows
  <2>2. f \in Stored("session") /\ db["session"][f].revoked
    BY <1>1, <2>1 DEF IInv, SessionsAreAccountedFor
  <2>3. QED
    BY <2>2, SessionRows, EndedStays
<1>2. CASE s \notin Stored("session")
  <2>1. PICK c \in req[r].writes :
           /\ Inserts(c, "session") /\ db'["session"][s] = c.new
           /\ SessionIsJustified(c, req[r].writes, req[r].since)
    BY <1>2, NewSessionIsJustified
  <2>2. PICK e \in req[r].writes : Rewrites(e, "session", f)
    BY <2>1 DEF SessionIsJustified, Inserts
  <2>3. QED
    BY <2>2, Rewritten, SessionIsEnded
<1>3. QED
  BY <1>1, <1>2

LEMMA TradedStayOnce ==
    ASSUME IInv, NEW r \in Requests, Commits(r), Undisturbed({"session"}, {"revoked"})',
           NEW s \in Stored("session")', NEW t \in Stored("session")', s # t,
           db'["session"][s].from = db'["session"][t].from
    PROVE  db'["session"][s].from = None
<1> DEFINE f == db'["session"][s].from
<1>1. Undisturbed({"session"}, {"revoked"}) /\ ("session" \notin TouchedBy(r) \/ "revoked" \notin req[r].since)
  BY CommitRaced
<1>2. CASE s \in Stored("session") /\ t \in Stored("session")
  <2>1. db["session"][s].from = f /\ db["session"][t].from = f
    BY <1>2, SessionRows
  <2>2. QED
    BY <1>1, <1>2, <2>1 DEF IInv, SessionsAreAccountedFor
<1>3. CASE s \notin Stored("session") /\ t \notin Stored("session")
  <2>1. PICK c \in req[r].writes :
           Inserts(c, "session") /\ c.key = s /\ SessionIsJustified(c, req[r].writes, req[r].since)
    BY <1>3, NewSessionIsJustified
  <2>2. PICK d \in req[r].writes : Inserts(d, "session") /\ d.key = t
    BY <1>3, NewSessionIsJustified
  <2>3. QED
    BY <2>1, <2>2 DEF SessionIsJustified, Inserts
<1>4. ASSUME NEW a \in Stored("session")', NEW b \in Stored("session"), a \notin Stored("session"),
             db'["session"][a].from = f, db'["session"][b].from = f, f # None
      PROVE  FALSE
  <2>1. PICK c \in req[r].writes :
           /\ Inserts(c, "session") /\ db'["session"][a] = c.new /\ "session" \in TouchedBy(r)
           /\ SessionIsJustified(c, req[r].writes, req[r].since)
    BY <1>4, NewSessionIsJustified
  <2>2. ~db["session"][f].revoked
    BY <1>1, <1>4, <2>1 DEF SessionIsJustified, Inserts
  <2>3. db["session"][b].from = f
    BY <1>4, SessionRows
  <2>4. db["session"][f].revoked
    BY <1>4, <2>3 DEF IInv, SessionsAreAccountedFor
  <2>5. QED
    BY <2>2, <2>4
<1>5. QED
  BY <1>2, <1>3, <1>4

(* The resets that the row of a user has seen.                             *)
LEMMA ResetsStay ==
    ASSUME IInv, NEW r \in Requests, Commits(r), NEW u \in Stored("user"),
           NEW A, A = {"session", "resets"}, TouchedBy(r) \cap A = {} \/ req[r].since \cap A = {},
           db'["user"][u].resets # db["user"][u].resets
    PROVE  /\ \A c \in req[r].writes : ~Inserts(c, "session")
           /\ \A s \in ActiveSessions(u) : \E c \in req[r].writes : Rewrites(c, "session", s)
<1>1. /\ "user" \in DOMAIN Schema /\ u \in Stored("user") \cap Stored("user")' /\ "resets" \in DOMAIN db["user"][u]
      /\ Schema["user"].rows = User
  BY UserRows, SchemaTables DEF User
<1>2. "resets" \in TouchedBy(r)
  BY <1>1, RowsAfter
<1>3. req[r].since \cap A = {}
  BY <1>2
<1>4. PICK c \in req[r].writes : Rewrites(c, "user", u)
  BY <1>1, ChangedRow
<1>5. c.new \in User
  BY <1>1, <1>4, Rewritten
<1>6. c.new.resets # c.old.resets
  <2>1. "resets" \in DOMAIN c.new
    BY <1>5 DEF User
  <2>2. QED
    BY <1>4, <2>1, Rewritten
<1>7. IsJustified(c, req[r].writes, req[r].since) /\ c.table = "user" /\ c.key = u /\ c.old # None
  BY <1>4, CommitsWhatIsJustified DEF Rewrites
<1>8. ResetIsJustified(c, req[r].writes, req[r].since)
  BY <1>7 DEF IsJustified, UserIsJustified
<1>9. QED
  BY <1>3, <1>6, <1>7, <1>8 DEF ResetIsJustified

LEMMA ActiveStayCurrent ==
    ASSUME IInv, NEW r \in Requests, Commits(r), NEW A, A = {"session", "resets"}, Undisturbed(A, A)',
           NEW u \in Stored("user")', NEW s \in ActiveSessions(u)'
    PROVE  db'["session"][s].issued = db'["user"][u].resets
<1>1. Undisturbed(A, A) /\ (TouchedBy(r) \cap A = {} \/ req[r].since \cap A = {})
  BY CommitRaced
<1>2. s \in Stored("session")' /\ db'["session"][s].user_id = u /\ ~db'["session"][s].revoked
  BY DEF ActiveSessions, Of
<1>3. CASE s \in Stored("session")
  <2>1. /\ s \in ActiveSessions(u) /\ db["session"][s].user_id = u
        /\ db'["session"][s].issued = db["session"][s].issued
    BY <1>2, <1>3, SessionRows, EndedStays DEF ActiveSessions, Of
  <2>2. u \in Stored("user")
    BY <1>3, <2>1, HaveTheirUser
  <2>3. db["session"][s].issued = db["user"][u].resets
    BY <1>1, <2>1, <2>2 DEF IInv, SessionsAreAccountedFor
  <2>4. ASSUME db'["user"][u].resets # db["user"][u].resets PROVE FALSE
    <3>1. PICK c \in req[r].writes : Rewrites(c, "session", s)
      BY <1>1, <2>1, <2>2, <2>4, ResetsStay
    <3>2. QED
      BY <1>2, <3>1, SessionIsEnded
  <2>5. QED
    BY <2>1, <2>3, <2>4
<1>4. CASE s \notin Stored("session")
  <2>1. PICK c \in req[r].writes :
           /\ Inserts(c, "session") /\ db'["session"][s] = c.new /\ "session" \in TouchedBy(r)
           /\ SessionIsJustified(c, req[r].writes, req[r].since)
    BY <1>2, <1>4, NewSessionIsJustified
  <2>2. req[r].since \cap A = {} /\ "resets" \notin req[r].since
    BY <1>1, <2>1
  <2>3. u \in Stored("user") /\ c.new.issued = db["user"][u].resets
    BY <1>2, <2>1, <2>2 DEF SessionIsJustified, Inserts
  <2>4. db'["user"][u].resets = db["user"][u].resets
    BY <2>1, <2>2, <2>3, ResetsStay
  <2>5. QED
    BY <2>1, <2>3, <2>4
<1>5. QED
  BY <1>3, <1>4

-----------------------------------------------------------------------------
(* What a commit leaves of MfaHasItsFactor.                                *)
Factors == {"mfa", "verified", "totp"}

LEMMA FactorRows ==
    ASSUME IInv, NEW r \in Requests, Commits(r)
    PROVE  /\ "totp" \in DOMAIN Schema /\ Schema["totp"].rows = TotpFactor
           /\ \A k \in Stored("totp") : db["totp"][k] \in TotpFactor
           /\ \A k \in Stored("totp")' : db'["totp"][k] \in TotpFactor
           /\ \A k \in Stored("totp") \cap Stored("totp")' : db'["totp"][k].user_id = db["totp"][k].user_id
           /\ \A k \in Stored("totp")' \ Stored("totp") : ~db'["totp"][k].verified
<1>1. "totp" \in DOMAIN Schema /\ Schema["totp"].rows = TotpFactor
  BY SchemaTables
<1>2. /\ \A k \in Stored("totp") : db["totp"][k] \in TotpFactor
      /\ \A k \in Stored("totp")' : db'["totp"][k] \in TotpFactor
  BY <1>1, RowsAfter
<1>3. ASSUME NEW k \in Stored("totp") \cap Stored("totp")' PROVE db'["totp"][k].user_id = db["totp"][k].user_id
  <2>1. "user_id" \in DOMAIN db["totp"][k]
    BY <1>2 DEF TotpFactor
  <2>2. "user_id" \in Fixed
    BY DEF Fixed
  <2>3. QED
    BY <1>1, <2>1, <2>2, FixedStay
<1>4. ASSUME NEW k \in Stored("totp")' \ Stored("totp") PROVE ~db'["totp"][k].verified
  <2>1. PICK c \in req[r].writes : Inserts(c, "totp") /\ db'["totp"][k] = c.new
    BY <1>1, NewRow
  <2>2. FactorIsJustified(c, req[r].writes)
    BY <2>1, CommitsWhatIsJustified DEF Inserts, IsJustified
  <2>3. QED
    BY <2>1, <2>2 DEF FactorIsJustified, Inserts
<1>5. QED
  BY <1>1, <1>2, <1>3, <1>4

(* Unless it was overtaken, a commit takes a mark that it writes.          *)
LEMMA MarkTaken ==
    ASSUME IInv, NEW r \in Requests, Commits(r), req[r].since \cap Factors = {},
           NEW u, NEW c \in req[r].writes, Rewrites(c, "user", u)
    PROVE  u \in Stored("user") /\ db'["user"][u].mfa = c.new.mfa /\ db["user"][u].mfa = c.old.mfa
<1>1. u \in Stored("user") /\ c.new \in User /\ Schema["user"].kept
  BY Rewritten, SchemaTables
<1>2. "mfa" \in DOMAIN c.new /\ "mfa" \notin req[r].since
  BY <1>1 DEF User, Factors
<1>3. QED
  BY <1>1, <1>2, Taken

LEMMA FactorRewritten ==
    ASSUME IInv, NEW r \in Requests, Commits(r), req[r].since \cap Factors = {},
           NEW k, NEW c \in req[r].writes, Rewrites(c, "totp", k)
    PROVE  /\ k \in Stored("totp")' /\ db'["totp"][k].verified /\ db'["totp"][k].user_id = c.new.user_id
           /\ db'["user"][c.new.user_id].mfa
<1>1. k \in Stored("totp")' /\ c.new \in TotpFactor /\ c.table = "totp" /\ c.old # None /\ c.new # None
  BY Rewritten, SchemaTables DEF Rewrites
<1>2. FactorIsJustified(c, req[r].writes)
  BY <1>1, CommitsWhatIsJustified DEF IsJustified
<1>3. c.new.verified /\ \E e \in req[r].writes : Rewrites(e, "user", c.new.user_id) /\ e.new.mfa
  BY <1>1, <1>2 DEF FactorIsJustified
<1>4. db'["user"][c.new.user_id].mfa
  BY <1>3, MarkTaken
<1>5. /\ "verified" \in DOMAIN c.new /\ "user_id" \in DOMAIN c.new
      /\ "totp" \notin req[r].since /\ "verified" \notin req[r].since /\ "user_id" \notin req[r].since
  BY <1>1, CommitsWhatIsJustified DEF TotpFactor, Factors, Fixed
<1>6. db'["totp"][k].verified = c.new.verified /\ db'["totp"][k].user_id = c.new.user_id
  BY <1>5, Taken
<1>7. QED
  BY <1>1, <1>3, <1>4, <1>6

LEMMA FactorGone ==
    ASSUME IInv, NEW r \in Requests, Commits(r), req[r].since \cap Factors = {},
           NEW k \in Stored("totp"), k \notin Stored("totp")'
    PROVE  ~db'["user"][db["totp"][k].user_id].mfa
<1>1. PICK c \in req[r].writes : Removes(c, "totp", k) /\ c.old # None
  BY FactorRows, GoneRow
<1>2. c.table = "totp" /\ c.key = k /\ c.new = None
  BY <1>1 DEF Removes
<1>3. PICK e \in req[r].writes : Rewrites(e, "user", c.old.user_id) /\ ~e.new.mfa
  BY <1>2, CommitsWhatIsJustified DEF IsJustified, FactorIsJustified
<1>4. c.old \in TotpFactor /\ IsCurrent(c, req[r].since \cup Drift, Schema)
  BY <1>1, <1>2, CommitsWhatIsJustified, SchemaTables DEF IsChange
<1>5. "user_id" \in DOMAIN c.old /\ "totp" \notin req[r].since \cup Drift /\ "user_id" \notin req[r].since \cup Drift
  BY <1>4, CommitsWhatIsJustified DEF TotpFactor, Factors, Fixed, Drift
<1>6. db["totp"][k].user_id = c.old.user_id
  BY <1>1, <1>2, <1>4, <1>5 DEF IsCurrent
<1>7. QED
  BY <1>3, <1>6, MarkTaken

LEMMA MarkChanged ==
    ASSUME IInv, NEW r \in Requests, Commits(r), req[r].since \cap Factors = {},
           NEW u \in Stored("user"), db'["user"][u].mfa # db["user"][u].mfa
    PROVE  /\ db'["user"][u].mfa => \E k \in Stored("totp")' : db'["totp"][k].user_id = u /\ db'["totp"][k].verified
           /\ ~db'["user"][u].mfa => \A k \in Of("totp", u) : k \notin Stored("totp")'
<1>1. "user" \in DOMAIN Schema /\ u \in Stored("user") \cap Stored("user")'
  BY UserRows
<1>2. PICK c \in req[r].writes : Rewrites(c, "user", u)
  BY <1>1, ChangedRow
<1>3. c.new.mfa = db'["user"][u].mfa /\ c.new.mfa # c.old.mfa
  BY <1>2, MarkTaken
<1>4. c.table = "user" /\ c.key = u /\ c.old # None
  BY <1>2 DEF Rewrites
<1>5. MarkIsJustified(c, req[r].writes, req[r].since)
  BY <1>4, CommitsWhatIsJustified DEF IsJustified, UserIsJustified
<1>6. /\ c.new.mfa => \E e \in req[r].writes, k \in Keys : Rewrites(e, "totp", k) /\ e.new.user_id = u
      /\ ~c.new.mfa => \A k \in Of("totp", u) : \E e \in req[r].writes : Removes(e, "totp", k)
  BY <1>3, <1>4, <1>5 DEF MarkIsJustified, Factors
<1>7. ASSUME db'["user"][u].mfa PROVE \E k \in Stored("totp")' : db'["totp"][k].user_id = u /\ db'["totp"][k].verified
  <2>1. PICK e \in req[r].writes, k \in Keys : Rewrites(e, "totp", k) /\ e.new.user_id = u
    BY <1>3, <1>6, <1>7
  <2>2. QED
    BY <2>1, FactorRewritten
<1>8. ASSUME ~db'["user"][u].mfa, NEW k \in Of("totp", u) PROVE k \notin Stored("totp")'
  <2>1. PICK e \in req[r].writes : Removes(e, "totp", k)
    BY <1>3, <1>6, <1>8
  <2>2. "totp" \notin req[r].since
    BY DEF Factors
  <2>3. QED
    BY <2>1, <2>2, Removed
<1>9. QED
  BY <1>7, <1>8

LEMMA FactorsStayMarked ==
    ASSUME IInv, NEW r \in Requests, Commits(r), Undisturbed(Factors, Factors)', NEW u \in Stored("user")'
    PROVE  db'["user"][u].mfa <=> \E k \in Stored("totp")' : db'["totp"][k].user_id = u /\ db'["totp"][k].verified
<1>1. Undisturbed(Factors, Factors) /\ (TouchedBy(r) \cap Factors = {} \/ req[r].since \cap Factors = {})
  BY CommitRaced
<1>2. ASSUME NEW k \in Stored("totp")', k \in Stored("totp")
      PROVE  db'["totp"][k].user_id = db["totp"][k].user_id /\ db["totp"][k].user_id \in Stored("user")
  BY <1>2, FactorRows, HaveTheirUser
<1>3. CASE u \notin Stored("user")
  <2>1. PICK c \in req[r].writes : Inserts(c, "user") /\ db'["user"][u] = c.new
    BY <1>3, UserRows, NewRow
  <2>2. UserIsJustified(c, req[r].writes, req[r].since)
    BY <2>1, CommitsWhatIsJustified DEF Inserts, IsJustified
  <2>3. ~db'["user"][u].mfa
    BY <2>1, <2>2 DEF UserIsJustified, Inserts
  <2>4. \A k \in Stored("totp")' : ~(db'["totp"][k].user_id = u /\ db'["totp"][k].verified)
    BY <1>2, <1>3, FactorRows
  <2>5. QED
    BY <2>3, <2>4
<1>4. CASE u \in Stored("user")
  <2> DEFINE IsAFactor(k) == k \in Stored("totp") /\ db["totp"][k].user_id = u /\ db["totp"][k].verified
             IsAFactorNow(k) == k \in Stored("totp")' /\ db'["totp"][k].user_id = u /\ db'["totp"][k].verified
  <2>1. db["user"][u].mfa <=> \E k : IsAFactor(k)
    <3>1. db["user"][u].mfa <=> VerifiedTotp(u) # {}
      BY <1>1, <1>4 DEF IInv, MfaHasItsFactor, Factors
    <3>2. QED
      BY <3>1 DEF VerifiedTotp, Of
  <2>2. CASE TouchedBy(r) \cap Factors = {}
    <3>1. "totp" \notin TouchedBy(r) /\ "mfa" \notin TouchedBy(r) /\ "verified" \notin TouchedBy(r)
      BY <2>2 DEF Factors
    <3>2. Stored("totp")' = Stored("totp")
      BY <3>1, FactorRows, RowsAfter
    <3>3. ASSUME NEW k \in Stored("totp") PROVE db'["totp"][k].verified = db["totp"][k].verified
      <4>1. "verified" \in DOMAIN db["totp"][k]
        BY <3>3, FactorRows DEF TotpFactor
      <4>2. QED
        BY <3>1, <3>2, <4>1, FactorRows, RowsAfter
    <3>4. db'["user"][u].mfa = db["user"][u].mfa
      <4>1. "mfa" \in DOMAIN db["user"][u]
        BY <1>4, UserRows DEF User
      <4>2. u \in Stored("user") \cap Stored("user")' /\ "user" \in DOMAIN Schema
        BY <1>4, UserRows
      <4>3. QED
        BY <3>1, <4>1, <4>2, RowsAfter
    <3>5. \A k : IsAFactor(k) <=> IsAFactorNow(k)
      BY <1>2, <3>2, <3>3
    <3> HIDE DEF IsAFactor
    <3>6. QED
      BY <2>1, <3>4, <3>5
  <2>3. CASE req[r].since \cap Factors = {}
    <3>1. ASSUME db'["user"][u].mfa, db["user"][u].mfa PROVE \E k : IsAFactorNow(k)
      <4>1. PICK k : IsAFactor(k)
        BY <2>1, <3>1
      <4>2. k \in Stored("totp")'
        BY <2>3, <3>1, <4>1, FactorGone
      <4>3. CASE db'["totp"][k] = db["totp"][k]
        BY <4>1, <4>2, <4>3
      <4>4. CASE db'["totp"][k] # db["totp"][k]
        <5>1. PICK c \in req[r].writes : Rewrites(c, "totp", k)
          BY <4>1, <4>2, <4>4, FactorRows, ChangedRow
        <5>2. db'["totp"][k].verified
          BY <2>3, <5>1, FactorRewritten
        <5>3. QED
          BY <1>2, <4>1, <4>2, <5>2
      <4>5. QED
        BY <4>3, <4>4
    <3>2. ASSUME ~db'["user"][u].mfa, ~db["user"][u].mfa, NEW k, IsAFactorNow(k) PROVE FALSE
      <4>1. k \in Stored("totp") /\ ~IsAFactor(k) /\ db["totp"][k].user_id = u
        BY <1>2, <2>1, <3>2, FactorRows
      <4>2. PICK c \in req[r].writes : Rewrites(c, "totp", k)
        BY <3>2, <4>1, FactorRows, ChangedRow
      <4>3. QED
        BY <2>3, <3>2, <4>2, FactorRewritten
    <3>3. ASSUME db'["user"][u].mfa, ~db["user"][u].mfa PROVE \E k : IsAFactorNow(k)
      BY <1>4, <2>3, <3>3, MarkChanged
    <3>4. ASSUME ~db'["user"][u].mfa, db["user"][u].mfa, NEW k, IsAFactorNow(k) PROVE FALSE
      <4>1. k \in Stored("totp") /\ db["totp"][k].user_id = u
        BY <1>2, <3>4, FactorRows
      <4>2. k \in Of("totp", u)
        BY <4>1 DEF Of
      <4>3. db'["user"][u].mfa # db["user"][u].mfa
        BY <3>4
      <4>4. QED
        BY <1>4, <2>3, <3>4, <4>2, <4>3, MarkChanged
    <3> HIDE DEF IsAFactor
    <3>5. QED
      BY <3>1, <3>2, <3>3, <3>4
  <2>4. QED
    BY <1>1, <2>2, <2>3
<1>5. QED
  BY <1>3, <1>4

-----------------------------------------------------------------------------
(* What a commit leaves of HierarchiesHaveNoCycle.                         *)

LEMMA ColumnsOfNodes ==
    ASSUME NEW table \in {"team", "role"}, NEW other \in DOMAIN Schema, NEW row \in Schema[other].rows
    PROVE  Column(table) \in DOMAIN row <=> other = table
<1>1. DOMAIN Schema = {"organization", "role", "user_role", "user", "session", "verify_token", "reset_token",
                       "totp", "code", "team", "team_member", "invitation"}
  BY SchemaTables
<1>2. Column("team") = "parent_team" /\ Column("role") = "parent_role"
  BY DEF Column
<1> DEFINE Has(rows, f) == \A new \in rows : f \in DOMAIN new
           Lacks(rows, f) == \A new \in rows : f \notin DOMAIN new
<1>3. /\ Has(Team, "parent_team") /\ Lacks(Team, "parent_role")
      /\ Has(Role, "parent_role") /\ Lacks(Role, "parent_team")
  BY DEF Team, Role
<1>4. ASSUME NEW f \in {"parent_team", "parent_role"}
      PROVE  /\ Lacks(Organization, f) /\ Lacks(UserRole, f) /\ Lacks(User, f) /\ Lacks(Session, f) /\ Lacks(Token, f)
             /\ Lacks(TotpFactor, f) /\ Lacks(RecoveryCode, f) /\ Lacks(TeamMembership, f) /\ Lacks(Invitation, f)
  BY <1>4 DEF Organization, UserRole, User, Session, Token, TotpFactor, RecoveryCode, TeamMembership, Invitation
<1>5. Column(table) \in {"parent_team", "parent_role"}
  BY <1>2
<1>6. ASSUME other \notin {"team", "role"} PROVE Lacks(Schema[other].rows, Column(table))
  BY <1>1, <1>4, <1>5, <1>6, SchemaTables
<1>7. ASSUME other \in {"team", "role"} PROVE Column(table) \in DOMAIN row <=> other = table
  BY <1>2, <1>3, <1>7, SchemaTables
<1>8. QED
  BY <1>6, <1>7

LEMMA NodesAfter ==
    ASSUME IInv, NEW r \in Requests, Commits(r), NEW table \in {"team", "role"}
    PROVE  /\ table \in DOMAIN Schema /\ None \notin Stored(table) /\ None \notin Stored(table)'
           /\ \A k \in Stored(table) : ParentIn(table, k) \in Stored(table) \cup {None}
           /\ \A k \in Stored(table)' \ Stored(table) :
                 ParentIn(table, k)' = None \/ (table = "team" /\ ParentIn(table, k)' \in Stored(table))
           /\ Column(table) \notin TouchedBy(r) =>
                 \A k \in Stored(table) \cap Stored(table)' : ParentIn(table, k)' = ParentIn(table, k)
           /\ \A k \in Stored(table) : IsFound(table, k)' => IsFound(table, k)
<1> DEFINE col == Column(table)
<1>1. table \in DOMAIN Schema /\ None \notin Schema[table].keys
  BY SchemaTables, NoneIsNoRow
<1>2. None \notin Stored(table) /\ None \notin Stored(table)'
  BY <1>1, RowsAfter
<1>3. ASSUME NEW k \in Stored(table) PROVE ParentIn(table, k) \in Stored(table) \cup {None}
  BY StoredNode DEF ParentIn, Column
<1>4. ASSUME NEW k \in Stored(table)' \ Stored(table)
      PROVE  ParentIn(table, k)' = None \/ (table = "team" /\ ParentIn(table, k)' \in Stored(table))
  <2>1. PICK c \in req[r].writes : Inserts(c, table) /\ db'[table][k] = c.new
    BY <1>1, <1>4, NewRow
  <2>2. NodeIsJustified(c, req[r].writes, req[r].since) /\ c.old = None /\ c.table = table
    BY <2>1, CommitsWhatIsJustified DEF Inserts, IsJustified
  <2>3. c.new[col] = None \/ (table = "team" /\ c.new[col] \in Stored(table))
    BY <2>2 DEF NodeIsJustified
  <2>4. ParentIn(table, k)' = c.new[col]
    BY <2>1 DEF ParentIn, Column
  <2>5. QED
    BY <2>3, <2>4
<1>5. ASSUME col \notin TouchedBy(r), NEW k \in Stored(table) \cap Stored(table)' PROVE ParentIn(table, k)' = ParentIn(table, k)
  <2>1. db[table][k] \in Schema[table].rows
    BY <1>1, RowsAfter
  <2>2. col \in DOMAIN db[table][k]
    BY <1>1, <2>1, ColumnsOfNodes
  <2>3. db'[table][k][col] = db[table][k][col]
    BY <1>1, <1>5, <2>2, RowsAfter
  <2>4. QED
    BY <2>3 DEF ParentIn, Column
<1>6. ASSUME NEW k \in Stored(table), IsFound(table, k)' PROVE IsFound(table, k)
  <2>1. CASE table = "role"
    BY <1>6, <2>1 DEF IsFound
  <2>2. CASE table = "team"
    <3>1. db["team"][k] # None /\ db'["team"][k] # None /\ ~db'["team"][k].deleted
      BY <1>6, <2>2 DEF IsFound, LiveTeam, Stored, Rows
    <3>2. k \in Stored("team") \cap Stored("team")'
      BY <1>6, <2>2, SchemaTables, RowsAfter
    <3>3. ASSUME db["team"][k].deleted PROVE FALSE
      <4>1. db'["team"][k] # db["team"][k]
        BY <3>1, <3>3
      <4>2. PICK c \in req[r].writes : Rewrites(c, "team", k)
        BY <1>1, <2>2, <3>2, <4>1, ChangedRow
      <4>3. NodeIsJustified(c, req[r].writes, req[r].since) /\ c.old # None /\ c.new # None /\ c.table = "team"
        BY <4>2, CommitsWhatIsJustified DEF Rewrites, IsJustified
      <4>4. c.old.deleted => c.new.deleted
        BY <4>3 DEF NodeIsJustified
      <4>5. c.new \in Team /\ c.old \in Team
        BY <4>2, Rewritten, SchemaTables
      <4>6. "deleted" \in DOMAIN c.new /\ c.new.deleted \in BOOLEAN /\ c.old.deleted \in BOOLEAN
        BY <4>5 DEF Team
      <4>7. db'["team"][k].deleted = IF c.new.deleted # c.old.deleted THEN c.new.deleted ELSE db["team"][k].deleted
        BY <4>2, <4>6, Rewritten
      <4>8. QED
        BY <3>1, <3>3, <4>4, <4>6, <4>7
    <3>4. QED
      BY <2>2, <3>1, <3>3 DEF IsFound, LiveTeam
  <2>3. QED
    BY <2>1, <2>2
<1>7. QED
  BY <1>1, <1>2, <1>3, <1>4, <1>5, <1>6

(* A commit that moves no node closes no cycle; a new node is below what   *)
(* was there, and closes none.                                             *)
IsAcyclic(table, seen) ==
    \A S \in SUBSET Stored(table) : (\A k \in S : (IsFound(table, k) \/ k \in seen) /\ ParentIn(table, k) \in S) => S = {}

LEMMA StaysAcyclic ==
    ASSUME IInv, NEW r \in Requests, Commits(r), NEW table \in {"team", "role"}, Column(table) \notin TouchedBy(r),
           NEW seen, IsAcyclic(table, seen)
    PROVE  IsAcyclic(table, seen)'
<1>1. SUFFICES ASSUME NEW S \in SUBSET Stored(table)',
                      \A k \in S : (IsFound(table, k)' \/ k \in seen) /\ ParentIn(table, k)' \in S
               PROVE  S = {}
  BY DEF IsAcyclic
<1> DEFINE Q == S \cap Stored(table)
<1>2. ASSUME NEW k \in Q PROVE (IsFound(table, k) \/ k \in seen) /\ ParentIn(table, k) \in Q
  <2>1. k \in Stored(table) \cap Stored(table)' /\ k \in S
    BY <1>2
  <2>2. ParentIn(table, k)' = ParentIn(table, k) /\ ParentIn(table, k) \in Stored(table) \cup {None}
    BY <2>1, NodesAfter
  <2>3. None \notin S
    BY NodesAfter
  <2>4. QED
    BY <1>1, <2>1, <2>2, <2>3, NodesAfter
<1>3. Q \in SUBSET Stored(table)
  OBVIOUS
<1>4. Q = {}
  <2> HIDE DEF Q
  <2>1. QED
    BY <1>2, <1>3 DEF IsAcyclic
<1>5. ASSUME NEW k \in S PROVE FALSE
  <2>1. k \in Stored(table)' \ Stored(table) /\ ParentIn(table, k)' \in S /\ None \notin S
    BY <1>1, <1>4, <1>5, NodesAfter
  <2>2. ParentIn(table, k)' \in Stored(table)
    BY <2>1, NodesAfter
  <2>3. QED
    BY <1>4, <2>1, <2>2
<1>6. QED
  BY <1>5

(* A move changes one row, and there was no way up from the new parent to  *)
(* the node.                                                               *)
LEMMA MoveIsAlone ==
    ASSUME IInv, NEW r \in Requests, Commits(r), NEW table \in {"team", "role"}, Column(table) \in TouchedBy(r),
           Column(table) \notin req[r].since
    PROVE  \E c :
              /\ req[r].writes = {c} /\ Rewrites(c, table, c.key) /\ ParentIn(table, c.key)' = c.new[Column(table)]
              /\ c.new[Column(table)] = None \/ NoWayUp(table, c.new[Column(table)], c.key)
<1> DEFINE col == Column(table)
<1>1. PICK c \in req[r].writes : col \in Touched(c)
  BY DEF TouchedBy
<1>2. IsChange(c, Schema) /\ IsJustified(c, req[r].writes, req[r].since)
  BY CommitsWhatIsJustified
<1>3. c.table \in DOMAIN Schema /\ col # c.table
  BY <1>2, SchemaTables DEF IsChange, Column
<1>4. c.old # None /\ c.new # None /\ Touched(c) = {f \in DOMAIN c.new : c.new[f] # c.old[f]}
  BY <1>1, <1>3 DEF Touched
<1>5. c.new \in Schema[c.table].rows /\ col \in DOMAIN c.new /\ c.new[col] # c.old[col]
  BY <1>1, <1>2, <1>4 DEF IsChange
<1>6. c.table = table
  BY <1>3, <1>5, ColumnsOfNodes
<1>7. Rewrites(c, table, c.key) /\ NodeIsJustified(c, req[r].writes, req[r].since)
  BY <1>2, <1>4, <1>6 DEF Rewrites, IsJustified
<1>8. req[r].writes = {c} /\ (c.new[col] = None \/ NoWayUp(table, c.new[col], c.key))
  BY <1>4, <1>5, <1>6, <1>7 DEF NodeIsJustified
<1>9. db'[table][c.key][col] = c.new[col]
  BY <1>5, <1>7, Rewritten
<1>10. ParentIn(table, c.key)' = c.new[col]
  BY <1>9 DEF ParentIn, Column
<1>11. QED
  BY <1>7, <1>8, <1>10

LEMMA HierarchyStays ==
    ASSUME IInv, NEW r \in Requests, Commits(r), NEW table \in {"team", "role"}, NEW col, col = Column(table),
           Undisturbed({col}, {col})'
    PROVE  IsHierarchy(table)'
<1>1. Undisturbed({col}, {col}) /\ (col \notin TouchedBy(r) \/ col \notin req[r].since)
  BY CommitRaced
<1>2. IsHierarchy(table)
  BY <1>1 DEF IInv, HierarchiesHaveNoCycle
<1>3. CASE col \notin TouchedBy(r)
  <2>1. IsAcyclic(table, {})
    BY <1>2 DEF IsAcyclic, IsHierarchy
  <2>2. IsAcyclic(table, {})'
    BY <1>3, <2>1, StaysAcyclic
  <2>3. QED
    BY <2>2 DEF IsAcyclic, IsHierarchy
<1>4. CASE col \in TouchedBy(r)
  <2>1. PICK c :
           /\ req[r].writes = {c} /\ Rewrites(c, table, c.key) /\ ParentIn(table, c.key)' = c.new[col]
           /\ c.new[col] = None \/ NoWayUp(table, c.new[col], c.key)
    BY <1>1, <1>4, MoveIsAlone
  <2> DEFINE n == c.key
             p == c.new[col]
  <2>2. Stored(table)' \subseteq Stored(table)
    <3>1. ASSUME NEW k \in Stored(table)', k \notin Stored(table) PROVE FALSE
      BY <2>1, <3>1, NodesAfter, NewRow DEF Inserts, Rewrites
    <3>2. QED
      BY <3>1
  <2>3. ASSUME NEW k \in Stored(table)', k # n PROVE ParentIn(table, k)' = ParentIn(table, k)
    <3>1. k \in Stored(table) \cap Stored(table)'
      BY <2>2, <2>3
    <3>2. db'[table][k] = db[table][k]
      BY <2>1, <2>3, <3>1, NodesAfter, ChangedRow DEF Rewrites
    <3>3. QED
      BY <3>2 DEF ParentIn, Column
  <2>4. SUFFICES ASSUME NEW S \in SUBSET Stored(table)', \A k \in S : IsFound(table, k)' /\ ParentIn(table, k)' \in S
                 PROVE  S = {}
    BY DEF IsHierarchy
  <2>5. S \subseteq Stored(table) /\ None \notin S /\ \A k \in S : IsFound(table, k)
    BY <2>2, <2>4, NodesAfter
  <2>6. CASE n \notin S
    <3>1. \A k \in S : IsFound(table, k) /\ ParentIn(table, k) \in S
      BY <2>3, <2>4, <2>5, <2>6
    <3>2. QED
      BY <1>2, <2>5, <3>1 DEF IsHierarchy
  <2>7. CASE n \in S
    <3>1. p \in S /\ p # None
      BY <2>1, <2>4, <2>5, <2>7
    <3>2. PICK V \in SUBSET Schema[table].keys : p \in V /\ n \notin V /\ IsClosed(table, V)
      BY <2>1, <3>1 DEF NoWayUp
    <3> DEFINE Q == S \cap V
    <3>3. ASSUME NEW k \in Q PROVE IsFound(table, k) /\ ParentIn(table, k) \in Q
      <4>1. k \in S /\ k \in V /\ k # n /\ IsFound(table, k)
        BY <2>5, <3>2, <3>3
      <4>2. ParentIn(table, k) = ParentIn(table, k)' /\ ParentIn(table, k) \in S
        BY <2>3, <2>4, <4>1
      <4>3. ParentIn(table, k) \in V \cup {None}
        BY <3>2, <4>1 DEF IsClosed
      <4>4. QED
        BY <2>5, <4>1, <4>2, <4>3
    <3>4. Q \in SUBSET Stored(table) /\ p \in Q
      BY <2>5, <3>1, <3>2
    <3> HIDE DEF Q
    <3>5. QED
      BY <1>2, <3>3, <3>4 DEF IsHierarchy
  <2>8. QED
    BY <2>6, <2>7
<1>5. QED
  BY <1>3, <1>4

-----------------------------------------------------------------------------
(* The other requests: what they have made sure of still holds, as far as  *)
(* the commit has not touched it.                                          *)

LEMMA SetsShrink ==
    ASSUME IInv, NEW r \in Requests, Commits(r)
    PROVE  /\ "totp" \notin TouchedBy(r) => \A u : Of("totp", u)' \subseteq Of("totp", u)
           /\ "session" \notin TouchedBy(r) => \A u : ActiveSessions(u)' \subseteq ActiveSessions(u)
           /\ \A table \in Tokens :
                 table \notin TouchedBy(r) => \A u : Outstanding(table, u)' \subseteq Outstanding(table, u)
<1>1. ASSUME "totp" \notin TouchedBy(r), NEW u, NEW k \in Of("totp", u)' PROVE k \in Of("totp", u)
  <2>1. k \in Stored("totp")' /\ db'["totp"][k].user_id = u
    BY <1>1 DEF Of
  <2>2. k \in Stored("totp")
    BY <1>1, <2>1, FactorRows, RowsAfter
  <2>3. QED
    BY <2>1, <2>2, FactorRows DEF Of
<1>2. ASSUME "session" \notin TouchedBy(r), NEW u, NEW k \in ActiveSessions(u)' PROVE k \in ActiveSessions(u)
  <2>1. k \in Stored("session")' /\ db'["session"][k].user_id = u /\ ~db'["session"][k].revoked
    BY <1>2 DEF ActiveSessions, Of
  <2>2. k \in Stored("session")
    BY <1>2, <2>1, SchemaTables, RowsAfter
  <2>3. QED
    BY <2>1, <2>2, SessionRows, EndedStays DEF ActiveSessions, Of
<1>3. ASSUME NEW table \in Tokens, table \notin TouchedBy(r), NEW u, NEW k \in Outstanding(table, u)'
      PROVE  k \in Outstanding(table, u)
  <2>1. k \in Stored(table)' /\ db'[table][k].user_id = u /\ ~db'[table][k].consumed
    BY <1>3 DEF Outstanding, Of
  <2>2. k \in Stored(table)
    BY <1>3, <2>1, TokenRows, RowsAfter
  <2>3. QED
    BY <2>1, <2>2, TokenRows, SpentStays DEF Outstanding, Of
<1>4. QED
  BY <1>1, <1>2, <1>3

(* A row of a table that keeps its rows, once read, is there.              *)
LEMMA ReadIsStored ==
    ASSUME IInv, NEW c, IsChange(c, Schema), NEW since, IsCurrent(c, since, Schema), c.old # None,
           NEW table, table = c.table, Schema[table].kept
    PROVE  c.key \in Stored(table)
<1>1. db[table][c.key] # None
  BY DEF IsCurrent, SameRow
<1>2. table \in DOMAIN Schema /\ c.key \in Schema[table].keys
  BY DEF IsChange
<1>3. IsTableOf(table, Schema[table].keys, Schema[table].rows)
  BY <1>2, Typed, IsTyped
<1>4. QED
  BY <1>1, <1>2, <1>3 DEF IsTableOf

(* The column of a user whom the commit does not touch in it.              *)
LEMMA UserColumnStays ==
    ASSUME IInv, NEW r \in Requests, Commits(r), NEW u \in Stored("user"), NEW f \in {"locked", "resets"}, f \notin TouchedBy(r)
    PROVE  db'["user"][u][f] = db["user"][u][f]
<1>1. u \in Stored("user") \cap Stored("user")' /\ "user" \in DOMAIN Schema
  BY UserRows
<1>2. f \in DOMAIN db["user"][u]
  <2>1. db["user"][u] \in User
    BY UserRows
  <2>2. QED
    BY <2>1 DEF User
<1>3. QED
  BY <1>1, <1>2, RowsAfter

LEMMA UserStaysJustified ==
    ASSUME IInv, NEW r \in Requests, Commits(r), NEW c, IsChange(c, Schema), c.table = "user", NEW writes, NEW since,
           IsCurrent(c, since \cup Drift, Schema), UserIsJustified(c, writes, since),
           NEW later, later = since \cup TouchedBy(r)
    PROVE  UserIsJustified(c, writes, later)'
<1>1. c.old # None => c.key \in Stored("user")
  BY ReadIsStored, SchemaTables
<1>2. Undisturbed({"attempts", "locked"}, {"attempts", "locked"})' => IsLockedForCause(c.new)
  BY CommitRaced DEF UserIsJustified
<1>3. ASSUME c.old # None, "locked" \notin later
      PROVE  c.old.locked = "never" <=> db'["user"][c.key].locked = "never"
  <2>1. db'["user"][c.key].locked = db["user"][c.key].locked
    BY <1>1, <1>3, UserColumnStays
  <2>2. QED
    BY <1>3, <2>1 DEF UserIsJustified
<1>4. MarkIsJustified(c, writes, later)'
  <2>1. MarkIsJustified(c, writes, since)
    BY DEF UserIsJustified
  <2>2. later \cap {"mfa", "verified", "totp"} = {} =>
           since \cap {"mfa", "verified", "totp"} = {} /\ \A u : Of("totp", u)' \subseteq Of("totp", u)
    BY SetsShrink
  <2>3. QED
    BY <2>1, <2>2 DEF MarkIsJustified
<1>5. ResetIsJustified(c, writes, later)'
  <2>1. ResetIsJustified(c, writes, since)
    BY DEF UserIsJustified
  <2>2. later \cap {"session", "resets"} = {} =>
           since \cap {"session", "resets"} = {} /\ \A u : ActiveSessions(u)' \subseteq ActiveSessions(u)
    BY SetsShrink
  <2>3. QED
    BY <2>1, <2>2 DEF ResetIsJustified
<1>6. c.old = None => ~c.new.mfa
  BY DEF UserIsJustified
<1>7. QED
  BY <1>2, <1>3, <1>4, <1>5, <1>6 DEF UserIsJustified

LEMMA TokenStaysJustified ==
    ASSUME IInv, NEW r \in Requests, Commits(r), NEW c, IsChange(c, Schema), c.table \in Tokens, NEW writes, NEW since,
           IsCurrent(c, since \cup Drift, Schema), TokenIsJustified(c, writes, since),
           NEW later, later = since \cup TouchedBy(r)
    PROVE  TokenIsJustified(c, writes, later)'
<1>1. c.old # None => c.key \in Stored(c.table)
  BY ReadIsStored, SchemaTables DEF Tokens
<1>2. c.old # None => c.new.consumed /\ (c.old.consumed => db'[c.table][c.key].consumed)
  BY <1>1, SpentStays DEF TokenIsJustified
<1>3. ASSUME c.old = None, c.table \notin later, NEW k \in Outstanding(c.table, c.new.user_id)'
      PROVE  \E e \in writes : Rewrites(e, c.table, k)
  <2>1. k \in Outstanding(c.table, c.new.user_id) /\ c.table \notin since
    BY <1>3, SetsShrink
  <2>2. QED
    BY <1>3, <2>1 DEF TokenIsJustified
<1>4. QED
  BY <1>2, <1>3 DEF TokenIsJustified

LEMMA SessionStaysJustified ==
    ASSUME IInv, NEW r \in Requests, Commits(r), NEW c, IsChange(c, Schema), c.table = "session", NEW writes, NEW since,
           \A e \in writes : IsChange(e, Schema) /\ IsCurrent(e, since \cup Drift, Schema), c \in writes,
           SessionIsJustified(c, writes, since), NEW later, later = since \cup TouchedBy(r)
    PROVE  SessionIsJustified(c, writes, later)'
<1>1. ASSUME NEW e \in writes, e.table = "session", e.old # None PROVE e.key \in Stored("session")
  BY <1>1, ReadIsStored, SchemaTables
<1>2. c.old # None => c.new.revoked /\ (c.old.revoked => db'["session"][c.key].revoked)
  BY <1>1, EndedStays DEF SessionIsJustified
<1>3. ASSUME c.old = None PROVE c.new.user_id \in Stored("user") /\ c.new.user_id \in Stored("user")'
  BY <1>3, UserRows DEF SessionIsJustified
<1>4. ASSUME c.old = None, "resets" \notin later PROVE c.new.issued = db'["user"][c.new.user_id].resets
  BY <1>3, <1>4, UserColumnStays DEF SessionIsJustified
<1>5. ASSUME c.old = None, c.new.from # None, "revoked" \notin later PROVE ~db'["session"][c.new.from].revoked
  <2> DEFINE f == c.new.from
  <2>1. ~db["session"][f].revoked /\ \E e \in writes : Rewrites(e, "session", f)
    BY <1>5 DEF SessionIsJustified
  <2>2. f \in Stored("session") \cap Stored("session")' /\ db["session"][f] \in Session
    BY <1>1, <2>1, SessionRows DEF Rewrites
  <2>3. "revoked" \in DOMAIN db["session"][f]
    BY <2>2 DEF Session
  <2>4. db'["session"][f].revoked = db["session"][f].revoked
    BY <1>5, <2>2, <2>3, SchemaTables, RowsAfter
  <2>5. QED
    BY <2>1, <2>4
<1>6. c.old = None =>
         /\ \A e \in writes : Inserts(e, "session") => e = c
         /\ c.new.from # None => \E e \in writes : Rewrites(e, "session", c.new.from)
  BY DEF SessionIsJustified
<1>7. QED
  BY <1>2, <1>3, <1>4, <1>5, <1>6 DEF SessionIsJustified

LEMMA NoWayUpStays ==
    ASSUME IInv, NEW r \in Requests, Commits(r), NEW table \in {"team", "role"}, Column(table) \notin TouchedBy(r),
           NEW from, NEW k, NoWayUp(table, from, k)
    PROVE  NoWayUp(table, from, k)'
<1>1. PICK V \in SUBSET Schema[table].keys : from \in V /\ k \notin V /\ IsClosed(table, V)
  BY DEF NoWayUp
<1>2. table = "team" => V \subseteq Stored(table) /\ Stored(table) \subseteq Stored(table)'
  BY <1>1, SchemaTables, RowsAfter DEF IsClosed
<1>3. ASSUME NEW v \in V, IsFound(table, v)' PROVE ParentIn(table, v)' \in V \cup {None}
  <2>1. CASE v \in Stored(table) /\ v \in Stored(table)'
    <3>1. IsFound(table, v) /\ ParentIn(table, v)' = ParentIn(table, v)
      BY <1>3, <2>1, NodesAfter
    <3>2. QED
      BY <1>1, <3>1 DEF IsClosed
  <2>2. CASE v \notin Stored(table) /\ v \in Stored(table)'
    BY <1>2, <2>2, NodesAfter
  <2>3. v \in Stored(table)'
    <3>1. table = "role" => v \in Stored(table)'
      BY <1>3 DEF IsFound
    <3>2. QED
      BY <1>2, <3>1
  <2>4. QED
    BY <2>1, <2>2, <2>3
<1>4. IsClosed(table, V)'
  BY <1>2, <1>3 DEF IsClosed
<1>5. QED
  BY <1>1, <1>4 DEF NoWayUp

LEMMA NodeStaysJustified ==
    ASSUME IInv, NEW r \in Requests, Commits(r), NEW c, c.table \in {"team", "role"}, NEW writes, NEW since,
           NodeIsJustified(c, writes, since), NEW later, later = since \cup TouchedBy(r)
    PROVE  NodeIsJustified(c, writes, later)'
<1>1. Stored("team") \subseteq Stored("team")'
  BY SchemaTables, RowsAfter
<1> DEFINE col == Column(c.table)
<1>2. c.old = None /\ c.new[col] # None => c.table = "team" /\ c.new[col] \in Stored("team")'
  BY <1>1 DEF NodeIsJustified
<1>3. ASSUME c.old # None, c.new # None, c.new[col] # c.old[col], col \notin later, c.new[col] # None
      PROVE  NoWayUp(c.table, c.new[col], c.key)'
  <2>1. NoWayUp(c.table, c.new[col], c.key) /\ col \notin TouchedBy(r)
    BY <1>3 DEF NodeIsJustified
  <2>2. QED
    BY <2>1, NoWayUpStays
<1>4. writes = {c} /\ (c.old # None /\ c.new # None => (c.table = "team" /\ c.old.deleted => c.new.deleted))
  BY DEF NodeIsJustified
<1>5. QED
  BY <1>2, <1>3, <1>4 DEF NodeIsJustified, Column

LEMMA StaysJustified ==
    ASSUME IInv, NEW r \in Requests, Commits(r), NEW writes, NEW since,
           \A e \in writes : IsChange(e, Schema) /\ IsCurrent(e, since \cup Drift, Schema),
           NEW c \in writes, IsJustified(c, writes, since), NEW later, later = since \cup TouchedBy(r)
    PROVE  IsJustified(c, writes, later)'
<1>1. c.table = "user" => UserIsJustified(c, writes, later)'
  BY UserStaysJustified DEF IsJustified
<1>2. c.table \in Tokens => TokenIsJustified(c, writes, later)'
  BY TokenStaysJustified DEF IsJustified, Tokens
<1>3. c.table = "session" => SessionIsJustified(c, writes, later)'
  BY SessionStaysJustified DEF IsJustified
<1>4. c.table \in {"team", "role"} => NodeIsJustified(c, writes, later)'
  BY NodeStaysJustified DEF IsJustified
<1>5. QED
  BY <1>1, <1>2, <1>3, <1>4 DEF IsJustified, Tokens

LEMMA WalkStaysCurrent ==
    ASSUME IInv, NEW r \in Requests, Commits(r), Constraints(db)', NEW w, NEW table \in {"team", "role"}, table = w.table,
           w \in Climb(table), Column(table) \notin TouchedBy(r), WalkIsCurrent(w)
    PROVE  WalkIsCurrent(w)'
<1> DEFINE Kept == {v \in DOMAIN w.seen : w.seen[v] # None}
<1>1. table = "team" => Stored("team") \subseteq Stored("team")'
  BY SchemaTables, RowsAfter
<1>2. None \notin DOMAIN w.seen
  BY ClimbTyped
<1>3. table = "team" => DOMAIN w.seen \subseteq Stored("team")
  BY <1>2 DEF WalkIsCurrent
<1>4. table = "team" => DOMAIN w.seen \cup {w.cursor} \subseteq Stored("team")' \cup {None}
  BY <1>1 DEF WalkIsCurrent
<1>5. ASSUME NEW v \in DOMAIN w.seen, IsFound(table, v)' PROVE ParentIn(table, v)' \in {w.seen[v], None}
  <2>1. v \in Stored(table)'
    <3>1. table = "role" => v \in Stored(table)'
      BY <1>5 DEF IsFound
    <3>2. QED
      BY <1>1, <1>3, <3>1
  <2>2. CASE v \in Stored(table)
    <3>1. IsFound(table, v) /\ ParentIn(table, v)' = ParentIn(table, v)
      BY <1>5, <2>1, <2>2, NodesAfter
    <3>2. QED
      BY <3>1 DEF WalkIsCurrent
  <2>3. CASE v \notin Stored(table)
    BY <1>3, <2>1, <2>3, NodesAfter
  <2>4. QED
    BY <2>2, <2>3
<1>6. ASSUME NEW v \in DOMAIN w.seen, w.seen[v] # None,
             table = "team" \/ \E x \in Stored(table)' : ParentIn(table, x)' = v
      PROVE  v \in Stored(table)' /\ ParentIn(table, v)' = w.seen[v]
  <2>1. CASE table = "team"
    <3>1. v \in Stored(table) /\ v \in Stored(table)' /\ ParentIn(table, v) = w.seen[v]
      BY <1>1, <1>3, <1>6, <2>1 DEF WalkIsCurrent, Remembers
    <3>2. QED
      BY <3>1, NodesAfter
  <2>2. CASE table = "role"
    <3>1. PICK x \in Stored(table)' : ParentIn(table, x)' = v
      BY <1>6, <2>2
    <3>2. v # None
      BY <1>2
    <3>3. x \in Stored(table)
      BY <2>2, <3>1, <3>2, NodesAfter
    <3>4. ParentIn(table, x) = v
      BY <3>1, <3>3, NodesAfter
    <3>5. v \in Stored(table) /\ ParentIn(table, v) = w.seen[v]
      BY <1>6, <3>3, <3>4 DEF WalkIsCurrent, Remembers
    <3>6. v \in Stored(table)'
      <4>1. OrganizationConstraints(db)'
        BY DEF Constraints
      <4>2. db'["role"][x].parent_role \in Stored("role")' \cup {None}
        BY <2>2, <3>1, <4>1 DEF OrganizationConstraints, Stored
      <4>3. QED
        BY <2>2, <3>1, <3>2, <4>2 DEF ParentIn, Column
    <3>7. QED
      BY <3>5, <3>6, NodesAfter
  <2>3. QED
    BY <2>1, <2>2
<1>7. ASSUME Undisturbed({Column(table)}, {Column(table)})'
      PROVE  w.cursor \notin DOMAIN w.seen /\ IsAcyclic(table, Kept)'
  <2>1. Undisturbed({Column(table)}, {Column(table)})
    <3>1. ASSUME NEW A, A = {Column(table)}, Undisturbed(A, A)' PROVE Undisturbed(A, A)
      BY <3>1, CommitRaced
    <3>2. QED
      BY <1>7, <3>1 DEF Column
  <2>2. w.cursor \notin DOMAIN w.seen /\ IsAcyclic(table, Kept)
    BY <2>1 DEF WalkIsCurrent, IsAcyclic, Remembers
  <2>3. IsAcyclic(table, Kept)'
    BY <2>2, StaysAcyclic
  <2>4. QED
    BY <2>2, <2>3
<1>8. QED
  BY <1>4, <1>5, <1>6, <1>7 DEF WalkIsCurrent, Remembers, IsAcyclic

LEMMA ClimbStaysSound ==
    ASSUME IInv, NEW r \in Requests, Commits(r), Constraints(db)', NEW w, NEW since, ClimbIsSound(w, since),
           NEW later, later = since \cup TouchedBy(r)
    PROVE  ClimbIsSound(w, later)'
<1> DEFINE table == w.table
           c == MoveOf(w)
<1>1. table \in {"team", "role"} /\ w \in Climb(table) /\ w.row \in Schema[table].rows /\ IsCurrent(c, since \cup Drift, Schema)
  BY DEF ClimbIsSound
<1>2. IsChange(c, Schema)
  BY <1>1, MoveIsChange
<1>3. IsCurrent(c, later \cup Drift, Schema)'
  <2>1. PICK admitted, then : admitted \in BOOLEAN /\ CommitTo(r, admitted, then)
    BY DEF Commits
  <2>2. later \cup Drift = (since \cup Drift) \cup TouchedBy(r)
    OBVIOUS
  <2>3. Shared(Schema)
    BY DEF IInv
  <2> HIDE DEF c
  <2>4. QED
    BY <1>1, <1>2, <2>1, <2>2, <2>3, CommitKeepsCurrent
<1>4. ASSUME Column(table) \notin later PROVE WalkIsCurrent(w)'
  <2>1. WalkIsCurrent(w) /\ Column(table) \notin TouchedBy(r)
    BY <1>4 DEF ClimbIsSound
  <2>2. QED
    BY <1>1, <2>1, WalkStaysCurrent
<1>5. QED
  BY <1>1, <1>3, <1>4 DEF ClimbIsSound, Column

LEMMA PendingStayJustified ==
    ASSUME IInv, NEW r \in Requests, Commits(r), Constraints(db)', NEW p, AreChanges(p.writes, Schema), RequestIsJustified(p),
           NEW q, q.pc = p.pc, q.writes = p.writes, q.walk = p.walk, q.since = p.since \cup TouchedBy(r)
    PROVE  RequestIsJustified(q)'
<1>1. PICK admitted, then : admitted \in BOOLEAN /\ CommitTo(r, admitted, then)
  BY DEF Commits
<1>2. Shared(Schema)
  BY DEF IInv
<1>3. \A c \in q.writes : IsChange(c, Schema) /\ IsCurrent(c, p.since \cup Drift, Schema) /\ IsJustified(c, q.writes, p.since)
  BY DEF RequestIsJustified, AreChanges
<1>4. q.since \cap Fixed = {}
  BY CommitsWhatIsJustified DEF RequestIsJustified
<1>5. ASSUME NEW c \in q.writes PROVE IsCurrent(c, q.since \cup Drift, Schema)'
  <2>1. q.since \cup Drift = (p.since \cup Drift) \cup TouchedBy(r)
    OBVIOUS
  <2>2. QED
    BY <1>1, <1>2, <1>3, <2>1, CommitKeepsCurrent
<1>6. \A c \in q.writes : IsJustified(c, q.writes, q.since)'
  BY <1>3, StaysJustified
<1>7. q.pc = "walk" /\ q.walk.kind = "parent" => ClimbIsSound(q.walk, q.since)'
  BY ClimbStaysSound DEF RequestIsJustified, WalkIsSound
<1>8. Stored("user") \subseteq Stored("user")'
  BY UserRows
<1>9. WalkIsSound(q)'
  BY <1>7, <1>8 DEF RequestIsJustified, WalkIsSound
<1>10. QED
  BY <1>4, <1>5, <1>6, <1>9 DEF RequestIsJustified

LEMMA OthersStayJustified ==
    ASSUME IInv, NEW r \in Requests, Commits(r), Constraints(db)', NEW s \in Requests \ {r}, NEW q, q = req'[s]
    PROVE  RequestIsJustified(q)'
<1>1. PICK admitted, then : admitted \in BOOLEAN /\ CommitTo(r, admitted, then)
  BY DEF Commits
<1>2. /\ Shared(Schema) /\ RequestIsJustified(req[s]) /\ AreChanges(req[s].writes, Schema)
      /\ req[s].pc \in {"new", "walk", "staged", "done"} /\ (req[s].pc # "staged" => req[s].writes = {})
  BY DEF IInv, RequestsAreJustified, Shared, RequestsTyped, WritesTyped
<1>3. /\ q.pc = req[s].pc /\ q.writes = req[s].writes /\ q.walk = req[s].walk
      /\ req[s].pc \in {"walk", "staged"} => q.since = req[s].since \cup TouchedBy(r)
      /\ req[s].pc \in {"new", "done"} => q = req[s]
  BY <1>1, <1>2, CommitRequests
<1>4. CASE req[s].pc \in {"new", "done"}
  BY <1>2, <1>3, <1>4 DEF RequestIsJustified, WalkIsSound
<1>5. CASE req[s].pc \in {"walk", "staged"}
  BY <1>2, <1>3, <1>5, PendingStayJustified
<1>6. QED
  BY <1>2, <1>4, <1>5

-----------------------------------------------------------------------------
(* The request itself, as it goes on: it is closed, sends the mail of the  *)
(* user it has made, or sees to a session.                                 *)
GoesOnAs(r, q) ==
    /\ DOMAIN q = {"pc", "writes", "since", "walk"} /\ q.pc \in {"walk", "staged", "done"}
    /\ q.pc # "staged" => q.writes = {}
    /\ q.pc = "walk" => q.walk # None
    /\ q.pc = "done" => q = Closed
    /\ AreChanges(q.writes, Schema)
    /\ \A c \in q.writes : c.table = "verify_token" /\ c.old = None /\ c.key = r

LEMMA WelcomeIsFit ==
    ASSUME IInv, NEW r \in Requests, Commits(r), NEW w, w = req[r].walk, w # None, w.kind = "welcome",
           NEW q, q = [Fresh EXCEPT !.pc = "staged", !.writes = {Insert("verify_token", r, NewToken(w.user))}]
    PROVE  GoesOnAs(r, q) /\ RequestIsJustified(q)'
<1> DEFINE c == Insert("verify_token", r, NewToken(w.user))
<1>1. w \in Errand /\ w.user \in Users
      /\ (\E e \in req[r].writes : Inserts(e, "user") /\ e.key = w.user)
      /\ (\A e \in req[r].writes : e.table # "verify_token")
  <2>1. req[r].pc = "staged" /\ WalkIsSound(req[r])
    BY CommitsWhatIsJustified DEF IInv, RequestsAreJustified, RequestIsJustified
  <2>2. QED
    BY <2>1 DEF WalkIsSound, Errand
<1>2. w.user \notin Stored("user")
  BY <1>1, Inserted DEF Inserts
<1>3. NewToken(w.user) \in Token /\ r \in Keys /\ NewToken(w.user).user_id = w.user
  BY <1>1 DEF NewToken, Token, Keys
<1>4. "verify_token" \in DOMAIN Schema /\ r \in Schema["verify_token"].keys /\ NewToken(w.user) \in Schema["verify_token"].rows
  BY <1>3, SchemaTables
<1>5. /\ c.table = "verify_token" /\ c.key = r /\ c.old = None /\ c.new = NewToken(w.user) /\ c.new.user_id = w.user
      /\ IsChange(c, Schema) /\ Touched(c) \cap Fixed = {}
  BY <1>3, <1>4, InsertedRow, IsTyped
<1>6. Outstanding("verify_token", w.user)' = {}
  <2>1. ASSUME NEW k \in Outstanding("verify_token", w.user)' PROVE FALSE
    <3>1. k \in Stored("verify_token")' /\ db'["verify_token"][k].user_id = w.user
      BY <2>1 DEF Outstanding, Of
    <3>2. CASE k \in Stored("verify_token")
      <4>1. db["verify_token"][k].user_id = w.user
        BY <3>1, <3>2, TokenRows DEF Tokens
      <4>2. QED
        BY <1>2, <3>2, <4>1, HaveTheirUser
    <3>3. CASE k \notin Stored("verify_token")
      BY <1>1, <1>4, <3>1, <3>3, NewRow DEF Inserts
    <3>4. QED
      BY <3>2, <3>3
  <2>2. QED
    BY <2>1
<1>7. q.pc = "staged" /\ q.writes = {c} /\ q.since = {} /\ q.walk = None /\ DOMAIN q = {"pc", "writes", "since", "walk"}
  BY DEF Fresh
<1> HIDE DEF c
<1>8. TokenIsJustified(c, {c}, {})'
  BY <1>5, <1>6 DEF TokenIsJustified
<1>9. IsJustified(c, {c}, {})' /\ IsCurrent(c, {} \cup Drift, Schema)'
  BY <1>5, <1>8 DEF IsJustified, IsCurrent
<1>10. RequestIsJustified(q)'
  BY <1>7, <1>9 DEF RequestIsJustified, WalkIsSound
<1>11. GoesOnAs(r, q)
  BY <1>5, <1>7 DEF GoesOnAs, AreChanges
<1>12. QED
  BY <1>10, <1>11

LEMMA NextIsFit ==
    ASSUME IInv, NEW r \in Requests, Commits(r), NEW q, q = After(r)
    PROVE  GoesOnAs(r, q) /\ RequestIsJustified(q)'
<1> DEFINE w == req[r].walk
<1>1. w # None => w \in Errand /\ (w.kind = "challenge" => w.user \in Stored("user"))
  <2>1. req[r].pc = "staged" /\ WalkIsSound(req[r])
    BY CommitsWhatIsJustified DEF IInv, RequestsAreJustified, RequestIsJustified
  <2>2. QED
    BY <2>1 DEF WalkIsSound
<1>2. CASE w = None
  <2>1. q = Closed
    BY <1>2 DEF After
  <2>2. q.pc = "done" /\ q.writes = {} /\ q.since = {} /\ DOMAIN q = {"pc", "writes", "since", "walk"}
    BY <2>1 DEF Closed, Fresh
  <2>3. QED
    BY <2>1, <2>2 DEF GoesOnAs, AreChanges, RequestIsJustified, WalkIsSound
<1>3. CASE w # None /\ w.kind = "welcome"
  <2>1. q = [Fresh EXCEPT !.pc = "staged", !.writes = {Insert("verify_token", r, NewToken(w.user))}]
    BY <1>3 DEF After
  <2>2. QED
    BY <1>3, <2>1, WelcomeIsFit
<1>4. CASE w # None /\ w.kind = "challenge"
  <2>1. q = [Fresh EXCEPT !.pc = "walk", !.walk = w]
    BY <1>4 DEF After
  <2>2. q.pc = "walk" /\ q.writes = {} /\ q.since = {} /\ q.walk = w /\ DOMAIN q = {"pc", "writes", "since", "walk"}
    BY <2>1 DEF Fresh
  <2>3. q.walk \in Errand /\ q.walk.kind = "challenge" /\ q.walk.user \in Stored("user")'
    BY <1>1, <1>4, <2>2, UserRows
  <2>4. QED
    BY <1>4, <2>2, <2>3 DEF GoesOnAs, AreChanges, RequestIsJustified, WalkIsSound
<1>5. w # None => w.kind \in {"welcome", "challenge"}
  BY <1>1 DEF Errand
<1>6. QED
  BY <1>2, <1>3, <1>4, <1>5

(* What a commit leaves of KeysAreUsedOnce.                                *)
LEMMA VolatileRows ==
    ASSUME IInv, NEW r \in Requests, Commits(r), NEW table \in Volatiles
    PROVE  /\ table \in DOMAIN Schema /\ table \in Keyed
           /\ \A k \in Stored(table) \cap Stored(table)' : db'[table][k].user_id = db[table][k].user_id
<1>1. table \in DOMAIN Schema /\ table \in Keyed
  BY SchemaTables DEF Volatiles, Keyed
<1>2. ASSUME NEW k \in Stored(table) \cap Stored(table)' PROVE db'[table][k].user_id = db[table][k].user_id
  <2>1. db[table][k] \in TotpFactor \cup RecoveryCode
    BY <1>1, RowsAfter, SchemaTables DEF Volatiles
  <2>2. "user_id" \in DOMAIN db[table][k] /\ "user_id" \in Fixed
    BY <2>1 DEF TotpFactor, RecoveryCode, Fixed
  <2>3. QED
    BY <1>1, <2>2, FixedStay
<1>3. QED
  BY <1>1, <1>2

LEMMA KeysStayUsedOnce ==
    ASSUME IInv, NEW r \in Requests, NEW admitted \in BOOLEAN, NEW q, CommitTo(r, admitted, q), GoesOnAs(r, q)
    PROVE  KeysAreUsedOnce'
<1> USE DEF GoesOnAs
<1>1. Commits(r) /\ Shared(Schema) /\ KeysAreUsedOnce
  BY DEF Commits, IInv
<1>2. /\ DOMAIN req' = Requests /\ req'[r] = q
      /\ \A s \in Requests \ {r} : req'[s].pc = req[s].pc /\ req'[s].writes = req[s].writes
  BY <1>1, CommitRequests
<1>3. ASSUME NEW c \in req[r].writes, c.table \in Keyed PROVE KeyIsFit(r, c)
  BY <1>1, <1>3 DEF KeysAreUsedOnce
<1>4. ASSUME NEW table \in Keyed, NEW k, IsUsed(table, k)', ~IsUsed(table, k)
      PROVE  k = r /\ \E c \in req[r].writes : Inserts(c, table) /\ c.key = k
  <2>1. k \in Stored(table)' /\ k \notin Stored(table)
    BY <1>2, <1>4 DEF IsUsed
  <2>2. table \in DOMAIN Schema
    BY SchemaTables DEF Keyed
  <2>3. PICK c \in req[r].writes : Inserts(c, table) /\ c.key = k
    BY <1>1, <2>1, <2>2, NewRow
  <2>4. KeyIsFit(r, c) /\ c.old = None
    BY <1>3, <2>3 DEF Inserts
  <2>5. QED
    BY <2>3, <2>4 DEF KeyIsFit
<1>5. ASSUME NEW s \in Requests, NEW table \in Keyed, IsUsed(table, s)' PROVE req'[s].pc # "new"
  <2>1. CASE s = r
    BY <1>2, <2>1
  <2>2. CASE s # r
    BY <1>1, <1>2, <1>4, <1>5, <2>2 DEF KeysAreUsedOnce
  <2>3. QED
    BY <2>1, <2>2
<1>6. ASSUME NEW c \in q.writes PROVE KeyIsFit(r, c)'
  BY <1>6 DEF KeyIsFit, Volatiles
<1>7. ASSUME NEW s \in Requests \ {r}, NEW c \in req[s].writes, c.table \in Keyed PROVE KeyIsFit(s, c)'
  <2>1. KeyIsFit(s, c)
    BY <1>1, <1>7 DEF KeysAreUsedOnce
  <2>2. ASSUME c.table \in Volatiles, c.old = None PROVE ~IsUsed(c.table, s)'
    BY <1>4, <1>7, <2>1, <2>2 DEF KeyIsFit
  <2>3. ASSUME c.table \in Volatiles, c.old # None, c.key \in Stored(c.table)'
        PROVE  db'[c.table][c.key].user_id = c.old.user_id
    <3>1. IsUsed(c.table, c.key) /\ c.table \in DOMAIN Schema
      BY <1>1, <2>3, VolatileRows DEF IsUsed
    <3>2. ASSUME c.key \notin Stored(c.table) PROVE FALSE
      <4>1. PICK d \in req[r].writes : Inserts(d, c.table) /\ d.key = c.key
        BY <1>1, <2>3, <3>1, <3>2, NewRow
      <4>2. KeyIsFit(r, d) /\ d.old = None /\ d.table = c.table
        BY <1>3, <1>7, <4>1 DEF Inserts
      <4>3. ~IsUsed(c.table, r) /\ c.key = r
        BY <2>3, <4>1, <4>2 DEF KeyIsFit
      <4>4. QED
        BY <3>1, <4>3
    <3>3. db[c.table][c.key].user_id = c.old.user_id
      BY <2>1, <2>3, <3>2 DEF KeyIsFit
    <3>4. QED
      BY <1>1, <2>3, <3>2, <3>3, VolatileRows
  <2>4. c.old = None => c.key = s
    BY <2>1 DEF KeyIsFit
  <2>5. QED
    BY <2>2, <2>3, <2>4 DEF KeyIsFit
<1>8. QED
  BY <1>2, <1>5, <1>6, <1>7 DEF KeysAreUsedOnce

-----------------------------------------------------------------------------
(* The commit as a whole.                                                  *)

LEMMA CommitKeepsAll ==
    ASSUME IInv, NEW r \in Requests, NEW admitted \in BOOLEAN, NEW q, q = After(r), CommitTo(r, admitted, q),
           Constraints(db)'
    PROVE  IInv'
<1>1. Commits(r) /\ Shared(Schema) /\ RequestsAreSound
  BY DEF Commits, IInv, IdentityIsSound
<1>2. GoesOnAs(r, q) /\ RequestIsJustified(q)'
  BY <1>1, NextIsFit
<1>3. Shared(Schema)'
  BY <1>1, <1>2, CommitKeepsShared DEF GoesOnAs
<1>4. /\ DOMAIN req' = Requests /\ req'[r] = q
      /\ \A s \in Requests \ {r} :
            /\ req'[s].pc = req[s].pc /\ req'[s].writes = req[s].writes /\ req'[s].walk = req[s].walk
            /\ req[s].pc \in {"new", "done"} => req'[s] = req[s]
  BY <1>1, CommitRequests
<1>5. RequestsAreSound'
  <2>1. \A s \in Requests :
           /\ req'[s].pc \in {"new", "walk", "staged", "done"}
           /\ req'[s].pc # "staged" => req'[s].writes = {}
           /\ req'[s].pc = "walk" => req'[s].walk # None
           /\ req'[s].pc \in {"new", "done"} => req'[s] \in {Fresh, Closed}
    BY <1>1, <1>2, <1>4 DEF GoesOnAs, RequestsAreSound
  <2>2. \A s \in Requests : \A c, e \in req'[s].writes : c.table = e.table /\ c.key = e.key => c = e
    BY <1>3 DEF Shared, WritesTyped, AreChanges
  <2>3. QED
    BY <2>1, <2>2 DEF RequestsAreSound
<1>6. RequestsAreJustified'
  <2>1. ASSUME NEW s \in Requests, NEW p, p = req'[s] PROVE RequestIsJustified(p)'
    <3>1. CASE s = r
      BY <1>2, <1>4, <2>1, <3>1
    <3>2. CASE s # r
      BY <1>1, <2>1, <3>2, OthersStayJustified
    <3>3. QED
      BY <3>1, <3>2
  <2>2. ASSUME NEW s \in Requests PROVE RequestIsJustified(req[s])'
    BY <2>1
  <2>3. QED
    BY <2>2 DEF RequestsAreJustified
<1>7. IdentityIsSound'
  <2>1. HasSchema(db, Schema)'
    BY <1>3 DEF Shared
  <2>2. ASSUME NEW i \in Stored("invitation")', db'["invitation"][i].invitation = "accepted"
        PROVE  WithEmail(db["invitation"][i].org, db["invitation"][i].email)' # {}
    BY <1>1, <2>2, InvitationsStayAnswered DEF WithEmail
  <2>3. ASSUME Undisturbed({"attempts", "locked"}, {"attempts", "locked"})', NEW u \in Stored("user")'
        PROVE  db'["user"][u].locked # "never" => db'["user"][u].attempts >= Threshold
    BY <1>1, <2>3, LocksStayForCause DEF IsLockedForCause
  <2>4. ASSUME NEW table \in {"verify_token", "reset_token"}, Undisturbed({table}, {table})', NEW u
        PROVE  \A k, l \in Outstanding(table, u)' : k = l
    BY <1>1, <2>4, TokensStayAlone DEF Tokens
  <2>5. QED
    BY <1>5, <2>1, <2>2, <2>3, <2>4 DEF IdentityIsSound
<1>8. SessionsAreAccountedFor'
  <2>1. \A s \in Stored("session")' :
           db'["session"][s].from # None =>
              db'["session"][s].from \in Stored("session")' /\ db'["session"][db'["session"][s].from].revoked
    BY <1>1, TradedStayEnded
  <2>2. Undisturbed({"session"}, {"revoked"})' =>
           \A s, t \in Stored("session")' :
              s # t /\ db'["session"][s].from = db'["session"][t].from => db'["session"][s].from = None
    BY <1>1, TradedStayOnce
  <2>3. Undisturbed({"session", "resets"}, {"session", "resets"})' =>
           \A u \in Stored("user")' : \A s \in ActiveSessions(u)' : db'["session"][s].issued = db'["user"][u].resets
    BY <1>1, ActiveStayCurrent
  <2>4. QED
    BY <2>1, <2>2, <2>3 DEF SessionsAreAccountedFor
<1>9. MfaHasItsFactor'
  <2>1. ASSUME Undisturbed(Factors, Factors)', NEW u \in Stored("user")' PROVE db'["user"][u].mfa <=> VerifiedTotp(u)' # {}
    <3>1. db'["user"][u].mfa <=> \E k \in Stored("totp")' : db'["totp"][k].user_id = u /\ db'["totp"][k].verified
      BY <1>1, <2>1, FactorsStayMarked
    <3>2. QED
      BY <3>1 DEF VerifiedTotp, Of
  <2>2. QED
    BY <2>1 DEF MfaHasItsFactor, Factors
<1>10. HierarchiesHaveNoCycle'
  <2>1. ASSUME NEW table \in {"team", "role"}, NEW col, col = Column(table), Undisturbed({col}, {col})' PROVE IsHierarchy(table)'
    BY <1>1, <2>1, HierarchyStays
  <2>2. (\A table \in {"team", "role"} : Undisturbed({Column(table)}, {Column(table)}) => IsHierarchy(table))'
    BY <2>1 DEF Column
  <2>3. QED
    BY <1>6, <2>2, NoCycle, PTL
<1>11. KeysAreUsedOnce'
  BY <1>2, KeysStayUsedOnce
<1>12. QED
  BY <1>3, <1>6, <1>7, <1>8, <1>9, <1>10, <1>11 DEF IInv

LEMMA CommitIsSound ==
    ASSUME IInv, NEW r \in Requests, Commit(r)
    PROVE  IInv'
<1>1. PICK admitted \in BOOLEAN : admitted <=> Constraints(Outcome(r))
  OBVIOUS
<1>2. CommitTo(r, admitted, After(r))
  BY <1>1 DEF Commit, CommitTo
<1>3. Constraints(Outcome(r)) /\ db' = Outcome(r)
  BY <1>1, <1>2 DEF CommitTo
<1>4. Constraints(db)'
  BY <1>3
<1>5. QED
  BY <1>2, <1>4, CommitKeepsAll

-----------------------------------------------------------------------------
LEMMA Stuttering ==
    ASSUME IInv, UNCHANGED txns
    PROVE  IInv'
<1>1. db' = db /\ req' = req /\ raced' = raced
  BY DEF txns
<1>2. Shared(Schema)' /\ RequestsAreSound' /\ HasSchema(db, Schema)' /\ Constraints(db)'
  BY <1>1 DEF IInv, IdentityIsSound, Shared, RequestsTyped, WritesTyped, HasSchema, RequestsAreSound
<1>3. RequestsAreJustified'
  <2>1. ASSUME NEW s \in Requests, NEW p, p = req'[s] PROVE RequestIsJustified(p)'
    BY <1>1, <2>1, SameTablesJustify DEF IInv, RequestsAreJustified
  <2>2. ASSUME NEW s \in Requests PROVE RequestIsJustified(req[s])'
    BY <2>1
  <2>3. QED
    BY <2>2 DEF RequestsAreJustified
<1>4. IdentityIsSound' /\ SessionsAreAccountedFor' /\ MfaHasItsFactor'
  BY <1>1, <1>2, SameTables DEF IInv, IdentityIsSound, SessionsAreAccountedFor, MfaHasItsFactor
<1>5. HierarchiesHaveNoCycle'
  <2>1. \A table \in {"team", "role"} : Undisturbed({Column(table)}, {Column(table)})' => IsHierarchy(table)'
    BY <1>1, SameTables DEF IInv, HierarchiesHaveNoCycle
  <2>2. (\A table \in {"team", "role"} : Undisturbed({Column(table)}, {Column(table)}) => IsHierarchy(table))'
    BY <2>1 DEF Column
  <2>3. QED
    BY <1>3, <2>2, NoCycle, PTL
<1>6. KeysAreUsedOnce'
  BY <1>1, SameTables DEF IInv, KeysAreUsedOnce, IsUsed, KeyIsFit
<1>7. QED
  BY <1>2, <1>3, <1>4, <1>5, <1>6 DEF IInv

LEMMA NextIsSound ==
    ASSUME IInv, [Next]_txns
    PROVE  IInv'
<1>1. CASE UNCHANGED txns
  BY <1>1, Stuttering
<1>2. ASSUME NEW r \in Requests,
             UserRoutes(r) \/ AuthRoutes(r) \/ EmailRoutes(r) \/ PasswordRoutes(r) \/ MfaRoutes(r)
      PROVE  IInv'
  BY <1>2, UserRoutesAreSound, AuthRoutesAreSound, EmailRoutesAreSound, PasswordRoutesAreSound, MfaRoutesAreSound
<1>3. ASSUME NEW r \in Requests, OrganizationRoutes(r) \/ TeamRoutes(r) \/ RoleRoutes(r) \/ InvitationRoutes(r) PROVE IInv'
  BY <1>3, OrganizationRoutesAreSound, TeamRoutesAreSound, RoleRoutesAreSound, InvitationRoutesAreSound
<1>4. ASSUME NEW r \in Requests, NEW o \in Orgs, NEW slug \in Slugs, NEW u \in Users, NEW e \in Emails,
             RegisterOrganization(r, o, slug, u, e)
      PROVE  IInv'
  BY <1>4, RegisterOrganizationIsSound
<1>5. ASSUME NEW r \in Requests, WalkUp(r) \/ WalkRound(r) \/ FinishWalk(r) PROVE IInv'
  BY <1>5, WalkUpIsSound, WalkRoundIsSound, FinishWalkIsSound
<1>6. ASSUME NEW r \in Requests, Reload(r, Unversioned) PROVE IInv'
  BY <1>6, Reloading
<1>7. ASSUME NEW r \in Requests, Commit(r) \/ Abort(r) PROVE IInv'
  BY <1>7, CommitIsSound, Aborting
<1>8. ASSUME NEW u \in Users, LockExpires(u) PROVE IInv'
  BY <1>8, LockExpiresIsSound
<1>9. QED
  BY <1>1, <1>2, <1>3, <1>4, <1>5, <1>6, <1>7, <1>8 DEF Next

(* The inductive invariant: it holds of every sound start, and no route,   *)
(* no step of a walk, no reload, no commit, no abort and no lock that      *)
(* opens breaks it, whatever overlaps.                                     *)
THEOREM IdentityInductive == Spec => []IInv
<1>1. IInv /\ [Next]_txns => IInv'
  BY NextIsSound
<1>2. QED
  BY <1>1, StartIsSound, PTL DEF Spec

(* The tables of the identity context have their types and constraints;    *)
(* an accepted invitation has its user (accept_invitation), a user is      *)
(* locked for its failed attempts only (record_failed_login) and has one   *)
(* outstanding token of each kind at most (invalidate_outstanding_for_user),*)
(* unless requests that write the same columns overlapped.                 *)
THEOREM IdentityStaysSound == Spec => []IdentityIsSound
<1>1. IInv => IdentityIsSound
  BY DEF IInv
<1>2. QED
  BY <1>1, IdentityInductive, PTL

(* Rotation and reset: a session that was traded is revoked, and traded    *)
(* once (refresh); after a reset of the password no session from before is *)
(* open (reset_password), unless one was issued while the reset ran.       *)
THEOREM SessionsStayAccountedFor == Spec => []SessionsAreAccountedFor
<1>1. IInv => SessionsAreAccountedFor
  BY DEF IInv
<1>2. QED
  BY <1>1, IdentityInductive, PTL

(* A user who is asked for a second factor has one, and the other way      *)
(* round (confirm_totp, disable_mfa), unless the two overlapped.           *)
THEOREM MfaAlwaysHasItsFactor == Spec => []MfaHasItsFactor
<1>1. IInv => MfaHasItsFactor
  BY DEF IInv
<1>2. QED
  BY <1>1, IdentityInductive, PTL

(* The walk of set_parent, one query per ancestor, keeps the hierarchies   *)
(* of teams and of roles free of cycles and comes to an end, unless two    *)
(* moves overlapped.                                                       *)
THEOREM HierarchiesNeverHaveACycle == Spec => []HierarchiesHaveNoCycle
<1>1. IInv => HierarchiesHaveNoCycle
  BY DEF IInv
<1>2. QED
  BY <1>1, IdentityInductive, PTL

=============================================================================
