------------------------------- MODULE Identity -------------------------------
(***************************************************************************)
(* The identity context as a whole: accounts and organizations in one      *)
(* database, the two calls that make an account and its place in an        *)
(* organization at once - registering an organization and accepting an     *)
(* invitation - and what holds of all of it.                               *)
(***************************************************************************)
EXTENDS Organizations

Invitation == [org : Orgs, email : Emails, role_id : Roles, invitation : {"pending", "accepted", "revoked"}]

Schema ==
    [organization |-> Table(Orgs, Organization),
     role         |-> Volatile(Roles, Role),
     user_role    |-> Volatile(Users \X Roles, UserRole),
     user         |-> Table(Users, User),
     session      |-> Table(Keys, Session),
     verify_token |-> Table(Keys, Token),
     reset_token  |-> Table(Keys, Token),
     totp         |-> Volatile(Keys, TotpFactor),
     code         |-> Volatile(Keys, RecoveryCode),
     team         |-> Table(Teams, Team),
     team_member  |-> Volatile(Teams \X Users, TeamMembership),
     invitation   |-> Table(Keys, Invitation)]

ASSUME NoneAssumption ==
    /\ None \notin Keys \cup Teams \cup Roles \cup Errand
    /\ \A table \in {"team", "role"} : None \notin Climb(table)
    /\ \A table \in DOMAIN Schema : None \notin Schema[table].rows

(* Foreign keys, and uq_organization_invitations_org_email_pending.        *)
Constraints(d) ==
    /\ AccountConstraints(d) /\ OrganizationConstraints(d)
    /\ \A u \in Rows(d, "user") : d.user[u].org \in Rows(d, "organization")
    /\ \A i \in Rows(d, "invitation") :
          d.invitation[i].org \in Rows(d, "organization") /\ d.invitation[i].role_id \in Rows(d, "role")
    /\ \A i, j \in Rows(d, "invitation") :
          LET inv == d.invitation[i]
              other == d.invitation[j]
          IN  i # j /\ inv.org = other.org /\ inv.email = other.email
                => {inv.invitation, other.invitation} # {"pending"}

PendingFor(o, e) ==
    {i \in Stored("invitation") :
        db.invitation[i].org = o /\ db.invitation[i].email = e /\ db.invitation[i].invitation = "pending"}

Answered(i, status) == Update("invitation", i, [db.invitation[i] EXCEPT !.invitation = status])

-----------------------------------------------------------------------------
(* register_organization_with_owner: organization, user and role, flushed  *)
(* one after the other and committed together.                             *)
RegisterOrganization(r, o, slug, u, e) ==
    /\ WithSlug(slug) = {} /\ IsNew("organization", o) /\ IsNew("user", u)
    /\ StageWelcomed(r, {Insert("organization", o, NewOrganization(slug, u)), Insert("user", u, NewUser(o, e))}
                        \cup AsOwner(r, u), u)

(* An older invitation of the address is superseded.                       *)
InviteMember(r, o, e, x) ==
    /\ o \in Stored("organization") /\ IsOffered(x, o) /\ WithEmail(o, e) = {}
    /\ Stage(r, {Answered(i, "revoked") : i \in PendingFor(o, e)}
                \cup {Insert("invitation", r, [org |-> o, email |-> e, role_id |-> x, invitation |-> "pending"])})

(* Whatever the status: an accepted invitation can be revoked afterwards.  *)
RevokeInvitation(r, i) == i \in Stored("invitation") /\ Stage(r, {Answered(i, "revoked")})

(* The new user is verified at once; the event of its registration is      *)
(* dispatched all the same.                                                *)
AcceptInvitation(r, i, u) ==
    /\ i \in Stored("invitation") /\ db.invitation[i].invitation = "pending"
    /\ LET inv == db.invitation[i]
       IN  /\ WithEmail(inv.org, inv.email) = {} /\ IsNew("user", u)
           /\ StageWelcomed(r, {Insert("user", u, [NewUser(inv.org, inv.email) EXCEPT !.status = "active"]),
                                 Insert("user_role", <<u, inv.role_id>>, [id |-> r]),
                                 Answered(i, "accepted")}, u)

InvitationRoutes(r) ==
    \/ \E o \in Orgs, e \in Emails, x \in Roles : InviteMember(r, o, e, x)
    \/ \E i \in Keys : RevokeInvitation(r, i) \/ (\E u \in Users : AcceptInvitation(r, i, u))

-----------------------------------------------------------------------------
(* The commit.  After a new user its verification mail is sent in another  *)
(* transaction, after the use of a code a session is issued in another.    *)
After(r) ==
    LET w == req[r].walk
    IN  CASE w = None -> Closed
          [] w # None /\ w.kind = "welcome" ->
                [Fresh EXCEPT !.pc = "staged", !.writes = {Insert("verify_token", r, NewToken(w.user))}]
          [] w # None /\ w.kind = "challenge" -> [Fresh EXCEPT !.pc = "walk", !.walk = w]

Commit(r) == CommitTo(r, Constraints(Outcome(r)), After(r))

Unversioned == {"session", "verify_token", "reset_token", "totp", "code", "invitation", "team_member"}

Next ==
    \/ \E r \in Requests :
          \/ UserRoutes(r) \/ AuthRoutes(r) \/ EmailRoutes(r) \/ PasswordRoutes(r) \/ MfaRoutes(r)
          \/ OrganizationRoutes(r) \/ TeamRoutes(r) \/ RoleRoutes(r) \/ InvitationRoutes(r)
          \/ \E o \in Orgs, slug \in Slugs, u \in Users, e \in Emails : RegisterOrganization(r, o, slug, u, e)
          \/ WalkUp(r) \/ WalkRound(r) \/ FinishWalk(r)
          \/ Reload(r, Unversioned) \/ Commit(r) \/ Abort(r)
    \/ \E u \in Users : LockExpires(u)

-----------------------------------------------------------------------------
(* Properties.  The operators named X_Y are changed forms of X, each as a  *)
(* bug in that code would change it: the runs tell them from X.            *)

(* The types and the constraints; an accepted invitation has its user,     *)
(* whatever overlapped.  A user is locked for its failed attempts only,    *)
(* and has one outstanding token of each kind at most, as the calls clear  *)
(* what they see: unless two of them overlapped.                           *)
IdentityIsSound ==
    /\ HasSchema(db, Schema) /\ RequestsAreSound /\ Constraints(db)
    /\ \A i \in Stored("invitation") :
          db.invitation[i].invitation = "accepted" => WithEmail(db.invitation[i].org, db.invitation[i].email) # {}
    /\ \A u \in Stored("user") :
          /\ Undisturbed({"attempts", "locked"}, {"attempts", "locked"}) =>
                (db.user[u].locked # "never" => db.user[u].attempts >= Threshold)
          /\ \A table \in {"verify_token", "reset_token"} :
                Undisturbed({table}, {table}) => \A k, l \in Outstanding(table, u) : k = l

(* Rotation (authentication.py: "limits the blast radius of a leaked       *)
(* refresh token to a single use"): a session that was traded is revoked,  *)
(* and was traded once unless two refreshes of it overlapped.  After a     *)
(* reset of the password no session from before it is open, unless one was *)
(* issued while the reset ran.                                             *)
SessionsAreAccountedFor ==
    /\ \A s \in Stored("session") :
          db.session[s].from # None => db.session[s].from \in Stored("session") /\ db.session[db.session[s].from].revoked
    /\ Undisturbed({"session"}, {"revoked"}) =>
          \A s, t \in Stored("session") : s # t /\ db.session[s].from = db.session[t].from => db.session[s].from = None
    /\ Undisturbed({"session", "resets"}, {"session", "resets"}) =>
          \A u \in Stored("user") : \A s \in ActiveSessions(u) : db.session[s].issued = db.user[u].resets

(* A user who is asked for a second factor has one, and one who has one is *)
(* asked: unless an enrolment and its end overlapped.                      *)
MfaHasItsFactor ==
    Undisturbed({"mfa", "verified", "totp"}, {"mfa", "verified", "totp"}) =>
        \A u \in Stored("user") : db.user[u].mfa <=> VerifiedTotp(u) # {}

(* The parents that are in a hierarchy, as a walk finds them, are never    *)
(* all in a set with their children.                                       *)
IsHierarchy(table) ==
    \A S \in SUBSET Stored(table) : (\A k \in S : IsFound(table, k) /\ ParentIn(table, k) \in S) => S = {}

(* Teams that are not deleted, and roles, have no cycle unless two moves   *)
(* overlapped; and a walk comes round only where a move overlapped it or   *)
(* such a cycle (nothing else ends a team walk's loop, which never awaits). *)
HierarchiesHaveNoCycle ==
    \A table \in {"team", "role"} :
        Undisturbed({Column(table)}, {Column(table)}) =>
            /\ IsHierarchy(table)
            /\ \A r \in Requests :
                  IsWalking(r) /\ Column(table) \notin req[r].since =>
                      (req[r].walk.table = table => req[r].walk.cursor \notin DOMAIN req[r].walk.seen)

-----------------------------------------------------------------------------
(* From any sound database, whatever overlapped before; the ids that the   *)
(* requests are to give are new.                                           *)
Keyed == {"session", "verify_token", "reset_token", "totp", "code", "invitation"}

Start ==
    /\ req = [r \in Requests |-> Fresh]
    /\ \A table \in Keyed : Stored(table) \cap Requests = {}
    /\ IdentityIsSound /\ SessionsAreAccountedFor /\ MfaHasItsFactor /\ HierarchiesHaveNoCycle

Spec == Start /\ [][Next]_txns

=============================================================================
