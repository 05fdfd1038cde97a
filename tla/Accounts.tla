------------------------------- MODULE Accounts -------------------------------
(***************************************************************************)
(* The users of the identity context and what hangs on them: login and its *)
(* lock, sessions and their rotation, the tokens of the mails, the second  *)
(* factor.  Passwords, codes and tokens are right or wrong by choice; what *)
(* expires is a request that is not made, but for the lock, which a clock  *)
(* opens.  OAuth has no provider configured and is left out.               *)
(***************************************************************************)
EXTENDS Transactions, Naturals

CONSTANTS
    Users, Orgs, Emails,
    Seeds,       \* ids of the sessions, tokens and factors of the initial state
    Threshold    \* lockout_threshold

ASSUME ThresholdAssumption == Threshold \in Nat \ {0}

(* A request inserts at most one row of each of these tables.              *)
Keys == Requests \cup Seeds

UserStatuses == {"pending_verification", "active", "suspended", "deactivated"}

(* locked_until: none, in the future, in the past.  "resets" is a history: *)
(* the resets of the password that the row has seen.                       *)
User == [org : Orgs, email : Emails, status : UserStatuses, mfa : BOOLEAN,
         attempts : Nat, locked : {"never", "now", "past"}, resets : SUBSET Requests]

(* The history keeps the session that was traded for this one, and the     *)
(* resets of its user when it was issued.                                  *)
Session == [user_id : Users, revoked : BOOLEAN, from : Keys \cup {None}, issued : SUBSET Requests]
Token == [user_id : Users, consumed : BOOLEAN]
TotpFactor == [user_id : Users, verified : BOOLEAN]

(* The ten recovery codes of an enrolment stand and fall as one row; that  *)
(* it was used is told from the tokens' being consumed by the name.        *)
RecoveryCode == [user_id : Users, used : BOOLEAN]

(* A mail or a session that a committed request has yet to see to.         *)
Errand == [kind : {"welcome", "challenge"}, user : Users]

(* The foreign keys of the satellites and the unique addresses of an       *)
(* organization.                                                           *)
AccountConstraints(d) ==
    /\ \A table \in {"session", "verify_token", "reset_token", "totp", "code"} :
          \A k \in Rows(d, table) : d[table][k].user_id \in Rows(d, "user")
    /\ \A u, v \in Rows(d, "user") :
          u # v => <<d.user[u].org, d.user[u].email>> # <<d.user[v].org, d.user[v].email>>

-----------------------------------------------------------------------------
(* What the repositories read.                                             *)

Of(table, u) == {k \in Stored(table) : db[table][k].user_id = u}
WithEmail(o, e) == {u \in Stored("user") : db.user[u].org = o /\ db.user[u].email = e}
ActiveSessions(u) == {k \in Of("session", u) : ~db.session[k].revoked}
Outstanding(table, u) == {k \in Of(table, u) : ~db[table][k].consumed}
VerifiedTotp(u) == {k \in Of("totp", u) : db.totp[k].verified}

SaveUser(r, u, row) == Save(r, "user", u, row)

(* A change of each of the given rows, or their deletion.                  *)
UpdateAll(table, keys, Changed(_)) == {Update(table, k, Changed(db[table][k])) : k \in keys}
DeleteAll(table, keys) == {Delete(table, k) : k \in keys}

-----------------------------------------------------------------------------
(* Users.                                                                  *)

NewUser(o, e) ==
    [org |-> o, email |-> e, status |-> "pending_verification", mfa |-> FALSE,
     attempts |-> 0, locked |-> "never", resets |-> {}]

NewToken(u) == [user_id |-> u, consumed |-> FALSE]

(* The writes of a new user.  UserRegistered is dispatched once they are   *)
(* committed: a transaction of its own sends the verification mail.        *)
StageWelcomed(r, writes, u) ==
    /\ req[r].pc = "new"
    /\ req' = [req EXCEPT ![r].pc = "staged", ![r].writes = writes,
                          ![r].walk = [kind |-> "welcome", user |-> u]]
    /\ UNCHANGED <<db, raced>>

Register(r, u, o, e) ==
    /\ WithEmail(o, e) = {} /\ IsNew("user", u)
    /\ StageWelcomed(r, {Insert("user", u, NewUser(o, e))}, u)

(* send_verification: older tokens are consumed by one statement.          *)
Consumed(row) == [row EXCEPT !.consumed = TRUE]
Reissue(r, table, u) ==
    UpdateAll(table, Outstanding(table, u), Consumed) \cup {Insert(table, r, NewToken(u))}

ResendVerification(r, u) == u \in Stored("user") /\ Stage(r, Reissue(r, "verify_token", u))

VerifyEmail(r, k) ==
    /\ k \in Stored("verify_token") /\ ~db.verify_token[k].consumed
    /\ LET u == db.verify_token[k].user_id
       IN  /\ db.user[u].status = "pending_verification"
           /\ Stage(r, {Update("verify_token", k, Consumed(db.verify_token[k])),
                         Update("user", u, [db.user[u] EXCEPT !.status = "active"])})

UpdateProfile(r, u) == u \in Stored("user") /\ SaveUser(r, u, db.user[u])
UpdateAvatar(r, u) == u \in Stored("user") /\ SaveUser(r, u, db.user[u])
UpdatePreferences(r, u) == u \in Stored("user") /\ SaveUser(r, u, db.user[u])
ChangePassword(r, u) == u \in Stored("user") /\ SaveUser(r, u, db.user[u])

SetUserStatus(r, u, status) ==
    u \in Stored("user") /\ SaveUser(r, u, [db.user[u] EXCEPT !.status = status])

(* None of the three looks at the status the user has.                     *)
SuspendUser(r, u) == SetUserStatus(r, u, "suspended")
ReactivateUser(r, u) == SetUserStatus(r, u, "active")
DeactivateUser(r, u) == SetUserStatus(r, u, "deactivated")

-----------------------------------------------------------------------------
(* Login and sessions.                                                     *)

NewSession(u, from) == [user_id |-> u, revoked |-> FALSE, from |-> from, issued |-> db.user[u].resets]
Revoked(row) == [row EXCEPT !.revoked = TRUE]

(* record_failed_login, record_successful_login *)
FailedLogin(row) ==
    [row EXCEPT !.attempts = @ + 1, !.locked = IF row.attempts + 1 >= Threshold THEN "now" ELSE @]
SuccessfulLogin(row) == [row EXCEPT !.attempts = 0, !.locked = "never"]

CanTry(u) == u \in Stored("user") /\ db.user[u].locked # "now"

LoginFails(r, u) == CanTry(u) /\ SaveUser(r, u, FailedLogin(db.user[u]))

Login(r, u) ==
    /\ CanTry(u) /\ db.user[u].status = "active" /\ ~db.user[u].mfa
    /\ Stage(r, {Update("user", u, SuccessfulLogin(db.user[u])), Insert("session", r, NewSession(u, None))})

(* With a second factor the password opens a challenge and no session.     *)
LoginIsChallenged(r, u) ==
    /\ CanTry(u) /\ db.user[u].status = "active" /\ db.user[u].mfa
    /\ SaveUser(r, u, SuccessfulLogin(db.user[u]))

(* verify_mfa_challenge: the session is issued in a transaction of its own *)
(* after the one that read the factors and used up the code.               *)
VerifyTotp(r, u) ==
    /\ req[r].pc = "new" /\ u \in Stored("user") /\ VerifiedTotp(u) # {}
    /\ req' = [req EXCEPT ![r].pc = "walk", ![r].walk = [kind |-> "challenge", user |-> u]]
    /\ UNCHANGED <<db, raced>>

VerifyCode(r, k) ==
    /\ req[r].pc = "new" /\ k \in Stored("code") /\ ~db.code[k].used
    /\ req' = [req EXCEPT ![r].pc = "staged",
                          ![r].writes = {Update("code", k, [db.code[k] EXCEPT !.used = TRUE])},
                          ![r].walk = [kind |-> "challenge", user |-> db.code[k].user_id]]
    /\ UNCHANGED <<db, raced>>

CompleteChallenge(r) ==
    /\ req[r].pc = "walk" /\ req[r].walk.kind = "challenge"
    /\ req' = [req EXCEPT ![r] = [Fresh EXCEPT !.pc = "staged",
                  !.writes = {Insert("session", r, NewSession(req[r].walk.user, None))}]]
    /\ UNCHANGED <<db, raced>>

Refresh_KeepsTheOld(r, k) ==
    /\ k \in Stored("session") /\ ~db.session[k].revoked
    /\ Stage(r, {Insert("session", r, NewSession(db.session[k].user_id, k))})

(* The old session is revoked and the new one issued in one transaction;   *)
(* the status of the user is not looked at.                                *)
Refresh(r, k) ==
    /\ k \in Stored("session") /\ ~db.session[k].revoked
    /\ Stage(r, {Update("session", k, Revoked(db.session[k])),
                  Insert("session", r, NewSession(db.session[k].user_id, k))})

Logout(r, k) == k \in Stored("session") /\ Save(r, "session", k, Revoked(db.session[k]))
RevokeSession(r, k) == k \in Stored("session") /\ Save(r, "session", k, Revoked(db.session[k]))

-----------------------------------------------------------------------------
(* The reset of a password.                                                *)

RequestReset_KeepsOlder(r, u) ==
    u \in Stored("user") /\ Stage(r, {Insert("reset_token", r, NewToken(u))})

RequestReset(r, u) == u \in Stored("user") /\ Stage(r, Reissue(r, "reset_token", u))

ResetPassword(r, k) ==
    /\ k \in Stored("reset_token") /\ ~db.reset_token[k].consumed
    /\ LET u == db.reset_token[k].user_id
       IN  Stage(r, {Update("user", u, [db.user[u] EXCEPT !.resets = @ \cup {r}]),
                      Update("reset_token", k, Consumed(db.reset_token[k]))}
                    \cup UpdateAll("session", ActiveSessions(u), Revoked))

-----------------------------------------------------------------------------
(* The second factor.                                                      *)

NewCode(r, u) == Insert("code", r, [user_id |-> u, used |-> FALSE])

StartTotp(r, u) ==
    /\ u \in Stored("user") /\ VerifiedTotp(u) = {}
    /\ Stage(r, {Insert("totp", r, [user_id |-> u, verified |-> FALSE])})

ConfirmTotp(r, k) ==
    /\ k \in Stored("totp")
    /\ LET u == db.totp[k].user_id
       IN  Stage(r, {Update("totp", k, [db.totp[k] EXCEPT !.verified = TRUE]),
                      Update("user", u, [db.user[u] EXCEPT !.mfa = TRUE]), NewCode(r, u)})

RegenerateCodes(r, u) ==
    u \in Stored("user") /\ Stage(r, DeleteAll("code", Of("code", u)) \cup {NewCode(r, u)})

DisableMfa_KeepsTotp(r, u) ==
    /\ u \in Stored("user")
    /\ Stage(r, DeleteAll("code", Of("code", u)) \cup {Update("user", u, [db.user[u] EXCEPT !.mfa = FALSE])})

DisableMfa(r, u) ==
    /\ u \in Stored("user")
    /\ Stage(r, DeleteAll("totp", Of("totp", u)) \cup DeleteAll("code", Of("code", u))
                \cup {Update("user", u, [db.user[u] EXCEPT !.mfa = FALSE])})

-----------------------------------------------------------------------------
(* The routes, by router.                                                  *)

UserRoutes(r) ==
    \E u \in Users :
       \/ \E o \in Stored("organization"), e \in Emails : Register(r, u, o, e)
       \/ UpdateProfile(r, u) \/ UpdateAvatar(r, u) \/ UpdatePreferences(r, u)
       \/ SuspendUser(r, u) \/ ReactivateUser(r, u) \/ DeactivateUser(r, u)

AuthRoutes(r) ==
    \/ \E u \in Users : LoginFails(r, u) \/ Login(r, u) \/ LoginIsChallenged(r, u)
    \/ \E k \in Keys : Refresh(r, k) \/ Logout(r, k) \/ RevokeSession(r, k)

EmailRoutes(r) ==
    (\E u \in Users : ResendVerification(r, u)) \/ (\E k \in Keys : VerifyEmail(r, k))

PasswordRoutes(r) ==
    \/ \E u \in Users : ChangePassword(r, u) \/ RequestReset(r, u)
    \/ \E k \in Keys : ResetPassword(r, k)

MfaRoutes(r) ==
    \/ \E u \in Users : StartTotp(r, u) \/ RegenerateCodes(r, u) \/ DisableMfa(r, u) \/ VerifyTotp(r, u)
    \/ \E k \in Keys : ConfirmTotp(r, k) \/ VerifyCode(r, k)
    \/ CompleteChallenge(r)

(* locked_until passes; nothing is written.                                *)
LockExpires(u) ==
    /\ u \in Stored("user") /\ db.user[u].locked = "now"
    /\ db' = [db EXCEPT !.user[u].locked = "past"]
    /\ UNCHANGED <<req, raced>>

=============================================================================
