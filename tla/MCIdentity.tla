------------------------------ MODULE MCIdentity ------------------------------
(***************************************************************************)
(* An instance of Identity: an organization whose owner has no second      *)
(* factor yet and has invited somebody, or an older one.                   *)
(***************************************************************************)
EXTENDS Identity

CONSTANTS r1, r2, k1, k2, u1, u2, o1, o2, a, b, e1, e2, t1, t2, t3, x1, x2, x3

Only(keys, k, row) == [j \in keys |-> IF j = k THEN row ELSE None]

Young ==
    [organization |-> Only(Orgs, o1, NewOrganization(a, u1)),
     user |-> Only(Users, u1, [NewUser(o1, e1) EXCEPT !.status = "active", !.attempts = 1]),
     session |-> Only(Keys, k1, [user_id |-> u1, revoked |-> FALSE, from |-> None, issued |-> {}]),
     verify_token |-> Only(Keys, k1, [NewToken(u1) EXCEPT !.consumed = TRUE]),
     reset_token |-> Only(Keys, k1, NewToken(u1)),
     totp |-> Only(Keys, k1, [user_id |-> u1, verified |-> FALSE]),
     code |-> [k \in Keys |-> None],
     role |-> [x \in Roles |-> CASE x = x1 -> [NewRole(None, None) EXCEPT !.id = None]
                                 [] x = x2 -> NewRole(None, o1)
                                 [] OTHER -> None],
     user_role |-> Only(Users \X Roles, <<u1, x1>>, [id |-> None]),
     invitation |-> Only(Keys, k1, [org |-> o1, email |-> e2, role_id |-> x2, invitation |-> "pending"]),
     team |-> [t \in Teams |-> IF t = t3 THEN None ELSE NewTeam(o1, None)],
     team_member |-> Only(Teams \X Users, <<t1, u1>>, [team_role |-> "lead", id |-> None])]

(* A second factor, a locked user who is yet to be verified, and a deleted *)
(* team between two others.                                                *)
Older ==
    [Young EXCEPT
        !.user[u1].mfa = TRUE,
        !.user[u2] = [NewUser(o1, e2) EXCEPT !.attempts = 2, !.locked = "now"],
        !.session[k2] = [user_id |-> u1, revoked |-> FALSE, from |-> None, issued |-> {}],
        !.verify_token[k1] = NewToken(u2),
        !.totp[k1].verified = TRUE,
        !.code[k1] = [user_id |-> u1, used |-> FALSE],
        !.role[x3] = [NewRole(None, o1) EXCEPT !.parent_role = x2],
        !.invitation[k1] = [org |-> o1, email |-> e2, role_id |-> x2, invitation |-> "accepted"],
        !.user_role[u2, x2] = [id |-> None],
        !.team[t1].parent_team = t2,
        !.team[t2] = [NewTeam(o1, t3) EXCEPT !.deleted = TRUE],
        !.team[t3] = NewTeam(o1, None)]

(* Two moves that overlapped have put two teams above each other.          *)
Tangled == [Young EXCEPT !.team[t1].parent_team = t2, !.team[t2].parent_team = t1, !.team[t3] = NewTeam(o1, None)]
Overlapped == {<<"parent_team", "parent_team">>}

MCInit ==
    \/ db \in {Young, Older} /\ InitTransactions
    \/ db = Tangled /\ req = [r \in Requests |-> Fresh] /\ raced = Overlapped

MCSpec == MCInit /\ [][Next]_txns

=============================================================================
