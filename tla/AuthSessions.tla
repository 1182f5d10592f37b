---------------------------- MODULE AuthSessions ----------------------------
(***************************************************************************)
(* Sessions: services/auth-tokens.js over the table refresh_tokens         *)
(* (migration 003), with the callers that open, rotate and end a session   *)
(* in routes/users.js, services/gdpr.js and services/admin-bootstrap.js.   *)
(*                                                                         *)
(* Every request is a process and every action is the code between two     *)
(* awaits with the SQL statement it sends; no two statements of            *)
(* rotateRefreshToken() share a transaction.  A refresh token is a row, a  *)
(* family is named by the token its login minted.  Whether the password is *)
(* right and the account locked is decided before LoginCheck.              *)
(***************************************************************************)
EXTENDS Naturals

CONSTANTS Users,
          Admin,     \* the user of FM_ADMIN_EMAIL
          Requests,  \* logins and refreshes
          Tokens,    \* the values randomBytes(32) may take
          None,
          Ttl,       \* refreshTokenTtlHours
          MaxClock   \* time at which the model's clock stops

ASSUME UsersAssumption == Admin \in Users
ASSUME NoneAssumption  == None \notin Tokens \cup Users
ASSUME TimeAssumption  == Ttl \in Nat /\ MaxClock \in Nat

VARIABLES clock,
          active,     \* the users with active = TRUE
          requested,  \* the users with deletion_requested_at NOT NULL
          erasing,    \* the users whose erasure has still to revoke their tokens
          rows,       \* refresh_tokens, by token
          held,       \* the tokens that reached a client
          pc,         \* where each request's handler is
          user,       \* whom it is about
          token,      \* the token it presents, None for a login
          got,        \* the token it minted
          raced, closed, barred   \* history, see below

users    == <<active, requested, erasing>>
requests == <<pc, user, token, got>>
\* The families two rotations of one token were under way in at once, those that were
\* revoked when no rotation was, and the users that were erased when no request was
\* about to mint a token of theirs.
history  == <<raced, closed, barred>>
vars     == <<clock, users, rows, held, requests, history>>

Row == [user : Users, family : Tokens, consumed : BOOLEAN, revoked : BOOLEAN, expires : Nat]

InFlight == {"revoke", "consume", "check", "mint", "reply"}

Init ==
    /\ clock = 0
    /\ active = Users /\ requested = {} /\ erasing = {}
    /\ rows = [t \in {} |-> {}]
    /\ held = {}
    /\ pc = [r \in Requests |-> "idle"]
    /\ user = [r \in Requests |-> None]
    /\ token = [r \in Requests |-> None]
    /\ got = [r \in Requests |-> None]
    /\ raced = {} /\ closed = {} /\ barred = {}

-----------------------------------------------------------------------------
(* The table.                                                              *)

Issued == DOMAIN rows

Goto(r, l) == pc' = [pc EXCEPT ![r] = l]

\* Variant: without the test of consumed_at.
UsableTwice(t) == ~rows[t].revoked /\ clock <= rows[t].expires

\* Neither revoked, nor consumed, nor past expires_at.
Usable(t) == ~rows[t].revoked /\ ~rows[t].consumed /\ clock <= rows[t].expires

\* Variant: WHERE token_hash in place of WHERE family.
OnlyPresented(r) == {token[r]}

\* WHERE family = ...: the family of the token r presents.
FamilyOf(r) == {t \in Issued : rows[t].family = rows[token[r]].family}

\* WHERE user_id = ...
TokensOf(u) == {t \in Issued : rows[t].user = u}

\* A rotation of the family f has read its token and may still mint another.
Rotating(f) == \E r \in Requests : /\ pc[r] \in {"consume", "check", "mint"}
                                   /\ token[r] # None
                                   /\ rows[token[r]].family = f

\* UPDATE refresh_tokens SET revoked_at = NOW(), of the tokens S.
Revoke(S) ==
    /\ rows' = [t \in Issued |-> IF t \in S THEN [rows[t] EXCEPT !.revoked = TRUE] ELSE rows[t]]
    /\ closed' = closed \cup {f \in {rows[t].family : t \in S} : ~Rotating(f)}

-----------------------------------------------------------------------------
(* POST /login.                                                            *)

\* The credentials are right and the account is active.
LoginCheck(r, u) ==
    /\ pc[r] = "idle"
    /\ u \in active
    /\ user' = [user EXCEPT ![r] = u]
    /\ Goto(r, "mint")
    /\ UNCHANGED <<clock, users, rows, held, token, got, history>>

-----------------------------------------------------------------------------
(* POST /token/refresh: rotateRefreshToken().                              *)

\* The SELECT finds the row of t.
Read(r, t) ==
    /\ pc[r] = "idle"
    /\ t \in held
    /\ token' = [token EXCEPT ![r] = t]
    /\ user' = [user EXCEPT ![r] = rows[t].user]
    /\ UNCHANGED <<clock, users, rows, held, got, closed, barred>>

\* Revoked, or expired without having been consumed.
RefreshRefused(r, t) ==
    /\ Read(r, t)
    /\ ~Usable(t)
    /\ rows[t].revoked \/ ~rows[t].consumed
    /\ Goto(r, "done")
    /\ UNCHANGED raced

RefreshReused(r, t) ==
    /\ Read(r, t)
    /\ rows[t].consumed /\ ~rows[t].revoked
    /\ Goto(r, "revoke")
    /\ UNCHANGED raced

RefreshRead(r, t) ==
    /\ Read(r, t)
    /\ Usable(t)
    /\ Goto(r, "consume")
    /\ raced' = IF \E p \in Requests : pc[p] = "consume" /\ token[p] = t
                THEN raced \cup {rows[t].family} ELSE raced

\* Reuse detected: the whole family is revoked.
RevokeFamily(r) ==
    /\ pc[r] = "revoke"
    /\ Revoke(FamilyOf(r))
    /\ Goto(r, "reused")
    /\ UNCHANGED <<clock, users, held, user, token, got, raced, barred>>

\* UPDATE ... SET consumed_at = NOW() WHERE id = ..., and nothing else in the WHERE.
Consume(r) ==
    /\ pc[r] = "consume"
    /\ rows' = [rows EXCEPT ![token[r]].consumed = TRUE]
    /\ Goto(r, "check")
    /\ UNCHANGED <<clock, users, held, user, token, got, history>>

\* Variant: without AND active = TRUE.
CheckNothing(r) ==
    /\ pc[r] = "check"
    /\ Goto(r, "mint")
    /\ UNCHANGED <<clock, users, rows, held, user, token, got, history>>

\* SELECT ... FROM users WHERE id = ... AND active = TRUE
CheckUser(r) ==
    /\ pc[r] = "check"
    /\ Goto(r, IF user[r] \in active THEN "mint" ELSE "done")
    /\ UNCHANGED <<clock, users, rows, held, user, token, got, history>>

\* Variant: the INSERT is not awaited, and fails.
MintUnawaited(r) ==
    /\ pc[r] = "mint"
    /\ \E t \in Tokens \ Issued : got' = [got EXCEPT ![r] = t]
    /\ Goto(r, "reply")
    /\ UNCHANGED <<clock, users, rows, held, user, token, history>>

\* mintRefreshToken(): a family of its own for a login, the presented token's for a refresh.
Mint(r) ==
    /\ pc[r] = "mint"
    /\ \E t \in Tokens \ Issued :
          LET family == IF token[r] = None THEN t ELSE rows[token[r]].family
              row    == [user |-> user[r], family |-> family, consumed |-> FALSE,
                         revoked |-> FALSE, expires |-> clock + Ttl]
          IN  /\ rows' = [i \in Issued \cup {t} |-> IF i = t THEN row ELSE rows[i]]
              /\ got' = [got EXCEPT ![r] = t]
    /\ Goto(r, "reply")
    /\ UNCHANGED <<clock, users, held, user, token, history>>

Reply(r) ==
    /\ pc[r] = "reply"
    /\ held' = held \cup {got[r]}
    /\ Goto(r, "done")
    /\ UNCHANGED <<clock, users, rows, user, token, got, history>>

\* A statement fails, or the answer never reaches the client.
Fail(r) ==
    /\ pc[r] \in InFlight
    /\ Goto(r, "done")
    /\ UNCHANGED <<clock, users, rows, held, user, token, got, history>>

-----------------------------------------------------------------------------
(* What ends a user's sessions.                                            *)

\* POST /logout: revokeAllForUser().
Logout(u) ==
    /\ Revoke(TokensOf(u))
    /\ UNCHANGED <<clock, users, held, requests, raced, barred>>

\* DELETE /me: the transaction of eraseSubject() ...
Erase(u) ==
    /\ u \in active \ requested
    /\ active' = active \ {u}
    /\ requested' = requested \cup {u}
    /\ erasing' = erasing \cup {u}
    /\ barred' = IF \E r \in Requests : pc[r] = "mint" /\ user[r] = u
                 THEN barred ELSE barred \cup {u}
    /\ UNCHANGED <<clock, rows, held, requests, raced, closed>>

\* ... and, after its COMMIT, revokeAllForUser(), whose failure is ignored.
EraseRevoke(u) ==
    /\ u \in erasing
    /\ erasing' = erasing \ {u}
    /\ Revoke(TokensOf(u)) \/ UNCHANGED <<rows, closed>>
    /\ UNCHANGED <<clock, active, requested, held, requests, raced, barred>>

\* The process restarts: what was under way is gone, and ensureAdmin() activates Admin.
Restart ==
    /\ pc' = [r \in Requests |-> IF pc[r] \in InFlight THEN "done" ELSE pc[r]]
    /\ active' = active \cup {Admin}
    /\ erasing' = {}
    /\ barred' = barred \ {Admin}
    /\ UNCHANGED <<clock, requested, rows, held, user, token, got, raced, closed>>

Tick ==
    /\ clock < MaxClock
    /\ clock' = clock + 1
    /\ UNCHANGED <<users, rows, held, requests, history>>

Handle(r) ==
    \/ \E u \in Users : LoginCheck(r, u)
    \/ \E t \in Tokens : RefreshRefused(r, t) \/ RefreshReused(r, t) \/ RefreshRead(r, t)
    \/ RevokeFamily(r) \/ Consume(r) \/ CheckUser(r) \/ Mint(r) \/ Reply(r) \/ Fail(r)

Next == \/ \E r \in Requests : Handle(r)
        \/ \E u \in Users : Logout(u) \/ Erase(u) \/ EraseRevoke(u)
        \/ Restart \/ Tick

Spec == Init /\ [][Next]_vars

-----------------------------------------------------------------------------
(* Properties.                                                             *)

\* Types: a token is held, presented or about to be sent only if it has a row, and a
\* rotation works for the user of the row it read.
TypeOK ==
    /\ clock \in Nat
    /\ active \subseteq Users /\ requested \subseteq Users /\ erasing \subseteq Users
    /\ \E S \in SUBSET Tokens : rows \in [S -> Row]
    /\ held \subseteq Issued
    /\ pc \in [Requests -> InFlight \cup {"idle", "reused", "done"}]
    /\ user \in [Requests -> Users \cup {None}]
    /\ token \in [Requests -> Issued \cup {None}]
    /\ got \in [Requests -> Issued \cup {None}]
    /\ \A r \in Requests :
          /\ pc[r] = "idle" => token[r] = None
          /\ pc[r] \in {"revoke", "consume", "check", "reused"} => token[r] # None
          /\ pc[r] \in {"consume", "check", "mint"} => user[r] # None
          /\ token[r] # None => user[r] = rows[token[r]].user
          /\ pc[r] = "reply" => got[r] # None
    /\ raced \subseteq Tokens /\ closed \subseteq Tokens /\ barred \subseteq Users

\* "rotated on every use": whatever is lost, retried, replayed or restarted, a family
\* has at most one token that was not consumed, unless two rotations of one token
\* were under way at once.
OneTokenPerFamily ==
    \A s, t \in Issued :
        /\ rows[s].family = rows[t].family /\ rows[s].family \notin raced
        /\ ~rows[s].consumed /\ ~rows[t].consumed
        => s = t

\* A session that was revoked - by a logout, an erasure or a detected reuse - while
\* none of its tokens was being rotated never gets a usable token again.
ClosedForGood ==
    \A t \in Issued : rows[t].family \in closed => rows[t].revoked

\* A user erased while no request was about to mint a token of theirs gets no token
\* before an administrator's restart activates them again, although the revocation of
\* their tokens may fail and they may hold usable ones.
ErasedGetsNoToken ==
    [][\A t \in DOMAIN rows' \ DOMAIN rows : rows'[t].user \notin barred]_vars

-----------------------------------------------------------------------------
(* What a comment says, and the code does not do.                          *)

\* auth-tokens.js, header: "if a previously consumed token is presented, the entire
\* family is revoked".
ReuseRevokesFamily ==
    \A r \in Requests : pc[r] = "reused" => \A t \in FamilyOf(r) : rows[t].revoked
=============================================================================
