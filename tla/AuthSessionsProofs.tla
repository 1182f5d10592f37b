------------------------- MODULE AuthSessionsProofs -------------------------
(***************************************************************************)
(* Proofs about AuthSessions, for any users, requests, tokens and times.   *)
(***************************************************************************)
EXTENDS AuthSessions, TLAPS

USE UsersAssumption, NoneAssumption, TimeAssumption

(***************************************************************************)
(* The inductive invariant.  A family always has one place where its next  *)
(* token can come from: its token that was not consumed, or the one        *)
(* rotation that consumed it and has still to mint.                        *)
(***************************************************************************)

\* The rotation r has consumed its token and has still to mint.
Minting(r) == pc[r] \in {"check", "mint"} /\ token[r] # None
FamilyRotated(r) == rows[token[r]].family

\* A family is named by one of its tokens and belongs to one user.
Families ==
    /\ \A t \in Issued : rows[t].family \in Issued
    /\ \A s, t \in Issued : rows[s].family = rows[t].family => rows[s].user = rows[t].user

\* The token a rotation is about to consume is not consumed, and no other rotation is
\* about to consume it.
ReadOnce ==
    /\ \A r \in Requests : pc[r] = "consume" =>
          FamilyRotated(r) \in raced \/ ~rows[token[r]].consumed
    /\ \A q, r \in Requests :
          pc[q] = "consume" /\ pc[r] = "consume" /\ token[q] = token[r] =>
              q = r \/ FamilyRotated(r) \in raced

\* A family whose next token is being minted has none that was not consumed, ...
NoneLeft ==
    \A r \in Requests : Minting(r) =>
        \A t \in Issued : rows[t].family = FamilyRotated(r) =>
            FamilyRotated(r) \in raced \/ rows[t].consumed

\* ... and one rotation mints it.
OneMinting ==
    \A q, r \in Requests :
        Minting(q) /\ Minting(r) /\ FamilyRotated(q) = FamilyRotated(r) =>
            q = r \/ FamilyRotated(r) \in raced

\* A closed family exists, and nothing rotates in it.
ClosedQuiet ==
    /\ closed \subseteq Issued
    /\ \A f \in closed : ~Rotating(f)

\* A barred user is not active, and nothing of theirs is about to be minted.
BarredOut ==
    \A u \in barred : /\ u \notin active
                      /\ \A r \in Requests : pc[r] = "mint" => user[r] # u

Inv == /\ TypeOK /\ Families /\ ReadOnce /\ NoneLeft /\ OneMinting /\ OneTokenPerFamily
       /\ ClosedQuiet /\ ClosedForGood /\ BarredOut

-----------------------------------------------------------------------------
(* What the statements do to the table.                                    *)

LEMMA RowsType ==
    ASSUME TypeOK
    PROVE  /\ Issued \subseteq Tokens /\ rows \in [Issued -> Row]
           /\ None \notin Issued
           /\ \A t \in Issued : /\ rows[t] \in Row /\ rows[t].user \in Users
                                /\ rows[t].consumed \in BOOLEAN /\ rows[t].revoked \in BOOLEAN
  BY DEF TypeOK, Issued, Row

LEMMA RevokeEffect ==
    ASSUME TypeOK, NEW S \in SUBSET Issued, Revoke(S)
    PROVE  /\ rows' \in [Issued -> Row] /\ Issued' = Issued
           /\ \A t \in Issued : /\ rows'[t].user = rows[t].user
                                /\ rows'[t].family = rows[t].family
                                /\ rows'[t].consumed = rows[t].consumed
                                /\ rows'[t].revoked = (t \in S \/ rows[t].revoked)
  <1>1. rows' = [t \in Issued |-> IF t \in S THEN [rows[t] EXCEPT !.revoked = TRUE] ELSE rows[t]]
    BY DEF Revoke
  <1>2. Issued' = Issued
    BY <1>1 DEF Issued
  <1>3. ASSUME NEW t \in Issued
        PROVE  /\ rows'[t] \in Row
               /\ rows'[t].user = rows[t].user
               /\ rows'[t].family = rows[t].family
               /\ rows'[t].consumed = rows[t].consumed
               /\ rows'[t].revoked = (t \in S \/ rows[t].revoked)
    BY <1>1, RowsType DEF Row
  <1> QED
    BY <1>1, <1>2, <1>3

LEMMA ConsumeEffect ==
    ASSUME TypeOK, NEW r \in Requests, Consume(r)
    PROVE  /\ rows' \in [Issued -> Row] /\ Issued' = Issued
           /\ token[r] \in Issued
           /\ \A t \in Issued : /\ rows'[t].user = rows[t].user
                                /\ rows'[t].family = rows[t].family
                                /\ rows'[t].consumed = (t = token[r] \/ rows[t].consumed)
                                /\ rows'[t].revoked = rows[t].revoked
  <1>1. token[r] \in Issued
    BY DEF Consume, TypeOK
  <1>2. rows' = [rows EXCEPT ![token[r]].consumed = TRUE]
    BY DEF Consume
  <1>3. Issued' = Issued
    BY <1>2 DEF Issued
  <1>4. ASSUME NEW t \in Issued
        PROVE  /\ rows'[t] \in Row
               /\ rows'[t].user = rows[t].user
               /\ rows'[t].family = rows[t].family
               /\ rows'[t].consumed = (t = token[r] \/ rows[t].consumed)
               /\ rows'[t].revoked = rows[t].revoked
    BY <1>1, <1>2, RowsType DEF Row
  <1> QED
    BY <1>1, <1>2, <1>3, <1>4, RowsType

LEMMA MintEffect ==
    ASSUME TypeOK, NEW r \in Requests, Mint(r)
    PROVE  \E n \in Tokens \ Issued :
             /\ Issued' = Issued \cup {n} /\ rows' \in [Issued' -> Row]
             /\ \A t \in Issued : rows'[t] = rows[t]
             /\ rows'[n].user = user[r] /\ ~rows'[n].consumed /\ ~rows'[n].revoked
             /\ rows'[n].family = IF token[r] = None THEN n ELSE FamilyRotated(r)
             /\ got' = [got EXCEPT ![r] = n]
  <1> DEFINE family(n) == IF token[r] = None THEN n ELSE rows[token[r]].family
             row(n) == [user |-> user[r], family |-> family(n), consumed |-> FALSE,
                        revoked |-> FALSE, expires |-> clock + Ttl]
  <1>1. PICK n \in Tokens \ Issued :
            /\ rows' = [i \in Issued \cup {n} |-> IF i = n THEN row(n) ELSE rows[i]]
            /\ got' = [got EXCEPT ![r] = n]
    BY DEF Mint
  <1>2. user[r] \in Users /\ clock + Ttl \in Nat
    BY DEF Mint, TypeOK
  <1>3. family(n) \in Tokens
    BY RowsType DEF TypeOK, Row
  <1>4. row(n) \in Row
    BY <1>2, <1>3 DEF Row
  <1>5. Issued' = Issued \cup {n}
    BY <1>1 DEF Issued
  <1>6. \A t \in Issued : rows'[t] = rows[t]
    BY <1>1
  <1>7. rows'[n] = row(n)
    BY <1>1
  <1>8. rows' \in [Issued' -> Row]
    BY <1>1, <1>4, <1>5, RowsType
  <1> HIDE DEF family
  <1>9. /\ rows'[n].user = user[r] /\ ~rows'[n].consumed /\ ~rows'[n].revoked
        /\ rows'[n].family = family(n)
    BY <1>7
  <1> QED
    BY <1>1, <1>5, <1>6, <1>8, <1>9 DEF family, FamilyRotated

-----------------------------------------------------------------------------
(* Types.                                                                  *)

LEMMA InitInv == Init => Inv
  BY DEF Init, Inv, TypeOK, Issued, Row, InFlight, Families, ReadOnce, NoneLeft, OneMinting,
         Minting, OneTokenPerFamily, ClosedQuiet, ClosedForGood, BarredOut

\* The actions that leave the table alone.
QuietAction ==
    \/ \E r \in Requests : \/ \E u \in Users : LoginCheck(r, u)
                           \/ \E t \in Tokens : \/ RefreshRefused(r, t)
                                                \/ RefreshReused(r, t)
                                                \/ RefreshRead(r, t)
                           \/ CheckUser(r) \/ Reply(r) \/ Fail(r)
    \/ \E u \in Users : Erase(u)
    \/ Restart \/ Tick

LEMMA QuietType ==
    ASSUME TypeOK, QuietAction
    PROVE  TypeOK'
  <1> rows' = rows /\ Issued' = Issued
    BY DEF QuietAction, LoginCheck, RefreshRefused, RefreshReused, RefreshRead, Read, CheckUser,
           Reply, Fail, Erase, Restart, Tick, Issued
  <1> USE RowsType
  <1>1. ASSUME NEW r \in Requests, NEW u \in Users, LoginCheck(r, u) PROVE TypeOK'
    BY <1>1 DEF TypeOK, LoginCheck, Goto, InFlight, users, history
  <1>2. ASSUME NEW r \in Requests, NEW t \in Tokens,
               RefreshRefused(r, t) \/ RefreshReused(r, t) \/ RefreshRead(r, t)
        PROVE  TypeOK'
    <2>1. rows[t] \in Row /\ t \in Issued
      BY <1>2 DEF RefreshRefused, RefreshReused, RefreshRead, Read, TypeOK
    <2>2. rows[t].user \in Users /\ rows[t].family \in Tokens
      BY <2>1 DEF Row
    <2> QED
      BY <1>2, <2>1, <2>2 DEF TypeOK, RefreshRefused, RefreshReused, RefreshRead, Read, Goto,
         InFlight, users
  <1>3. ASSUME NEW r \in Requests, CheckUser(r) \/ Reply(r) \/ Fail(r) PROVE TypeOK'
    BY <1>3 DEF TypeOK, CheckUser, Reply, Fail, Goto, InFlight, users, history
  <1>4. ASSUME NEW u \in Users, Erase(u) PROVE TypeOK'
    BY <1>4 DEF TypeOK, Erase, requests
  <1>5. CASE Restart \/ Tick
    BY <1>5 DEF TypeOK, Restart, Tick, users, requests, history, InFlight
  <1> QED
    BY <1>1, <1>2, <1>3, <1>4, <1>5 DEF QuietAction

LEMMA RevokeType ==
    ASSUME TypeOK, Families, NEW S \in SUBSET Issued, Revoke(S),
           UNCHANGED <<clock, active, requested, held, user, token, got, raced, barred>>,
           erasing' \subseteq Users, pc' \in [Requests -> InFlight \cup {"idle", "reused", "done"}],
           \A r \in Requests : pc'[r] = pc[r] \/ (pc[r] = "revoke" /\ pc'[r] = "reused")
    PROVE  TypeOK'
  <1>1. closed' \subseteq Tokens
    BY RowsType DEF Revoke, Families, TypeOK
  <1> QED
    BY <1>1, RevokeEffect, RowsType DEF TypeOK, InFlight

LEMMA ConsumeType ==
    ASSUME TypeOK, NEW r \in Requests, Consume(r)
    PROVE  TypeOK'
  <1>1. Issued' = Issued /\ Issued \subseteq Tokens /\ rows' \in [Issued -> Row]
    BY ConsumeEffect, RowsType
  <1>2. \A q \in Requests : token[q] # None => rows'[token[q]].user = rows[token[q]].user
    BY ConsumeEffect DEF TypeOK
  <1> QED
    BY <1>1, <1>2 DEF TypeOK, Consume, Goto, InFlight, users, history

LEMMA MintType ==
    ASSUME TypeOK, NEW r \in Requests, Mint(r)
    PROVE  TypeOK'
  <1>1. PICK n \in Tokens \ Issued :
             /\ Issued' = Issued \cup {n} /\ rows' \in [Issued' -> Row]
             /\ \A t \in Issued : rows'[t] = rows[t]
             /\ got' = [got EXCEPT ![r] = n]
    BY MintEffect
  <1>2. Issued' \subseteq Tokens /\ Issued \subseteq Issued' /\ n \in Issued' /\ n # None
    BY <1>1, RowsType
  <1>3. \A q \in Requests : token[q] # None => rows'[token[q]] = rows[token[q]]
    BY <1>1 DEF TypeOK
  <1>4. token' = token /\ user' = user /\ held' = held /\ pc' = [pc EXCEPT ![r] = "reply"]
        /\ UNCHANGED <<clock, active, requested, erasing, raced, closed, barred>>
    BY DEF Mint, Goto, users, history
  <1>5. /\ clock' \in Nat /\ active' \subseteq Users /\ requested' \subseteq Users
        /\ erasing' \subseteq Users /\ held' \subseteq Issued' /\ raced' \subseteq Tokens
        /\ closed' \subseteq Tokens /\ barred' \subseteq Users
        /\ pc' \in [Requests -> InFlight \cup {"idle", "reused", "done"}]
        /\ user' \in [Requests -> Users \cup {None}]
        /\ token' \in [Requests -> Issued' \cup {None}]
        /\ got' \in [Requests -> Issued' \cup {None}]
    BY <1>1, <1>2, <1>4 DEF TypeOK, InFlight
  <1>6. ASSUME NEW q \in Requests
        PROVE  /\ pc'[q] = "idle" => token'[q] = None
               /\ pc'[q] \in {"revoke", "consume", "check", "reused"} => token'[q] # None
               /\ pc'[q] \in {"consume", "check", "mint"} => user'[q] # None
               /\ token'[q] # None => user'[q] = rows'[token'[q]].user
               /\ pc'[q] = "reply" => got'[q] # None
    BY <1>1, <1>2, <1>3, <1>4 DEF TypeOK
  <1>7. \E S \in SUBSET Tokens : rows' \in [S -> Row]
    BY <1>1, <1>2
  <1> QED
    BY <1>5, <1>6, <1>7 DEF TypeOK

-----------------------------------------------------------------------------
(* The statements that leave the table alone.                              *)

\* A handler moves on without starting a rotation or having consumed anything: no
\* invariant about tokens can notice.
LEMMA QuietStep ==
    ASSUME Inv, TypeOK', UNCHANGED <<rows, token, closed>>, raced \subseteq raced',
           \A r \in Requests : /\ pc'[r] = "consume" => pc[r] = "consume"
                               /\ Minting(r)' => Minting(r)
    PROVE  /\ Families' /\ ReadOnce' /\ NoneLeft' /\ OneMinting' /\ OneTokenPerFamily'
           /\ ClosedQuiet' /\ ClosedForGood'
  <1>1. Issued' = Issued
    BY DEF Issued
  <1>2. \A r \in Requests : FamilyRotated(r)' = FamilyRotated(r)
    BY DEF FamilyRotated
  <1>3. \A f \in closed : ~Rotating(f)'
    BY DEF Inv, ClosedQuiet, Rotating, Minting
  <1> QED
    BY <1>1, <1>2, <1>3 DEF Inv, Families, ReadOnce, NoneLeft, OneMinting, OneTokenPerFamily,
       ClosedQuiet, ClosedForGood, FamilyRotated

LEMMA LoginStep ==
    ASSUME Inv, TypeOK', NEW r \in Requests, NEW u \in Users, LoginCheck(r, u)
    PROVE  Inv'
  <1>1. token[r] = None /\ token' = token /\ pc' = [pc EXCEPT ![r] = "mint"]
        /\ pc \in [Requests -> InFlight \cup {"idle", "reused", "done"}]
    BY DEF Inv, TypeOK, LoginCheck, Goto
  <1>2. \A q \in Requests : /\ pc'[q] = "consume" => pc[q] = "consume"
                            /\ Minting(q)' => Minting(q)
    BY <1>1 DEF Minting
  <1>3. BarredOut'
    BY DEF Inv, TypeOK, BarredOut, LoginCheck, Goto, users, history
  <1> QED
    BY <1>2, <1>3, QuietStep DEF Inv, LoginCheck, users, history

\* An answer to a refresh that is refused or found to be a reuse, and the tail of a
\* handler: none of them starts a rotation.
LEMMA AnswerStep ==
    ASSUME Inv, TypeOK', NEW r \in Requests,
           \/ \E t \in Tokens : RefreshRefused(r, t) \/ RefreshReused(r, t)
           \/ Reply(r) \/ Fail(r)
    PROVE  Inv'
  <1>1. /\ UNCHANGED <<rows, closed, raced, active, barred>>
        /\ \E l \in {"done", "revoke"} : pc' = [pc EXCEPT ![r] = l]
        /\ pc[r] # "idle" => token' = token /\ user' = user
        /\ pc[r] = "idle" => \E t \in Issued : /\ token' = [token EXCEPT ![r] = t]
                                               /\ user' = [user EXCEPT ![r] = rows[t].user]
    BY DEF Inv, TypeOK, RefreshRefused, RefreshReused, Read, Reply, Fail, Goto, users, history,
           InFlight
  <1>2. /\ pc \in [Requests -> InFlight \cup {"idle", "reused", "done"}]
        /\ token \in [Requests -> Issued \cup {None}] /\ user \in [Requests -> Users \cup {None}]
    BY DEF Inv, TypeOK
  <1>3. \A q \in Requests : /\ q # r => pc'[q] = pc[q] /\ token'[q] = token[q]
                                        /\ user'[q] = user[q]
                            /\ pc'[r] \in {"done", "revoke"}
    BY <1>1, <1>2
  <1>4. Issued' = Issued
    BY <1>1 DEF Issued
  <1>5. ReadOnce' /\ NoneLeft' /\ OneMinting' /\ ClosedQuiet'
    <2>1. \A q \in Requests : /\ pc'[q] = "consume" => q # r /\ pc[q] = "consume"
                              /\ Minting(q)' => q # r /\ Minting(q)
      BY <1>3 DEF Minting
    <2>2. \A q \in Requests \ {r} : FamilyRotated(q)' = FamilyRotated(q)
      BY <1>1, <1>3 DEF FamilyRotated
    <2>3. \A f : Rotating(f)' => Rotating(f)
      BY <1>1, <1>3 DEF Rotating
    <2>4. ReadOnce'
      BY <1>1, <1>3, <2>1, <2>2 DEF Inv, ReadOnce
    <2>5. NoneLeft' /\ OneMinting'
      BY <1>1, <1>4, <2>1, <2>2 DEF Inv, NoneLeft, OneMinting
    <2>6. ClosedQuiet'
      BY <1>1, <1>4, <2>3 DEF Inv, ClosedQuiet
    <2> QED
      BY <2>4, <2>5, <2>6
  <1>6. Families' /\ OneTokenPerFamily' /\ ClosedForGood'
    BY <1>1, <1>4 DEF Inv, Families, OneTokenPerFamily, ClosedForGood
  <1>7. BarredOut'
    BY <1>1, <1>3 DEF Inv, BarredOut
  <1> QED
    BY <1>5, <1>6, <1>7 DEF Inv

LEMMA ReadStep ==
    ASSUME Inv, TypeOK', NEW r \in Requests, NEW t \in Tokens, RefreshRead(r, t)
    PROVE  Inv'
  <1>1. /\ UNCHANGED <<rows, closed, active, barred>> /\ t \in Issued
        /\ pc[r] = "idle" /\ pc' = [pc EXCEPT ![r] = "consume"]
        /\ token' = [token EXCEPT ![r] = t] /\ user' = [user EXCEPT ![r] = rows[t].user]
        /\ ~rows[t].consumed /\ ~rows[t].revoked
        /\ raced \subseteq raced'
        /\ (\E p \in Requests : pc[p] = "consume" /\ token[p] = t) => rows[t].family \in raced'
    BY DEF Inv, TypeOK, RefreshRead, Read, Usable, Goto, users
  <1>2. /\ pc \in [Requests -> InFlight \cup {"idle", "reused", "done"}]
        /\ token \in [Requests -> Issued \cup {None}] /\ user \in [Requests -> Users \cup {None}]
    BY DEF Inv, TypeOK
  <1>3. /\ \A q \in Requests \ {r} : pc'[q] = pc[q] /\ token'[q] = token[q] /\ user'[q] = user[q]
        /\ pc'[r] = "consume" /\ token'[r] = t
    BY <1>1, <1>2
  <1>4. Issued' = Issued
    BY <1>1 DEF Issued
  <1>5. \A q \in Requests : Minting(q)' => Minting(q) /\ FamilyRotated(q)' = FamilyRotated(q)
    BY <1>1, <1>3 DEF Minting, FamilyRotated
  <1>6. ReadOnce'
    BY <1>1, <1>3 DEF Inv, ReadOnce, FamilyRotated
  <1>7. NoneLeft' /\ OneMinting'
    BY <1>1, <1>4, <1>5 DEF Inv, NoneLeft, OneMinting
  <1>8. ClosedQuiet'
    <2>1. rows[t].family \notin closed
      BY <1>1 DEF Inv, ClosedForGood
    <2>2. \A f \in closed : ~Rotating(f)'
      BY <1>1, <1>3, <2>1 DEF Inv, ClosedQuiet, Rotating
    <2> QED
      BY <1>1, <1>4, <2>2 DEF Inv, ClosedQuiet
  <1>9. Families' /\ OneTokenPerFamily' /\ ClosedForGood'
    BY <1>1, <1>4 DEF Inv, Families, OneTokenPerFamily, ClosedForGood
  <1>10. BarredOut'
    BY <1>1, <1>3 DEF Inv, BarredOut
  <1> QED
    BY <1>6, <1>7, <1>8, <1>9, <1>10 DEF Inv

LEMMA CheckStep ==
    ASSUME Inv, TypeOK', NEW r \in Requests, CheckUser(r)
    PROVE  Inv'
  <1>1. \A q \in Requests : /\ pc'[q] = "consume" => pc[q] = "consume"
                            /\ Minting(q)' => Minting(q)
    BY DEF Inv, TypeOK, CheckUser, Goto, Minting
  <1>2. BarredOut'
    BY DEF Inv, TypeOK, BarredOut, CheckUser, Goto, users, history
  <1> QED
    BY <1>1, <1>2, QuietStep DEF Inv, CheckUser, users, history

LEMMA OutsideStep ==
    ASSUME Inv, TypeOK', (\E u \in Users : Erase(u)) \/ Restart \/ Tick \/ UNCHANGED vars
    PROVE  Inv'
  <1>1. \A q \in Requests : /\ pc'[q] = "consume" => pc[q] = "consume"
                            /\ Minting(q)' => Minting(q)
    BY DEF Inv, TypeOK, Erase, Restart, Tick, vars, requests, Minting
  <1>2. UNCHANGED <<rows, token, closed, raced>>
    BY DEF Erase, Restart, Tick, vars, requests, history
  <1>3. BarredOut'
    <2>1. ASSUME NEW u \in Users, Erase(u) PROVE BarredOut'
      BY <2>1 DEF Inv, BarredOut, Erase, requests
    <2>2. CASE Restart
      BY <2>2 DEF Inv, TypeOK, BarredOut, Restart
    <2>3. CASE Tick \/ UNCHANGED vars
      BY <2>3 DEF Inv, BarredOut, Tick, vars, users, requests, history
    <2> QED
      BY <2>1, <2>2, <2>3
  <1> QED
    BY <1>1, <1>2, <1>3, QuietStep DEF Inv

-----------------------------------------------------------------------------
(* The statements that write the table.                                    *)

\* S holds every token of a family or none of them.
Whole(S) == \A s \in S, t \in Issued : rows[s].family = rows[t].family => t \in S

LEMMA RevokeStep ==
    ASSUME Inv, TypeOK', NEW S \in SUBSET Issued, Whole(S), Revoke(S),
           UNCHANGED <<active, user, token, raced, barred>>,
           \A r \in Requests : pc'[r] = pc[r] \/ (pc[r] = "revoke" /\ pc'[r] = "reused")
    PROVE  Inv'
  <1>1. /\ Issued' = Issued
        /\ \A t \in Issued : /\ rows'[t].user = rows[t].user
                             /\ rows'[t].family = rows[t].family
                             /\ rows'[t].consumed = rows[t].consumed
                             /\ rows'[t].revoked = (t \in S \/ rows[t].revoked)
    BY RevokeEffect DEF Inv
  <1>2. \A r \in Requests : /\ pc'[r] = "consume" => pc[r] = "consume"
                            /\ pc'[r] \in {"consume", "check", "mint"} => pc'[r] = pc[r]
                            /\ Minting(r)' => Minting(r)
    BY DEF Minting
  <1>3. \A r \in Requests : token[r] # None =>
            token[r] \in Issued /\ FamilyRotated(r)' = FamilyRotated(r)
    BY <1>1 DEF Inv, TypeOK, FamilyRotated
  <1>4. \A r \in Requests : pc[r] = "consume" => token[r] # None
    BY DEF Inv, TypeOK
  <1>5. ReadOnce'
    BY <1>1, <1>2, <1>3, <1>4 DEF Inv, ReadOnce
  <1>6. NoneLeft' /\ OneMinting'
    BY <1>1, <1>2, <1>3 DEF Inv, NoneLeft, OneMinting, Minting
  <1>7. Families' /\ OneTokenPerFamily'
    BY <1>1 DEF Inv, Families, OneTokenPerFamily
  <1>8. closed' = closed \cup {f \in {rows[t].family : t \in S} : ~Rotating(f)}
    BY DEF Revoke
  <1>9. ClosedQuiet'
    <2>1. \A f : Rotating(f)' => Rotating(f)
      BY <1>2, <1>3 DEF Rotating, FamilyRotated
    <2>2. closed' \subseteq Issued'
      BY <1>1, <1>8 DEF Inv, Families, ClosedQuiet
    <2>3. \A f \in closed' : ~Rotating(f)
      BY <1>8 DEF Inv, ClosedQuiet
    <2> QED
      BY <2>1, <2>2, <2>3 DEF ClosedQuiet
  <1>10. ClosedForGood'
    <2>1. ASSUME NEW t \in Issued, rows[t].family \in closed'
          PROVE  t \in S \/ rows[t].revoked
      BY <1>8, <2>1 DEF Inv, ClosedForGood, Whole
    <2> QED
      BY <1>1, <2>1 DEF ClosedForGood
  <1>11. BarredOut'
    BY <1>2 DEF Inv, BarredOut
  <1> QED
    BY <1>5, <1>6, <1>7, <1>9, <1>10, <1>11 DEF Inv

LEMMA RevokesInv ==
    ASSUME Inv, \/ \E r \in Requests : RevokeFamily(r)
                \/ \E u \in Users : Logout(u) \/ EraseRevoke(u)
    PROVE  Inv'
  <1>1. ASSUME NEW r \in Requests, RevokeFamily(r) PROVE Inv'
    <2>1. Whole(FamilyOf(r)) /\ FamilyOf(r) \in SUBSET Issued /\ Revoke(FamilyOf(r))
      BY <1>1 DEF Whole, FamilyOf, RevokeFamily
    <2>2. /\ UNCHANGED <<clock, active, requested, erasing, held, user, token, got, raced, barred>>
          /\ pc' \in [Requests -> InFlight \cup {"idle", "reused", "done"}]
          /\ \A q \in Requests : pc'[q] = pc[q] \/ (pc[q] = "revoke" /\ pc'[q] = "reused")
      BY <1>1 DEF Inv, TypeOK, RevokeFamily, Goto, users
    <2>3. erasing' \subseteq Users
      BY <2>2 DEF Inv, TypeOK
    <2> HIDE DEF FamilyOf
    <2>4. TypeOK'
      BY <2>1, <2>2, <2>3, RevokeType DEF Inv
    <2> QED
      BY <2>1, <2>2, <2>4, RevokeStep
  <1>2. ASSUME NEW u \in Users, Revoke(TokensOf(u)), Logout(u) \/ EraseRevoke(u) PROVE Inv'
    <2>1. Whole(TokensOf(u)) /\ TokensOf(u) \in SUBSET Issued
      BY DEF Whole, TokensOf, Inv, Families
    <2>2. /\ UNCHANGED <<clock, active, requested, held, user, token, got, raced, barred>>
          /\ pc' = pc
      BY <1>2 DEF Logout, EraseRevoke, users, requests
    <2>3. erasing' \subseteq Users
      BY <1>2 DEF Inv, TypeOK, Logout, EraseRevoke, users
    <2>4. pc' \in [Requests -> InFlight \cup {"idle", "reused", "done"}]
      BY <2>2 DEF Inv, TypeOK
    <2> HIDE DEF TokensOf
    <2>5. TypeOK'
      BY <1>2, <2>1, <2>2, <2>3, <2>4, RevokeType DEF Inv
    <2> QED
      BY <1>2, <2>1, <2>2, <2>5, RevokeStep
  <1>3. ASSUME NEW u \in Users, EraseRevoke(u), UNCHANGED <<rows, closed>> PROVE Inv'
    <2>1. UNCHANGED <<active, rows, closed, requests, raced, barred, held, clock, requested>>
      BY <1>3 DEF EraseRevoke
    <2>2. TypeOK'
      BY <1>3, <2>1 DEF Inv, TypeOK, EraseRevoke, requests, Issued
    <2>3. BarredOut'
      BY <2>1 DEF Inv, BarredOut, requests
    <2> QED
      BY <2>1, <2>2, <2>3, QuietStep DEF Inv, requests, Minting
  <1> QED
    BY <1>1, <1>2, <1>3 DEF Logout, EraseRevoke

LEMMA ConsumeInv ==
    ASSUME Inv, NEW r \in Requests, Consume(r)
    PROVE  Inv'
  <1>1. TypeOK'
    BY ConsumeType DEF Inv
  <1>2. /\ Issued' = Issued /\ token[r] \in Issued
        /\ \A t \in Issued : /\ rows'[t].user = rows[t].user
                             /\ rows'[t].family = rows[t].family
                             /\ rows'[t].consumed = (t = token[r] \/ rows[t].consumed)
                             /\ rows'[t].revoked = rows[t].revoked
    BY ConsumeEffect DEF Inv
  <1>3. /\ pc[r] = "consume" /\ pc'[r] = "check"
        /\ \A q \in Requests \ {r} : pc'[q] = pc[q]
        /\ UNCHANGED <<active, user, token, raced, closed, barred>>
    BY DEF Inv, TypeOK, Consume, Goto, users, history
  <1>4. \A q \in Requests : token[q] # None =>
            token[q] \in Issued /\ FamilyRotated(q)' = FamilyRotated(q)
    BY <1>2, <1>3 DEF Inv, TypeOK, FamilyRotated
  <1>5. \A q \in Requests : pc[q] = "consume" => token[q] # None
    BY DEF Inv, TypeOK
  <1>6. \A q \in Requests : Minting(q)' => q = r \/ Minting(q)
    BY <1>3 DEF Minting
  <1>7. ReadOnce'
    <2>1. ASSUME NEW q \in Requests, pc'[q] = "consume"
          PROVE  /\ pc[q] = "consume" /\ q # r /\ FamilyRotated(q)' = FamilyRotated(q)
                 /\ FamilyRotated(q) \in raced \/ ~rows'[token[q]].consumed
      <3>1. pc[q] = "consume" /\ q # r
        BY <1>3, <2>1
      <3>2. token[q] = token[r] => FamilyRotated(q) \in raced
        BY <1>3, <3>1 DEF Inv, ReadOnce
      <3>3. token[q] \in Issued /\ FamilyRotated(q)' = FamilyRotated(q)
        BY <1>4, <1>5, <3>1
      <3> QED
        BY <1>2, <3>1, <3>2, <3>3 DEF Inv, ReadOnce
    <2> QED
      BY <1>3, <2>1 DEF Inv, ReadOnce
  <1>8. NoneLeft'
    <2>1. ASSUME NEW t \in Issued, rows[t].family = FamilyRotated(r)
          PROVE  FamilyRotated(r) \in raced \/ rows'[t].consumed
      BY <1>2, <1>3, <2>1 DEF Inv, ReadOnce, OneTokenPerFamily, FamilyRotated, TypeOK
    <2>2. ASSUME NEW q \in Requests, Minting(q), NEW t \in Issued,
                 rows[t].family = FamilyRotated(q)
          PROVE  FamilyRotated(q) \in raced \/ rows'[t].consumed
      BY <1>2, <2>2 DEF Inv, NoneLeft
    <2> QED
      BY <1>2, <1>3, <1>4, <1>5, <1>6, <2>1, <2>2 DEF NoneLeft, Minting
  <1>9. OneMinting'
    <2>1. ASSUME NEW q \in Requests, Minting(q), FamilyRotated(q) = FamilyRotated(r)
          PROVE  FamilyRotated(r) \in raced
      BY <1>2, <1>3, <2>1 DEF Inv, NoneLeft, ReadOnce, FamilyRotated
    <2> QED
      BY <1>3, <1>4, <1>5, <1>6, <2>1 DEF Inv, OneMinting, Minting
  <1>10. Families' /\ OneTokenPerFamily' /\ ClosedForGood'
    <2>1. Families'
      BY <1>2 DEF Inv, Families
    <2>2. OneTokenPerFamily'
      <3>1. \A t \in Issued : ~rows'[t].consumed => ~rows[t].consumed
        BY <1>2
      <3> QED
        BY <1>2, <1>3, <3>1 DEF Inv, OneTokenPerFamily
    <2>3. ClosedForGood'
      BY <1>2, <1>3 DEF Inv, ClosedForGood
    <2> QED
      BY <2>1, <2>2, <2>3
  <1>11. ClosedQuiet'
    <2>1. \A f : Rotating(f)' => Rotating(f)
      BY <1>3, <1>4 DEF Rotating, FamilyRotated
    <2> QED
      BY <1>2, <1>3, <2>1 DEF Inv, ClosedQuiet
  <1>12. BarredOut'
    BY <1>3 DEF Inv, BarredOut
  <1> QED
    BY <1>1, <1>7, <1>8, <1>9, <1>10, <1>11, <1>12 DEF Inv

LEMMA MintInv ==
    ASSUME Inv, NEW r \in Requests, Mint(r)
    PROVE  Inv'
  <1>1. TypeOK'
    BY MintType DEF Inv
  <1>2. PICK n \in Tokens \ Issued :
             /\ Issued' = Issued \cup {n} /\ \A t \in Issued : rows'[t] = rows[t]
             /\ rows'[n].user = user[r] /\ ~rows'[n].consumed /\ ~rows'[n].revoked
             /\ rows'[n].family = IF token[r] = None THEN n ELSE FamilyRotated(r)
    BY MintEffect DEF Inv
  <1>3. /\ pc[r] = "mint" /\ pc'[r] = "reply"
        /\ \A q \in Requests \ {r} : pc'[q] = pc[q]
        /\ UNCHANGED <<active, user, token, raced, closed, barred>>
    BY DEF Inv, TypeOK, Mint, Goto, users, history
  <1>4. \A q \in Requests : token[q] # None =>
            /\ token[q] \in Issued /\ FamilyRotated(q)' = FamilyRotated(q)
            /\ FamilyRotated(q) \in Issued /\ rows'[token[q]] = rows[token[q]]
            /\ user[q] = rows[token[q]].user
    BY <1>2, <1>3 DEF Inv, TypeOK, FamilyRotated, Families
  <1>5. \A q \in Requests : pc[q] = "consume" => token[q] # None
    BY DEF Inv, TypeOK
  <1>6. \A q \in Requests : Minting(q)' => q # r /\ Minting(q)
    BY <1>3 DEF Minting
  <1>7. \A t \in Issued : rows[t].family \in Issued
    BY DEF Inv, Families
  <1>8. token[r] # None => Minting(r)
    BY <1>3 DEF Minting
  <1>9. Families'
    <2>1. ASSUME NEW t \in Issued, rows[t].family = rows'[n].family
          PROVE  rows[t].user = user[r]
      BY <1>2, <1>4, <1>7, <2>1 DEF Inv, Families, FamilyRotated
    <2>2. rows'[n].family \in Issued'
      BY <1>2, <1>4
    <2> QED
      BY <1>2, <1>7, <2>1, <2>2 DEF Inv, Families
  <1>10. ReadOnce'
    BY <1>3, <1>4, <1>5 DEF Inv, ReadOnce
  <1>11. NoneLeft'
    <2>1. ASSUME NEW q \in Requests, Minting(q)', rows'[n].family = FamilyRotated(q)
          PROVE  FamilyRotated(q) \in raced
      <3>1. token[q] # None
        BY <1>3, <2>1 DEF Minting
      <3>2. token[r] # None /\ FamilyRotated(r) = FamilyRotated(q)
        BY <1>2, <1>4, <2>1, <3>1
      <3> QED
        BY <1>6, <1>8, <2>1, <3>2 DEF Inv, OneMinting
    <2> QED
      BY <1>2, <1>3, <1>4, <1>6, <2>1 DEF Inv, NoneLeft, Minting
  <1>12. OneMinting'
    BY <1>3, <1>4, <1>6 DEF Inv, OneMinting, Minting
  <1>13. OneTokenPerFamily'
    <2>1. ASSUME NEW t \in Issued, rows[t].family = rows'[n].family, ~rows[t].consumed
          PROVE  rows'[n].family \in raced
      <3>1. token[r] # None /\ rows[t].family = FamilyRotated(r)
        BY <1>2, <1>7, <2>1
      <3> QED
        BY <1>2, <1>8, <2>1, <3>1 DEF Inv, NoneLeft
    <2> QED
      BY <1>2, <1>3, <2>1 DEF Inv, OneTokenPerFamily
  <1>14. ClosedQuiet'
    <2>1. \A f : Rotating(f)' => Rotating(f)
      BY <1>3, <1>4 DEF Rotating
    <2> QED
      BY <1>2, <1>3, <2>1 DEF Inv, ClosedQuiet
  <1>15. ClosedForGood'
    <2>1. rows'[n].family \notin closed
      BY <1>2, <1>3 DEF Inv, ClosedQuiet, Rotating, FamilyRotated
    <2> QED
      BY <1>2, <1>3, <2>1 DEF Inv, ClosedForGood
  <1>16. BarredOut'
    BY <1>3 DEF Inv, BarredOut
  <1> QED
    BY <1>1, <1>9, <1>10, <1>11, <1>12, <1>13, <1>14, <1>15, <1>16 DEF Inv

-----------------------------------------------------------------------------
(* The theorems.                                                           *)

LEMMA StepInv == Inv /\ [Next]_vars => Inv'
  <1> SUFFICES ASSUME Inv, [Next]_vars PROVE Inv'
    OBVIOUS
  <1>1. ASSUME QuietAction PROVE TypeOK'
    BY <1>1, QuietType DEF Inv
  <1>2. ASSUME NEW r \in Requests, Handle(r) PROVE Inv'
    <2>1. CASE \E u \in Users : LoginCheck(r, u)
      BY <1>1, <2>1, LoginStep DEF QuietAction
    <2>2. CASE \/ \E t \in Tokens : RefreshRefused(r, t) \/ RefreshReused(r, t)
               \/ Reply(r) \/ Fail(r)
      BY <1>1, <2>2, AnswerStep DEF QuietAction
    <2>3. CASE \E t \in Tokens : RefreshRead(r, t)
      BY <1>1, <2>3, ReadStep DEF QuietAction
    <2>4. CASE CheckUser(r)
      BY <1>1, <2>4, CheckStep DEF QuietAction
    <2>5. CASE RevokeFamily(r)
      BY <2>5, RevokesInv
    <2>6. CASE Consume(r) \/ Mint(r)
      BY <2>6, ConsumeInv, MintInv
    <2> QED
      BY <1>2, <2>1, <2>2, <2>3, <2>4, <2>5, <2>6 DEF Handle
  <1>3. CASE \E u \in Users : Logout(u) \/ EraseRevoke(u)
    BY <1>3, RevokesInv
  <1>4. CASE (\E u \in Users : Erase(u)) \/ Restart \/ Tick
    BY <1>1, <1>4, OutsideStep DEF QuietAction
  <1>5. CASE UNCHANGED vars
    <2>1. TypeOK'
      BY <1>5 DEF Inv, TypeOK, Issued, vars, users, requests, history
    <2> QED
      BY <1>5, <2>1, OutsideStep
  <1> QED
    BY <1>2, <1>3, <1>4, <1>5 DEF Next

THEOREM Invariance == Spec => []Inv
  BY InitInv, StepInv, PTL DEF Spec

\* The types, and what a handler's locals are where its statements read them.
THEOREM TypeCorrect == Spec => []TypeOK
  <1>1. Inv => TypeOK
    BY DEF Inv
  <1> QED
    BY <1>1, Invariance, PTL

\* "rotated on every use": at most one token of a family was not consumed, unless two
\* rotations of one token were under way at once.
THEOREM OneToken == Spec => []OneTokenPerFamily
  <1>1. Inv => OneTokenPerFamily
    BY DEF Inv
  <1> QED
    BY <1>1, Invariance, PTL

\* A session revoked while none of its tokens was being rotated is over for good.
THEOREM Closed == Spec => []ClosedForGood
  <1>1. Inv => ClosedForGood
    BY DEF Inv
  <1> QED
    BY <1>1, Invariance, PTL

\* An erased user none of whose requests was about to mint gets no token.
THEOREM Erased == Spec => ErasedGetsNoToken
  <1>1. ASSUME Inv, [Next]_vars, NEW t \in DOMAIN rows' \ DOMAIN rows
        PROVE  rows'[t].user \notin barred
    <2>1. \/ \E r \in Requests : Mint(r)
          \/ Issued' = Issued
      <3>1. ASSUME NEW r \in Requests, RevokeFamily(r) PROVE Issued' = Issued
        BY <3>1 DEF RevokeFamily, Revoke, Issued
      <3>2. ASSUME NEW r \in Requests, Consume(r) PROVE Issued' = Issued
        BY <3>2 DEF Consume, Issued
      <3>3. ASSUME NEW u \in Users, Logout(u) \/ EraseRevoke(u) PROVE Issued' = Issued
        BY <3>3 DEF Logout, EraseRevoke, Revoke, Issued
      <3>4. CASE QuietAction
        BY <3>4 DEF QuietAction, LoginCheck, RefreshRefused, RefreshReused, RefreshRead, Read,
           CheckUser, Reply, Fail, Erase, Restart, Tick, Issued
      <3>5. CASE UNCHANGED vars
        BY <3>5 DEF vars, Issued
      <3> QED
        BY <1>1, <3>1, <3>2, <3>3, <3>4, <3>5 DEF Next, Handle, QuietAction
    <2>2. PICK r \in Requests : Mint(r)
      BY <1>1, <2>1 DEF Issued
    <2>3. PICK n \in Tokens \ Issued : Issued' = Issued \cup {n} /\ rows'[n].user = user[r]
      BY <1>1, <2>2, MintEffect DEF Inv
    <2>4. t = n
      BY <1>1, <2>3 DEF Issued
    <2> QED
      BY <1>1, <2>2, <2>3, <2>4 DEF Inv, BarredOut, Mint
  <1>2. Inv /\ [Next]_vars
        => [\A t \in DOMAIN rows' \ DOMAIN rows : rows'[t].user \notin barred]_vars
    BY <1>1
  <1> QED
    BY <1>2, Invariance, PTL DEF Spec, ErasedGetsNoToken
=============================================================================
