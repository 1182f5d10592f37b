-------------------------- MODULE AttestazioneProofs --------------------------
(***************************************************************************)
(* The safety of the attestation register, for every set of requests,      *)
(* keys, contents and numbers and every number of faults.                  *)
(***************************************************************************)
EXTENDS Attestazione, TLAPS

(***************************************************************************)
(* The five shapes a step gives the table, named once: every action of     *)
(* Next is one of them, and the facts below are proved shape by shape.     *)
(***************************************************************************)
RowsKept == rows' = rows

RowRevoked == \E n \in Numeri \cup {None}, m \in Motives \ {"valid", "force"},
                 who \in Requests \cup {None} : rows' = Revoked(rows, n, m, who)

RowInserted(r) == /\ pc[r] = "insert" /\ Insertable(r, {})
                  /\ rows' = Inserted(rows, r)

RowReplaced(r) == /\ pc[r] = "force" /\ Insertable(r, {existing[r]})
                  /\ rows' = Inserted(Revoked(rows, existing[r], "force", r), r)

RowsForgotten(r) == rows' = Forgotten(r)

TableStep == \/ RowsKept \/ RowRevoked
             \/ \E r \in Requests : RowInserted(r) \/ RowReplaced(r) \/ RowsForgotten(r)

\* A handler that is about to write has drawn a number.
NumberDrawn ==
    \A r \in Requests :
        pc[r] \in {"insert", "recover", "force", "send"} => numero[r] \in Numeri

\* What the guarded UPDATE does to each row.
LEMMA RevokedRow ==
    ASSUME Types, NEW n, NEW m \in Motives, NEW who \in Requests \cup {None},
           NEW i \in DOMAIN rows
    PROVE  LET row == Revoked(rows, n, m, who)[i] IN
           /\ row \in Row
           /\ row.key = rows[i].key
           /\ row.content = rows[i].content
           /\ row.emessaDa = rows[i].emessaDa
           /\ row.motivo = IF i = n /\ rows[i].motivo = "valid" THEN m ELSE rows[i].motivo
           /\ row.revocataDa = IF i = n /\ rows[i].motivo = "valid" THEN who ELSE rows[i].revocataDa
<1>1. rows[i] \in Row
  BY DEF Types
<1> DEFINE half == [rows[i] EXCEPT !.motivo = m]
           full == [half EXCEPT !.revocataDa = who]
<1>2. /\ half \in Row
      /\ half.key = rows[i].key /\ half.content = rows[i].content
      /\ half.emessaDa = rows[i].emessaDa /\ half.revocataDa = rows[i].revocataDa
      /\ half.motivo = m
  BY <1>1 DEF Row
<1>3. /\ full \in Row
      /\ full.key = rows[i].key /\ full.content = rows[i].content
      /\ full.emessaDa = rows[i].emessaDa /\ full.revocataDa = who
      /\ full.motivo = m
  <2> HIDE DEF half
  <2> QED BY <1>2 DEF Row
<1>4. Revoked(rows, n, m, who)[i] = IF i = n /\ rows[i].motivo = "valid" THEN full ELSE rows[i]
  BY DEF Revoked
<1> HIDE DEF full
<1> QED BY <1>1, <1>3, <1>4

LEMMA RevokedDomain ==
    ASSUME NEW n, NEW m, NEW who
    PROVE  DOMAIN Revoked(rows, n, m, who) = DOMAIN rows
BY DEF Revoked

\* A forced re-emission leaves the rows it does not insert as its UPDATE made them.
LEMMA ReplacedRow ==
    ASSUME Types, NEW r \in Requests, RowReplaced(r),
           NEW i \in DOMAIN rows', i # numero[r]
    PROVE  /\ i \in DOMAIN rows
           /\ rows'[i] = Revoked(rows, existing[r], "force", r)[i]
           /\ rows'[i].key = rows[i].key
           /\ rows'[i].motivo =
                 IF i = existing[r] /\ rows[i].motivo = "valid" THEN "force" ELSE rows[i].motivo
<1> DEFINE table == Revoked(rows, existing[r], "force", r)
<1>1. DOMAIN table = DOMAIN rows
  BY RevokedDomain
<1>2. i \in DOMAIN rows /\ rows'[i] = table[i]
  <2> HIDE DEF table
  <2>1. rows' = Inserted(table, r)
    BY DEF RowReplaced, table
  <2> QED BY <1>1, <2>1 DEF Inserted
<1>3. /\ table[i].key = rows[i].key
      /\ table[i].motivo =
            IF i = existing[r] /\ rows[i].motivo = "valid" THEN "force" ELSE rows[i].motivo
  <2>1. "force" \in Motives /\ r \in Requests \cup {None}
    BY DEF Motives
  <2> QED BY Types, <1>2, <2>1, RevokedRow
<1> QED BY <1>2, <1>3

\* What the deletion of a user does to each row.
LEMMA ForgottenRow ==
    ASSUME Types, NEW r, RowsForgotten(r)
    PROVE  /\ DOMAIN rows' = DOMAIN rows
           /\ \A i \in DOMAIN rows :
                 /\ rows'[i] \in Row
                 /\ rows'[i].key = rows[i].key
                 /\ rows'[i].content = rows[i].content
                 /\ rows'[i].motivo = rows[i].motivo
                 /\ rows'[i].emessaDa = IF rows[i].emessaDa = r THEN None ELSE rows[i].emessaDa
                 /\ rows'[i].revocataDa = IF rows[i].revocataDa = r THEN None ELSE rows[i].revocataDa
<1> DEFINE Known(user) == IF user = r THEN None ELSE user
           Half(row) == [row EXCEPT !.emessaDa = Known(@)]
           Full(row) == [row EXCEPT !.revocataDa = Known(@)]
<1>1. DOMAIN rows' = DOMAIN rows
  BY DEF RowsForgotten, Forgotten
<1>2. ASSUME NEW row \in Row
      PROVE  /\ Half(row) \in Row
             /\ Half(row).key = row.key /\ Half(row).content = row.content
             /\ Half(row).motivo = row.motivo /\ Half(row).revocataDa = row.revocataDa
             /\ Half(row).emessaDa = Known(row.emessaDa)
  BY DEF Row
<1>3. ASSUME NEW row \in Row
      PROVE  /\ Full(row) \in Row
             /\ Full(row).key = row.key /\ Full(row).content = row.content
             /\ Full(row).motivo = row.motivo /\ Full(row).emessaDa = row.emessaDa
             /\ Full(row).revocataDa = Known(row.revocataDa)
  BY DEF Row
<1>4. ASSUME NEW i \in DOMAIN rows
      PROVE  rows[i] \in Row /\ rows'[i] = Full(Half(rows[i]))
  BY DEF Types, RowsForgotten, Forgotten
<1> HIDE DEF Half, Full
<1> QED BY <1>1, <1>2, <1>3, <1>4

LEMMA StepShape == ASSUME Types, [Next]_vars PROVE TableStep
<1> USE DEF Types
<1>1. ASSUME NEW r \in Requests, Handle(r) \/ Crash(r) \/ ForgetUser(r)
      PROVE  TableStep
  <2>1. CASE AutoRevoke(r)
    BY <2>1 DEF AutoRevoke, TableStep, RowRevoked, Motives
  <2>2. CASE Insert(r)
    BY <2>2 DEF Insert, TableStep, RowInserted
  <2>3. CASE ForceCommit(r)
    BY <2>3 DEF ForceCommit, TableStep, RowReplaced
  <2>4. CASE ForgetUser(r)
    BY <2>4 DEF ForgetUser, TableStep, RowsForgotten
  <2>5. CASE rows' = rows
    BY <2>5 DEF TableStep, RowsKept
  <2> QED
    BY <1>1, <2>1, <2>2, <2>3, <2>4, <2>5
       DEF Handle, Crash, Refuse, LookupMiss, LookupForce, LookupHit, LookupConflict,
           LookupLegacy, LookupFail, AutoRevokeFail, Render, RenderFail,
           InsertDuplicate, WriteFail, RecoverHit, RecoverConflict, ForceRollback, Send
<1>2. ASSUME NEW n \in Numeri, Revoke(n)
      PROVE  TableStep
  BY <1>2 DEF Revoke, TableStep, RowRevoked, Motives
<1>3. CASE UNCHANGED vars
  BY <1>3 DEF vars, TableStep, RowsKept
<1> QED BY <1>1, <1>2, <1>3 DEF Next

-----------------------------------------------------------------------------
(* Types.                                                                  *)

LEMMA InitTypes == Init => Types
<1> SUFFICES ASSUME Init PROVE Types
  OBVIOUS
<1>1. \E S \in SUBSET Numeri : rows \in [S -> Row]
  <2>1. PICK S \in SUBSET Numeri : \E owner \in [S -> Keys] :
               rows = [n \in S |-> LegacyRow(owner[n])]
    BY DEF Init
  <2>2. rows \in [S -> Row]
    BY <2>1 DEF LegacyRow, Row, Motives
  <2> QED BY <2>2
<1> QED BY <1>1 DEF Init, Types, InFlight, Reply, Nothing, Served, Ask

LEMMA TableTypes ==
    ASSUME Types, NumberDrawn, TableStep
    PROVE  \E S \in SUBSET Numeri : rows' \in [S -> Row]
<1>1. PICK S \in SUBSET Numeri : rows \in [S -> Row]
  BY DEF Types
<1>2. CASE RowsKept
  BY <1>1, <1>2 DEF RowsKept
<1>3. CASE RowRevoked
  <2>1. PICK n \in Numeri \cup {None}, m \in Motives, who \in Requests \cup {None} :
               rows' = Revoked(rows, n, m, who)
    BY <1>3 DEF RowRevoked
  <2>2. \A i \in S : [rows[i] EXCEPT !.motivo = m, !.revocataDa = who] \in Row
    BY <1>1, <2>1 DEF Row
  <2>3. rows' \in [S -> Row]
    BY <1>1, <2>1, <2>2 DEF Revoked
  <2> QED BY <2>3
<1>4. ASSUME NEW r \in Requests, RowInserted(r) \/ RowReplaced(r)
      PROVE  \E T \in SUBSET Numeri : rows' \in [T -> Row]
  <2>1. numero[r] \in Numeri /\ ask[r] \in Ask
    BY <1>4 DEF NumberDrawn, RowInserted, RowReplaced, Types
  <2>2. ASSUME NEW t \in [S -> Row]
        PROVE  Inserted(t, r) \in [S \cup {numero[r]} -> Row]
    BY <2>1 DEF Inserted, Row, Motives, Ask
  <2>3. Revoked(rows, existing[r], "force", r) \in [S -> Row]
    <3>1. \A i \in S : [rows[i] EXCEPT !.motivo = "force", !.revocataDa = r] \in Row
      BY <1>1 DEF Row, Motives
    <3> QED BY <1>1, <3>1 DEF Revoked
  <2>4. rows' \in [S \cup {numero[r]} -> Row]
    BY <1>1, <1>4, <2>2, <2>3 DEF RowInserted, RowReplaced
  <2> QED BY <2>1, <2>4
<1>5. ASSUME NEW r \in Requests, RowsForgotten(r)
      PROVE  \E T \in SUBSET Numeri : rows' \in [T -> Row]
  <2>1. rows' \in [S -> Row]
    <3>1. rows' = [i \in DOMAIN rows' |-> rows'[i]]
      BY <1>5 DEF RowsForgotten, Forgotten
    <3> QED BY <1>1, <1>5, <3>1, ForgottenRow
  <2> QED BY <2>1
<1> QED BY <1>2, <1>3, <1>4, <1>5 DEF TableStep

LEMMA AnswerTypes ==
    ASSUME Types, NEW r \in Requests, NEW n \in Numeri \cup {None},
           NEW kind \in Served \cup {"conflict", "refused", "error", "lost"},
           Answer(r, kind, n)
    PROVE  /\ pc' \in [Requests -> InFlight \cup {"done"}]
           /\ reply' \in [Requests -> Reply]
<1>1. [kind |-> kind, numero |-> n] \in Reply
  BY DEF Reply
<1> QED BY <1>1 DEF Types, Answer, Goto

LEMMA NextTypes == ASSUME Types, NumberDrawn, [Next]_vars PROVE Types'
<1>1. \E S \in SUBSET Numeri : rows' \in [S -> Row]
  BY StepShape, TableTypes
<1>2. ASSUME NEW r \in Requests, Handle(r) \/ Crash(r) \/ ForgetUser(r)
      PROVE  Types'
  <2> USE DEF Types, Goto, SendOwn, Fault, InFlight
  <2>1. CASE Refuse(r)
    BY <1>1, <2>1, AnswerTypes DEF Refuse
  <2>2. CASE LookupMiss(r) \/ LookupFail(r)
    BY <1>1, <2>2 DEF LookupMiss, LookupFail
  <2>3. CASE LookupForce(r) \/ LookupLegacy(r)
    BY <1>1, <2>3 DEF LookupForce, LookupLegacy, Active
  <2>4. CASE LookupHit(r) \/ LookupConflict(r)
    <3>1. PICK n \in Numeri, kind \in Served \cup {"conflict"} : Answer(r, kind, n)
      BY <2>4 DEF LookupHit, LookupConflict, Active, Served
    <3> QED BY <1>1, <2>4, <3>1, AnswerTypes DEF LookupHit, LookupConflict
  <2>5. CASE AutoRevoke(r) \/ AutoRevokeFail(r)
    BY <1>1, <2>5 DEF AutoRevoke, AutoRevokeFail
  <2>6. CASE Render(r)
    BY <1>1, <2>6 DEF Render
  <2>7. CASE RenderFail(r) \/ Crash(r)
    <3>1. PICK kind \in {"error", "lost"} : Answer(r, kind, None)
      BY <2>7 DEF RenderFail, Crash
    <3>2. UNCHANGED <<existing, numero, ask>> /\ faults' \in [Requests -> Nat]
      BY <2>7 DEF RenderFail, Crash
    <3> QED BY <1>1, <3>1, <3>2, AnswerTypes
  <2>8. CASE Insert(r) \/ InsertDuplicate(r) \/ WriteFail(r) \/ ForceCommit(r) \/ ForceRollback(r)
    BY <1>1, <2>8 DEF Insert, InsertDuplicate, WriteFail, ForceCommit, ForceRollback
  <2>9. CASE RecoverHit(r) \/ RecoverConflict(r)
    <3>1. PICK n \in Numeri \cup {None}, kind \in Served \cup {"conflict"} : Answer(r, kind, n)
      BY <2>9 DEF RecoverHit, RecoverConflict, Active, Served
    <3> QED BY <1>1, <2>9, <3>1, AnswerTypes DEF RecoverHit, RecoverConflict
  <2>10. CASE Send(r)
    BY <1>1, <2>10, AnswerTypes DEF Send, Served
  <2>11. CASE ForgetUser(r)
    BY <1>1, <2>11 DEF ForgetUser
  <2> QED
    BY <1>2, <2>1, <2>2, <2>3, <2>4, <2>5, <2>6, <2>7, <2>8, <2>9, <2>10, <2>11 DEF Handle
<1>3. ASSUME NEW n \in Numeri, Revoke(n)
      PROVE  Types'
  BY <1>1, <1>3 DEF Revoke, Types
<1>4. CASE UNCHANGED vars
  BY <1>1, <1>4 DEF vars, Types
<1> QED BY <1>2, <1>3, <1>4 DEF Next

LEMMA NextNumberDrawn ==
    ASSUME Types, NumberDrawn, [Next]_vars
    PROVE  NumberDrawn'
<1> USE DEF Types, NumberDrawn
<1>1. ASSUME NEW r \in Requests, Handle(r) \/ Crash(r) \/ ForgetUser(r)
      PROVE  NumberDrawn'
  BY <1>1 DEF Handle, Crash, ForgetUser, Goto, Answer, SendOwn, Refuse, LookupMiss, LookupForce,
       LookupHit, LookupConflict, LookupLegacy, LookupFail, AutoRevoke, AutoRevokeFail,
       Render, RenderFail, Insert, InsertDuplicate, WriteFail, RecoverHit,
       RecoverConflict, ForceCommit, ForceRollback, Send
<1>2. ASSUME NEW n \in Numeri, Revoke(n)
      PROVE  NumberDrawn'
  BY <1>2 DEF Revoke
<1>3. CASE UNCHANGED vars
  BY <1>3 DEF vars
<1> QED BY <1>1, <1>2, <1>3 DEF Next

-----------------------------------------------------------------------------
(* The table only grows, and a revocation is never overwritten.            *)

\* The row n of the table survives the step, as what it was but for a user's name.
Survives(n) ==
    /\ n \in DOMAIN rows'
    /\ rows'[n].key = rows[n].key
    /\ rows'[n].content = rows[n].content
    /\ rows'[n].emessaDa \in {rows[n].emessaDa, None}
    /\ rows[n].motivo # "valid" =>
          /\ rows'[n].motivo = rows[n].motivo
          /\ rows'[n].revocataDa \in {rows[n].revocataDa, None}

LEMMA RowsSurvive ==
    ASSUME Types, TableStep, NEW n \in DOMAIN rows
    PROVE  Survives(n)
<1>1. rows[n] \in Row
  BY DEF Types
<1>2. CASE RowsKept
  BY <1>2 DEF RowsKept, Survives
<1>3. CASE RowRevoked
  <2>1. PICK i \in Numeri \cup {None}, m \in Motives, who \in Requests \cup {None} :
               rows' = Revoked(rows, i, m, who)
    BY <1>3 DEF RowRevoked
  <2>2. rows[n].motivo # "valid" => rows'[n] = rows[n]
    BY <2>1 DEF Revoked
  <2>3. /\ n \in DOMAIN rows'
        /\ rows'[n].key = rows[n].key
        /\ rows'[n].content = rows[n].content
        /\ rows'[n].emessaDa = rows[n].emessaDa
    BY <2>1, RevokedRow, RevokedDomain
  <2> QED BY <2>2, <2>3 DEF Survives
<1>4. ASSUME NEW r \in Requests, RowInserted(r)
      PROVE  Survives(n)
  BY <1>4 DEF RowInserted, Insertable, Inserted, Survives
<1>5. ASSUME NEW r \in Requests, RowReplaced(r)
      PROVE  Survives(n)
  BY <1>1, <1>5 DEF RowReplaced, Insertable, Inserted, Revoked, Row, Survives
<1>6. ASSUME NEW r \in Requests, RowsForgotten(r)
      PROVE  Survives(n)
  BY <1>6, ForgottenRow DEF Survives
<1> QED BY <1>2, <1>3, <1>4, <1>5, <1>6 DEF TableStep

-----------------------------------------------------------------------------
(* The inductive invariant.                                                *)

RegisteredFor(r, n) ==
    /\ n \in DOMAIN rows
    /\ rows[n].key = ask[r].key
    /\ rows[n].content = ask[r].content

\* Only a forced re-emission is ever about to run the transaction.
ForcePath == \A r \in Requests : pc[r] = "force" => ask[r].force

\* The row a handler has read is still in the register, and is about its key.
ExistingKnown ==
    \A r \in Requests :
        existing[r] # None => /\ existing[r] \in DOMAIN rows
                              /\ rows[existing[r]].key = ask[r].key

\* The statements that revoke have a prior row to revoke.
ForceHasPrior ==
    \A r \in Requests : pc[r] \in {"autorevoke", "force"} => existing[r] # None

\* A PDF that is about to leave, of a request with no fault and no force, is
\* already in the register.
SendsRegistered ==
    \A r \in Requests :
        pc[r] = "send" /\ ~ask[r].force /\ faults[r] = 0 => RegisteredFor(r, numero[r])

Inv == /\ Types /\ NumberDrawn /\ ForcePath /\ ForceHasPrior /\ ExistingKnown
       /\ AtMostOneActive
       /\ SendsRegistered /\ ServedIsRegistered
       /\ ForceHasReplacement

LEMMA InitInv == Init => Inv
<1> SUFFICES ASSUME Init PROVE Inv
  OBVIOUS
<1>1. Types
  BY InitTypes
<1>2. PICK S \in SUBSET Numeri : \E owner \in [S -> Keys] :
             /\ \A i, j \in S : owner[i] = owner[j] => i = j
             /\ rows = [n \in S |-> LegacyRow(owner[n])]
  BY DEF Init
<1>3. PICK owner \in [S -> Keys] :
             /\ \A i, j \in S : owner[i] = owner[j] => i = j
             /\ rows = [n \in S |-> LegacyRow(owner[n])]
  BY <1>2
<1>4. NumberDrawn /\ ForcePath /\ ForceHasPrior /\ ExistingKnown /\ SendsRegistered /\ ServedIsRegistered
  BY DEF Init, NumberDrawn, ForcePath, ForceHasPrior, ExistingKnown, SendsRegistered,
         ServedIsRegistered, Nothing
<1>5. AtMostOneActive
  BY <1>3 DEF AtMostOneActive, Active, LegacyRow
<1>6. ForceHasReplacement
  BY <1>3 DEF ForceHasReplacement, LegacyRow
<1> QED BY <1>1, <1>4, <1>5, <1>6 DEF Inv

\* The index and the guarded UPDATE: no step makes a second row active.
LEMMA NextOneActive ==
    ASSUME Types, AtMostOneActive, TableStep
    PROVE  AtMostOneActive'
<1> SUFFICES ASSUME NEW k \in Keys, NEW m, NEW n, m \in Active(k)', n \in Active(k)'
             PROVE  m = n
  BY DEF AtMostOneActive
<1> USE DEF Active
<1>1. CASE RowsKept
  BY <1>1 DEF RowsKept, AtMostOneActive
<1>2. CASE RowRevoked
  <2>1. m \in Active(k) /\ n \in Active(k)
    BY <1>2, RevokedRow, RevokedDomain DEF RowRevoked
  <2> QED BY <2>1 DEF AtMostOneActive
<1>3. ASSUME NEW r \in Requests, RowInserted(r)
      PROVE  m = n
  BY <1>3 DEF RowInserted, Insertable, Inserted, AtMostOneActive
<1>4. ASSUME NEW r \in Requests, RowReplaced(r)
      PROVE  m = n
  <2>1. ASSUME NEW i \in Active(k)', i # numero[r]
        PROVE  i \in Active(k) \ {existing[r]}
    <3>1. /\ i \in DOMAIN rows /\ rows'[i].key = rows[i].key
          /\ rows'[i].motivo =
                IF i = existing[r] /\ rows[i].motivo = "valid" THEN "force" ELSE rows[i].motivo
      BY <1>4, <2>1, ReplacedRow
    <3>2. rows'[i].key = k /\ rows'[i].motivo = "valid"
      BY <2>1
    <3> QED BY <3>1, <3>2
  <2>2. numero[r] \in Active(k)' => k = ask[r].key
    BY <1>4 DEF RowReplaced, Inserted
  <2> QED BY <1>4, <2>1, <2>2 DEF RowReplaced, Insertable, AtMostOneActive
<1>5. ASSUME NEW r \in Requests, RowsForgotten(r)
      PROVE  m = n
  <2>1. m \in Active(k) /\ n \in Active(k)
    BY <1>5, ForgottenRow
  <2> QED BY <2>1 DEF AtMostOneActive
<1> QED BY <1>1, <1>2, <1>3, <1>4, <1>5 DEF TableStep

LEMMA NextForcePath ==
    ASSUME Types, ForcePath, ForceHasPrior, [Next]_vars
    PROVE  ForcePath' /\ ForceHasPrior'
<1> USE DEF Types, ForcePath, ForceHasPrior
<1>1. ASSUME NEW r \in Requests, Handle(r) \/ Crash(r) \/ ForgetUser(r)
      PROVE  ForcePath' /\ ForceHasPrior'
  <2>1. CASE LookupLegacy(r)
    <3>1. PICK n \in Active(ask[r].key) : existing' = [existing EXCEPT ![r] = n]
      BY <2>1 DEF LookupLegacy
    <3>2. n # None
      BY NoneAssumption DEF Active
    <3> QED BY <2>1, <3>1, <3>2 DEF LookupLegacy, Goto
  <2>2. CASE ~LookupLegacy(r)
    BY <1>1, <2>2 DEF Handle, Crash, ForgetUser, Goto, Answer, SendOwn, Refuse, LookupMiss, LookupForce,
       LookupHit, LookupConflict, LookupFail, AutoRevoke, AutoRevokeFail,
       Render, RenderFail, Insert, InsertDuplicate, WriteFail, RecoverHit,
       RecoverConflict, ForceCommit, ForceRollback, Send
  <2> QED BY <2>1, <2>2
<1>2. ASSUME NEW n \in Numeri, Revoke(n)
      PROVE  ForcePath' /\ ForceHasPrior'
  BY <1>2 DEF Revoke
<1>3. CASE UNCHANGED vars
  BY <1>3 DEF vars
<1> QED BY <1>1, <1>2, <1>3 DEF Next

LEMMA AskConstant == ASSUME [Next]_vars PROVE ask' = ask
<1>1. ASSUME NEW r \in Requests, Handle(r) \/ Crash(r) \/ ForgetUser(r)
      PROVE  ask' = ask
  BY <1>1 DEF Handle, Crash, ForgetUser, Goto, Answer, SendOwn, Fault, Refuse, LookupMiss, LookupForce,
         LookupHit, LookupConflict, LookupLegacy, LookupFail, AutoRevoke, AutoRevokeFail,
         Render, RenderFail, Insert, InsertDuplicate, WriteFail, RecoverHit,
         RecoverConflict, ForceCommit, ForceRollback, Send
<1>2. ASSUME NEW n \in Numeri, Revoke(n)
      PROVE  ask' = ask
  BY <1>2 DEF Revoke
<1> QED BY <1>1, <1>2 DEF Next, vars

LEMMA StaysRegistered ==
    ASSUME Types, [Next]_vars, NEW r \in Requests, NEW n, RegisteredFor(r, n)
    PROVE  /\ n \in DOMAIN rows'
           /\ rows'[n].key = ask'[r].key
           /\ rows'[n].content = ask'[r].content
BY AskConstant, StepShape, RowsSurvive DEF RegisteredFor, Survives

LEMMA NextExistingKnown ==
    ASSUME Types, ExistingKnown, [Next]_vars
    PROVE  ExistingKnown'
<1> SUFFICES ASSUME NEW q \in Requests, existing'[q] # None
             PROVE  /\ existing'[q] \in DOMAIN rows'
                    /\ rows'[existing'[q]].key = ask'[q].key
  BY DEF ExistingKnown
<1>1. existing'[q] # existing[q] => existing'[q] \in Active(ask[q].key)
  <2> USE DEF Types
  <2>1. ASSUME NEW r \in Requests, Handle(r) \/ Crash(r) \/ ForgetUser(r)
        PROVE  existing'[q] # existing[q] => existing'[q] \in Active(ask[q].key)
    BY <2>1 DEF Handle, Crash, ForgetUser, Goto, Answer, SendOwn, Fault, Refuse, LookupMiss, LookupForce,
           LookupHit, LookupConflict, LookupLegacy, LookupFail, AutoRevoke, AutoRevokeFail,
           Render, RenderFail, Insert, InsertDuplicate, WriteFail, RecoverHit,
           RecoverConflict, ForceCommit, ForceRollback, Send
  <2>2. ASSUME NEW n \in Numeri, Revoke(n)
        PROVE  existing'[q] = existing[q]
    BY <2>2 DEF Revoke
  <2> QED BY <2>1, <2>2 DEF Next, vars
<1>2. /\ existing'[q] \in DOMAIN rows
      /\ rows[existing'[q]].key = ask[q].key
  BY <1>1 DEF Active, ExistingKnown
<1> QED BY <1>2, AskConstant, StepShape, RowsSurvive DEF Survives

\* How a PDF gets to be sent, and how a request gets its answer.
LEMMA WhoSends ==
    ASSUME Types, ForcePath, [Next]_vars, NEW q \in Requests,
           pc'[q] = "send", ~ask[q].force, faults'[q] = 0
    PROVE  \/ pc[q] = "send" /\ numero'[q] = numero[q] /\ faults[q] = 0
           \/ Insert(q)
<1> USE DEF Types, ForcePath
<1>1. ASSUME NEW r \in Requests, Handle(r) \/ Crash(r) \/ ForgetUser(r)
      PROVE  \/ pc[q] = "send" /\ numero'[q] = numero[q] /\ faults[q] = 0
             \/ Insert(q)
  BY <1>1 DEF Handle, Crash, ForgetUser, Goto, Answer, SendOwn, Fault, Refuse, LookupMiss, LookupForce,
         LookupHit, LookupConflict, LookupLegacy, LookupFail, AutoRevoke, AutoRevokeFail,
         Render, RenderFail, Insert, InsertDuplicate, WriteFail, RecoverHit,
         RecoverConflict, ForceCommit, ForceRollback, Send
<1>2. ASSUME NEW n \in Numeri, Revoke(n)
      PROVE  pc[q] = "send" /\ numero'[q] = numero[q] /\ faults[q] = 0
  BY <1>2 DEF Revoke
<1>3. CASE UNCHANGED vars
  BY <1>3 DEF vars
<1> QED BY <1>1, <1>2, <1>3 DEF Next

LEMMA WhoIsServed ==
    ASSUME Types, [Next]_vars, NEW q \in Requests, reply'[q].kind \in Served
    PROVE  \/ reply'[q] = reply[q] /\ (faults'[q] = 0 => faults[q] = 0)
           \/ LookupHit(q) \/ RecoverHit(q) \/ Send(q)
<1> USE DEF Types, Served
<1>1. ASSUME NEW r \in Requests, Handle(r) \/ Crash(r) \/ ForgetUser(r)
      PROVE  \/ reply'[q] = reply[q] /\ (faults'[q] = 0 => faults[q] = 0)
             \/ LookupHit(q) \/ RecoverHit(q) \/ Send(q)
  BY <1>1 DEF Handle, Crash, ForgetUser, Goto, Answer, SendOwn, Fault, Refuse, LookupMiss, LookupForce,
         LookupHit, LookupConflict, LookupLegacy, LookupFail, AutoRevoke, AutoRevokeFail,
         Render, RenderFail, Insert, InsertDuplicate, WriteFail, RecoverHit,
         RecoverConflict, ForceCommit, ForceRollback, Send
<1>2. ASSUME NEW n \in Numeri, Revoke(n)
      PROVE  reply'[q] = reply[q] /\ (faults'[q] = 0 => faults[q] = 0)
  BY <1>2 DEF Revoke
<1>3. CASE UNCHANGED vars
  BY <1>3 DEF vars
<1> QED BY <1>1, <1>2, <1>3 DEF Next

LEMMA NextSendsRegistered ==
    ASSUME Inv, [Next]_vars
    PROVE  SendsRegistered'
<1> SUFFICES ASSUME NEW q \in Requests,
                    pc'[q] = "send", ~ask'[q].force, faults'[q] = 0
             PROVE  RegisteredFor(q, numero[q])'
  BY DEF SendsRegistered
<1>1. CASE pc[q] = "send" /\ numero'[q] = numero[q] /\ faults[q] = 0
  BY <1>1, AskConstant, StaysRegistered DEF Inv, SendsRegistered, RegisteredFor
<1>2. CASE Insert(q)
  BY <1>2, AskConstant DEF Insert, Inserted, RegisteredFor
<1> QED BY <1>1, <1>2, AskConstant, WhoSends DEF Inv

LEMMA NextServedIsRegistered ==
    ASSUME Inv, [Next]_vars
    PROVE  ServedIsRegistered'
<1> USE DEF Inv
<1> SUFFICES ASSUME NEW q \in Requests,
                    \/ reply'[q].kind \in {"cached", "recovered"}
                    \/ reply'[q].kind = "fresh" /\ ~ask'[q].force /\ faults'[q] = 0
             PROVE  RegisteredFor(q, reply[q].numero)'
  BY DEF ServedIsRegistered, RegisteredFor
<1>1. CASE reply'[q] = reply[q] /\ (faults'[q] = 0 => faults[q] = 0)
  <2>1. RegisteredFor(q, reply[q].numero)
    BY <1>1, AskConstant DEF ServedIsRegistered, RegisteredFor
  <2> QED BY <1>1, <2>1, StaysRegistered DEF RegisteredFor
<1>2. CASE LookupHit(q) \/ RecoverHit(q)
  <2>1. PICK n \in Active(ask[q].key) : rows[n].content = ask[q].content /\ reply'[q].numero = n
    BY <1>2 DEF LookupHit, RecoverHit, Answer, Types
  <2>2. RegisteredFor(q, n)
    BY <2>1 DEF RegisteredFor, Active
  <2> QED BY <2>1, <2>2, StaysRegistered DEF RegisteredFor
<1>3. CASE Send(q)
  <2>1. reply'[q] = [kind |-> "fresh", numero |-> numero[q]] /\ pc[q] = "send" /\ faults' = faults
    BY <1>3 DEF Send, Answer, Types
  <2>2. RegisteredFor(q, numero[q])
    BY <2>1, AskConstant DEF SendsRegistered
  <2> QED BY <2>1, <2>2, StaysRegistered DEF RegisteredFor
<1> QED BY <1>1, <1>2, <1>3, WhoIsServed DEF Served

\* The row a forced re-emission revokes and the row it inserts appear together.
LEMMA NextForceHasReplacement ==
    ASSUME Inv, [Next]_vars
    PROVE  ForceHasReplacement'
<1> USE DEF Inv
<1> SUFFICES ASSUME NEW n, n \in DOMAIN rows', rows'[n].motivo = "force"
             PROVE  \E m \in DOMAIN rows' \ {n} :
                       /\ rows'[m].emessaDa = rows'[n].revocataDa
                       /\ rows'[m].key = rows'[n].key
  BY DEF ForceHasReplacement
<1>1. CASE n \in DOMAIN rows /\ rows[n].motivo = "force"
  <2>1. PICK m \in DOMAIN rows \ {n} :
               rows[m].emessaDa = rows[n].revocataDa /\ rows[m].key = rows[n].key
    BY <1>1 DEF ForceHasReplacement
  <2>2. Survives(m) /\ Survives(n)
    BY <1>1, <2>1, StepShape, RowsSurvive
  <2>3. rows'[m].emessaDa = rows'[n].revocataDa
    <3>1. ASSUME NEW r \in Requests, RowsForgotten(r)
          PROVE  rows'[m].emessaDa = rows'[n].revocataDa
      BY <1>1, <2>1, <3>1, ForgottenRow
    <3>2. CASE RowsKept
      BY <2>1, <3>2 DEF RowsKept
    <3>3. CASE RowRevoked
      BY <1>1, <2>1, <3>3, RevokedRow DEF RowRevoked
    <3>4. ASSUME NEW r \in Requests, RowInserted(r)
          PROVE  rows'[m].emessaDa = rows'[n].revocataDa
      BY <1>1, <2>1, <3>4 DEF RowInserted, Insertable, Inserted
    <3>5. ASSUME NEW r \in Requests, RowReplaced(r)
          PROVE  rows'[m].emessaDa = rows'[n].revocataDa
      <4>1. m # numero[r] /\ n # numero[r]
        BY <1>1, <2>1, <3>5 DEF RowReplaced, Insertable
      <4>2. /\ rows'[m] = Revoked(rows, existing[r], "force", r)[m]
            /\ rows'[n] = Revoked(rows, existing[r], "force", r)[n]
        BY <1>1, <2>1, <2>2, <3>5, <4>1, ReplacedRow DEF Survives
      <4>3. "force" \in Motives /\ r \in Requests \cup {None}
        BY DEF Motives
      <4> QED BY <1>1, <2>1, <4>2, <4>3, RevokedRow
    <3> QED BY <3>1, <3>2, <3>3, <3>4, <3>5, StepShape DEF TableStep
  <2> QED BY <1>1, <2>1, <2>2, <2>3 DEF Survives
<1>2. CASE ~(n \in DOMAIN rows /\ rows[n].motivo = "force")
  <2>1. PICK r \in Requests : RowReplaced(r) /\ n = existing[r]
    <3>1. ~RowsKept
      BY <1>2 DEF RowsKept
    <3>2. ~RowRevoked
      BY <1>2, RevokedRow, RevokedDomain DEF RowRevoked
    <3>3. ASSUME NEW r \in Requests, RowInserted(r) PROVE FALSE
      BY <1>2, <3>3 DEF RowInserted, Inserted
    <3>5. ASSUME NEW r \in Requests, RowsForgotten(r) PROVE FALSE
      BY <1>2, <3>5, ForgottenRow
    <3>4. ASSUME NEW r \in Requests, RowReplaced(r) PROVE n = existing[r]
      <4>1. n # numero[r]
        BY <1>2, <3>4 DEF RowReplaced, Inserted, Types
      <4>2. n \in DOMAIN rows /\ rows'[n].motivo =
               IF n = existing[r] /\ rows[n].motivo = "valid" THEN "force" ELSE rows[n].motivo
        BY <3>4, <4>1, ReplacedRow
      <4> QED BY <1>2, <4>2
    <3> QED BY <3>1, <3>2, <3>3, <3>4, <3>5, StepShape DEF TableStep
  <2>2. n \in DOMAIN rows /\ n # numero[r]
    BY <1>2, <2>1, RevokedDomain DEF RowReplaced, Insertable, Inserted
  <2>3. rows'[n] = Revoked(rows, n, "force", r)[n]
    BY <2>1, <2>2, RevokedDomain DEF RowReplaced, Inserted
  <2>4. /\ rows'[n].revocataDa = r
        /\ rows'[n].key = ask[r].key
    <3>1. rows[n].motivo # "force" /\ rows'[n].motivo = "force"
      BY <1>2, <2>2
    <3>2. /\ rows'[n].revocataDa = r
          /\ rows'[n].key = rows[n].key
      BY <2>2, <2>3, <3>1, RevokedRow DEF Motives
    <3>3. rows[n].key = ask[r].key
      BY <2>1 DEF ExistingKnown, RowReplaced, ForceHasPrior
    <3> QED BY <3>2, <3>3
  <2>5. /\ numero[r] \in DOMAIN rows'
        /\ rows'[numero[r]].emessaDa = r
        /\ rows'[numero[r]].key = ask[r].key
    BY <2>1 DEF RowReplaced, Inserted
  <2> QED BY <2>2, <2>4, <2>5
<1> QED BY <1>1, <1>2

THEOREM Invariance == Spec => []Inv
<1>1. Inv /\ [Next]_vars => Inv'
  <2> SUFFICES ASSUME Inv, [Next]_vars PROVE Inv'
    OBVIOUS
  <2> USE DEF Inv
  <2>1. Types' /\ NumberDrawn'
    BY NextTypes, NextNumberDrawn
  <2>2. ForcePath' /\ ForceHasPrior' /\ ExistingKnown'
    BY NextForcePath, NextExistingKnown
  <2>3. AtMostOneActive'
    BY StepShape, NextOneActive
  <2>4. SendsRegistered' /\ ServedIsRegistered'
    BY NextSendsRegistered, NextServedIsRegistered
  <2>5. ForceHasReplacement'
    BY NextForceHasReplacement
  <2> QED BY <2>1, <2>2, <2>3, <2>4, <2>5
<1> QED BY InitInv, <1>1, PTL DEF Spec

-----------------------------------------------------------------------------
(* The theorems.                                                           *)

\* The variables keep their types, and no handler revokes a row it did not read or
\* writes a number it did not draw.
THEOREM TypeCorrect == Spec => []TypeOK
<1>1. Inv => TypeOK
  BY NoneAssumption DEF Inv, TypeOK, NumberDrawn, ForceHasPrior
<1> QED BY <1>1, Invariance, PTL

\* However many requests, revocations and faults are interleaved, a (device, year,
\* plan) has at most one attestation that is not revoked.
THEOREM OneActive == Spec => []AtMostOneActive
<1>1. Inv => AtMostOneActive
  BY DEF Inv
<1> QED BY <1>1, Invariance, PTL

\* A PDF sent from the archive, or to a request that neither forces nor meets a
\* fault, is a row of the register with the key and the content asked for.
THEOREM ServedRegistered == Spec => []ServedIsRegistered
<1>1. Inv => ServedIsRegistered
  BY DEF Inv
<1> QED BY <1>1, Invariance, PTL

\* Asking twice for the same content gives the same number, or a number that was
\* revoked in between.
THEOREM IdempotentEmission == Spec => []Idempotent
<1>1. Inv => Idempotent
  <2> SUFFICES ASSUME Inv, NEW q \in Requests, NEW r \in Requests,
                      reply[q].kind \in Served /\ ~ask[q].force /\ faults[q] = 0,
                      reply[r].kind \in Served /\ ~ask[r].force /\ faults[r] = 0,
                      ask[q] = ask[r],
                      ~(reply[q].numero \in DOMAIN rows /\ rows[reply[q].numero].motivo # "valid"),
                      ~(reply[r].numero \in DOMAIN rows /\ rows[reply[r].numero].motivo # "valid")
               PROVE  reply[q].numero = reply[r].numero
    BY DEF Idempotent
  <2>1. /\ reply[q].numero \in Active(ask[q].key)
        /\ reply[r].numero \in Active(ask[q].key)
    BY DEF Inv, ServedIsRegistered, Served, Active
  <2> QED BY <2>1 DEF Inv, AtMostOneActive, Types, Ask
<1> QED BY <1>1, Invariance, PTL

\* A row revoked because a forced re-emission replaced it has its replacement.
THEOREM ForcedReplacement == Spec => []ForceHasReplacement
<1>1. Inv => ForceHasReplacement
  BY DEF Inv
<1> QED BY <1>1, Invariance, PTL

\* Rows are never deleted, what they attest is never rewritten, a revocation is never
\* overwritten, and a name leaves a row only with the account it names.
THEOREM AppendOnly == Spec => RegisterIsAppendOnly
<1>1. Inv /\ [Next]_vars => [\A n \in DOMAIN rows : Survives(n)]_vars
  BY StepShape, RowsSurvive DEF Inv
<1> QED BY <1>1, Invariance, PTL DEF Spec, RegisterIsAppendOnly, Survives

-----------------------------------------------------------------------------
(* The handlers implement the abstract register.                           *)

Current == [k \in Keys |-> CurrentOf(k)]

LEMMA CurrentOfActive ==
    ASSUME Types, AtMostOneActive, NEW k \in Keys
    PROVE  /\ \A n \in Active(k) : CurrentOf(k) = n
           /\ Active(k) = {} => CurrentOf(k) = None
           /\ CurrentOf(k) # None => CurrentOf(k) \in Active(k)
           /\ Active(k) \subseteq Numeri
<1>1. Active(k) \subseteq Numeri
  BY DEF Active, Types
<1>2. ASSUME NEW n \in Active(k) PROVE CurrentOf(k) = n
  <2>1. \A m \in Numeri : m \in Active(k) => m = n
    BY DEF AtMostOneActive
  <2> QED BY <1>1, <2>1 DEF CurrentOf
<1>3. Active(k) = {} => CurrentOf(k) = None
  BY DEF CurrentOf
<1> QED BY <1>1, <1>2, <1>3

LEMMA CurrentUsed ==
    ASSUME Types, AtMostOneActive, NEW n \in Numeri, n \notin DOMAIN rows
    PROVE  n \notin Withdrawn \cup {Current[k] : k \in Keys}
<1>1. n \notin Withdrawn
  BY DEF Withdrawn
<1>2. \A k \in Keys : CurrentOf(k) # n
  BY CurrentOfActive, NoneAssumption DEF Active
<1> QED BY <1>1, <1>2 DEF Current

LEMMA RefineInit == Init => Registry!Init
<1> SUFFICES ASSUME Init PROVE Registry!Init
  OBVIOUS
<1>1. Types /\ AtMostOneActive
  BY InitInv DEF Inv
<1>2. Withdrawn = {}
  <2>1. \A n \in DOMAIN rows : rows[n].motivo = "valid"
    BY DEF Init, LegacyRow
  <2> QED BY <2>1 DEF Withdrawn
<1>3. Current \in [Keys -> Numeri \cup {None}]
  BY <1>1, CurrentOfActive DEF Current
<1>4. \A j, k \in Keys : j # k /\ Current[j] = Current[k] => Current[j] = None
  BY <1>1, CurrentOfActive DEF Current, Active
<1> QED BY <1>2, <1>3, <1>4 DEF Registry!Init, Current

\* What revoking n does to the rows that count and to the numbers withdrawn.
LEMMA RevokedEffect ==
    ASSUME Types, NEW n, NEW m \in Motives \ {"valid"}, NEW who \in Requests \cup {None},
           rows' = Revoked(rows, n, m, who)
    PROVE  /\ \A k \in Keys : Active(k)' = Active(k) \ {n}
           /\ Withdrawn' = Withdrawn \cup {i \in {n} : i \in DOMAIN rows}
<1>1. \A i \in DOMAIN rows :
         /\ rows'[i].key = rows[i].key
         /\ rows'[i].motivo = IF i = n /\ rows[i].motivo = "valid" THEN m ELSE rows[i].motivo
  BY RevokedRow
<1>2. DOMAIN rows' = DOMAIN rows
  BY RevokedDomain
<1> QED BY <1>1, <1>2 DEF Active, Withdrawn

\* What emitting the row of r does, after the row `gone` was revoked.
LEMMA ReplacedEffect ==
    ASSUME Types, NEW r \in Requests, RowReplaced(r)
    PROVE  /\ \A k \in Keys : k = ask[r].key => Active(k)' = {numero[r]}
           /\ \A k \in Keys \ {ask[r].key} : Active(k)' = Active(k) \ {existing[r]}
           /\ Withdrawn' = Withdrawn \cup {i \in {existing[r]} : i \in DOMAIN rows}
<1> DEFINE mid == Revoked(rows, existing[r], "force", r)
<1>1. \A i \in DOMAIN rows :
         /\ mid[i].key = rows[i].key
         /\ mid[i].motivo = IF i = existing[r] /\ rows[i].motivo = "valid"
                            THEN "force" ELSE rows[i].motivo
  BY RevokedRow DEF Motives
<1>2. DOMAIN mid = DOMAIN rows
  BY RevokedDomain
<1> HIDE DEF mid
<1>3. rows' = Inserted(mid, r) /\ Insertable(r, {existing[r]})
  BY DEF RowReplaced, mid
<1>4. /\ DOMAIN rows' = DOMAIN rows \cup {numero[r]}
      /\ \A i \in DOMAIN rows : rows'[i] = mid[i]
      /\ rows'[numero[r]].key = ask[r].key /\ rows'[numero[r]].motivo = "valid"
  BY <1>2, <1>3 DEF Inserted, Insertable
<1> QED BY <1>1, <1>3, <1>4 DEF Active, Withdrawn, Insertable

LEMMA InsertedEffect ==
    ASSUME Types, NEW r \in Requests, RowInserted(r)
    PROVE  /\ \A k \in Keys : k = ask[r].key => Active(k)' = {numero[r]}
           /\ \A k \in Keys \ {ask[r].key} : Active(k)' = Active(k)
           /\ Withdrawn' = Withdrawn
<1>1. /\ DOMAIN rows' = DOMAIN rows \cup {numero[r]}
      /\ \A i \in DOMAIN rows : rows'[i] = rows[i]
      /\ rows'[numero[r]].key = ask[r].key /\ rows'[numero[r]].motivo = "valid"
      /\ Insertable(r, {})
  BY DEF RowInserted, Inserted, Insertable
<1> QED BY <1>1 DEF Active, Withdrawn, Insertable

\* The mapped value of `current` after a step, from what the step did to Active.
LEMMA NextCurrent ==
    ASSUME Types', NEW k \in Keys
    PROVE  /\ \A n : Active(k)' = {n} => Current'[k] = n
           /\ Active(k)' = {} => Current'[k] = None
           /\ Active(k)' = Active(k) => Current'[k] = Current[k]
<1>1. Active(k)' \subseteq Numeri
  BY DEF Active, Types
<1> DEFINE Sole(A) == IF A = {} THEN None ELSE CHOOSE n \in Numeri : n \in A
<1>2. Current'[k] = Sole(Active(k)')
  BY DEF Current, CurrentOf
<1>3. Current[k] = Sole(Active(k))
  BY DEF Current, CurrentOf
<1>4. ASSUME NEW n, Active(k)' = {n}
      PROVE  Current'[k] = n
  <2>1. n \in Numeri /\ \A m \in Numeri : m \in {n} <=> m = n
    BY <1>1, <1>4
  <2>2. Current'[k] = CHOOSE m \in Numeri : m \in {n}
    BY <1>2, <1>4
  <2> QED BY <2>1, <2>2
<1>5. Active(k)' = {} => Current'[k] = None
  BY <1>2
<1>6. ASSUME Active(k)' = Active(k)
      PROVE  Current'[k] = Current[k]
  <2> HIDE DEF Sole
  <2> QED BY <1>2, <1>3, <1>6
<1> QED BY <1>4, <1>5, <1>6

\* A row n of key k that was current and is revoked.
LEMMA RefineRevoked ==
    ASSUME Types, Types', AtMostOneActive, RowRevoked
    PROVE  Registry!Next \/ UNCHANGED <<Current, Withdrawn>>
<1>1. PICK n \in Numeri \cup {None}, m \in Motives \ {"valid"}, who \in Requests \cup {None} :
             rows' = Revoked(rows, n, m, who)
  BY DEF RowRevoked
<1>2. /\ \A k \in Keys : Active(k)' = Active(k) \ {n}
      /\ Withdrawn' = Withdrawn \cup {i \in {n} : i \in DOMAIN rows}
  BY <1>1, RevokedEffect
<1> DEFINE same == \A k \in Keys : n \notin Active(k)
<1>3. CASE same
  <2>1. Withdrawn' = Withdrawn
    BY <1>2, <1>3 DEF Withdrawn, Active, Types, Row
  <2>2. ASSUME NEW k \in Keys PROVE Current'[k] = Current[k]
    <3>1. Active(k)' = Active(k)
      BY <1>2, <1>3
    <3> QED BY <3>1, NextCurrent
  <2>3. Current' = Current
    BY <2>2 DEF Current
  <2> QED BY <2>1, <2>3
<1>4. CASE ~same
  <2>1. PICK k \in Keys : n \in Active(k)
    BY <1>4
  <2>2. Current[k] = n /\ n # None
    BY <2>1, CurrentOfActive, NoneAssumption DEF Current
  <2>3. Active(k)' = {}
    BY <1>2, <2>1 DEF AtMostOneActive
  <2>4. \A j \in Keys \ {k} : Active(j)' = Active(j)
    BY <1>2, <2>1 DEF Active
  <2>5. Current' = [Current EXCEPT ![k] = None]
    <3>1. Current'[k] = None
      BY <2>3, NextCurrent
    <3>2. \A j \in Keys \ {k} : Current'[j] = Current[j]
      BY <2>4, NextCurrent
    <3> QED BY <3>1, <3>2 DEF Current
  <2>6. Withdrawn' = Withdrawn \cup {Current[k]}
    BY <1>2, <2>1, <2>2 DEF Active
  <2>7. Registry!Withdraw(k)
    BY <2>2, <2>5, <2>6 DEF Registry!Withdraw, Current
  <2> QED BY <2>7 DEF Registry!Next
<1> QED BY <1>3, <1>4

LEMMA RefineInserted ==
    ASSUME Types, Types', NumberDrawn, AtMostOneActive, NEW r \in Requests, RowInserted(r)
    PROVE  Registry!Next
<1> DEFINE k == ask[r].key
           n == numero[r]
<1>1. k \in Keys /\ n \in Numeri
  BY DEF Types, Ask, NumberDrawn, RowInserted
<1>2. n \notin DOMAIN rows /\ Active(k) = {}
  BY DEF RowInserted, Insertable
<1>3. Current[k] = None
  BY <1>1, <1>2, CurrentOfActive DEF Current
<1>4. n \notin Withdrawn \cup {Current[j] : j \in Keys}
  BY <1>1, <1>2, CurrentUsed
<1>5. Withdrawn' = Withdrawn /\ \A j \in Keys \ {k} : Active(j)' = Active(j)
  BY InsertedEffect
<1>6. \A j \in Keys : j = k => Active(j)' = {n}
  BY InsertedEffect
<1> HIDE DEF k, n
<1>7. Current' = [Current EXCEPT ![k] = n]
  <2>1. Current'[k] = n
    BY <1>1, <1>6, NextCurrent
  <2>2. \A j \in Keys \ {k} : Current'[j] = Current[j]
    BY <1>5, NextCurrent
  <2> QED BY <2>1, <2>2 DEF Current
<1>8. Registry!Issue(k, n)
  BY <1>3, <1>4, <1>5, <1>7 DEF Registry!Issue, Registry!Used, Current
<1> QED BY <1>1, <1>8 DEF Registry!Next

\* The transaction of a forced re-emission: a replacement, or a plain issue when the
\* prior row was revoked by somebody else in the meantime.
LEMMA RefineReplaced ==
    ASSUME Types, Types', NumberDrawn, ExistingKnown, ForceHasPrior, AtMostOneActive,
           NEW r \in Requests, RowReplaced(r)
    PROVE  Registry!Next
<1> DEFINE k == ask[r].key
           n == numero[r]
           e == existing[r]
<1>1. k \in Keys /\ n \in Numeri
  BY DEF Types, Ask, NumberDrawn, RowReplaced
<1>2. n \notin DOMAIN rows /\ Active(k) \subseteq {e}
  BY DEF RowReplaced, Insertable
<1>3. n \notin Withdrawn \cup {Current[j] : j \in Keys}
  BY <1>1, <1>2, CurrentUsed
<1>4. e \in DOMAIN rows /\ rows[e].key = k
  BY DEF ExistingKnown, ForceHasPrior, RowReplaced
<1>5. /\ \A j \in Keys : j = k => Active(j)' = {n}
      /\ \A j \in Keys \ {k} : Active(j)' = Active(j)
      /\ Withdrawn' = Withdrawn \cup {e}
  <2>1. \A j \in Keys \ {k} : e \notin Active(j)
    BY <1>4 DEF Active
  <2>2. \A j \in Keys \ {k} : Active(j) \ {e} = Active(j)
    BY <2>1
  <2>3. {i \in {e} : i \in DOMAIN rows} = {e}
    BY <1>4
  <2> QED BY <2>2, <2>3, ReplacedEffect
<1> HIDE DEF k, n, e
<1>6. Current' = [Current EXCEPT ![k] = n]
  <2>1. Current'[k] = n
    BY <1>1, <1>5, NextCurrent
  <2>2. \A j \in Keys \ {k} : Current'[j] = Current[j]
    BY <1>5, NextCurrent
  <2> QED BY <2>1, <2>2 DEF Current
<1>7. CASE e \in Active(k)
  <2>1. Current[k] = e /\ e # None
    BY <1>1, <1>7, CurrentOfActive, NoneAssumption DEF Current
  <2>2. Registry!Reissue(k, n)
    BY <1>3, <1>5, <1>6, <2>1 DEF Registry!Reissue, Registry!Used, Current
  <2> QED BY <1>1, <2>2 DEF Registry!Next
<1>8. CASE e \notin Active(k)
  <2>1. Current[k] = None
    BY <1>1, <1>2, <1>8, CurrentOfActive DEF Current
  <2>2. Withdrawn' = Withdrawn
    BY <1>4, <1>5, <1>8 DEF Withdrawn, Active
  <2>3. Registry!Issue(k, n)
    BY <1>3, <1>6, <2>1, <2>2 DEF Registry!Issue, Registry!Used, Current
  <2> QED BY <1>1, <2>3 DEF Registry!Next
<1> QED BY <1>7, <1>8

\* Seen from the register, a handler's statements are indivisible issues, withdrawals
\* and replacements: the detailed specification implements the abstract one.
THEOREM Refinement == Spec => ImplementsRegistry
<1>1. Init => Registry!Init
  BY RefineInit
<1>2. Inv /\ Inv' /\ [Next]_vars => [Registry!Next]_<<Current, Withdrawn>>
  <2> SUFFICES ASSUME Inv, Inv', [Next]_vars
               PROVE  Registry!Next \/ UNCHANGED <<Current, Withdrawn>>
    OBVIOUS
  <2> USE DEF Inv
  <2>1. CASE RowsKept
    <3>1. Withdrawn' = Withdrawn /\ \A k \in Keys : Active(k)' = Active(k)
      BY <2>1 DEF RowsKept, Withdrawn, Active
    <3>2. Current' = Current
      BY <3>1, NextCurrent DEF Current
    <3> QED BY <3>1, <3>2
  <2>2. CASE RowRevoked
    BY <2>2, RefineRevoked
  <2>3. ASSUME NEW r \in Requests, RowInserted(r) \/ RowReplaced(r)
        PROVE  Registry!Next
    BY <2>3, RefineInserted, RefineReplaced
  <2>4. ASSUME NEW r \in Requests, RowsForgotten(r)
        PROVE  UNCHANGED <<Current, Withdrawn>>
    <3>1. Withdrawn' = Withdrawn /\ \A k \in Keys : Active(k)' = Active(k)
      BY <2>4, ForgottenRow DEF Withdrawn, Active
    <3>2. Current' = Current
      BY <3>1, NextCurrent DEF Current
    <3> QED BY <3>1, <3>2
  <2> QED BY <2>1, <2>2, <2>3, <2>4, StepShape DEF TableStep
<1>3. [Registry!Next]_<<Current, Withdrawn>> => [Registry!Next]_(Registry!vars)
  BY DEF Registry!vars, Current
<1> QED BY <1>1, <1>2, <1>3, Invariance, PTL DEF Spec, ImplementsRegistry, Registry!Spec
===============================================================================
