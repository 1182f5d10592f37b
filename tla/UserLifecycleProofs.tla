------------------------ MODULE UserLifecycleProofs ------------------------
(***************************************************************************)
(* Proofs about UserLifecycle, for any accounts, calls, replicas and times.*)
(***************************************************************************)
EXTENDS UserLifecycle, TLAPS

USE EmailAssumption, TimeAssumption, NoneAssumption

(***************************************************************************)
(* The inductive invariant.  Whatever may still write an audit row about   *)
(* an account - an access token, a call that account began - is older than *)
(* its erasure, and so over before its grace is.                           *)
(***************************************************************************)

\* Nothing is dated after now.
Dated ==
    /\ \A s \in Sweeps : at[s] <= clock
    /\ \A i \in Ids : token[i] <= clock + AccessTtl /\ restored[i] <= clock
    /\ \A i \in Pending : users[i].requested <= clock /\ restored[i] <= users[i].requested

\* An account that is to be erased is not active, and its last token and its last call
\* began before its erasure.
PendingQuiet ==
    \A i \in Pending \ revived :
        /\ ~users[i].active
        /\ token[i] <= users[i].requested + AccessTtl
        /\ \A e \in Erasures : by[e] = i /\ pc[e] \in InFlight =>
              /\ clock <= users[i].requested + 1
              /\ e \notin late => clock <= users[i].requested

\* What a run of the housekeeping will delete it has anonymised.
DueHidden == \A s \in Sweeps : at[s] # 0 => Expired(at[s]) \ revived \subseteq hidden[s]

\* Nothing is left that could write about an account the housekeeping deleted.
SweptQuiet ==
    \A i \in swept \ revived :
        /\ i \notin named
        /\ token[i] < clock
        /\ \A e \in Erasures : by[e] = i => pc[e] \notin InFlight

GoneForGood == gone \cap Accounts = {}

Inv == TypeOK /\ Dated /\ PendingQuiet /\ DueHidden /\ SweptQuiet /\ GoneForGood

-----------------------------------------------------------------------------
(* What the statements do to the table.                                    *)

LEMMA Types ==
    ASSUME TypeOK
    PROVE  /\ Accounts \subseteq Ids /\ users \in [Accounts -> Row]
           /\ \A i \in Accounts : /\ users[i].email \in Emails
                                  /\ users[i].active \in BOOLEAN
                                  /\ users[i].requested \in Nat
           /\ clock \in Nat /\ clock > 0
  BY DEF TypeOK, Row

LEMMA InsertEffect ==
    ASSUME TypeOK, NEW e \in Emails, NEW a \in BOOLEAN, Insert(e, a)
    PROVE  \E i \in Ids \ (Accounts \cup gone) :
              /\ Accounts' = Accounts \cup {i}
              /\ users' \in [Accounts' -> Row]
              /\ users'[i] = [email |-> e, active |-> a, requested |-> 0]
              /\ \A j \in Accounts : users'[j] = users[j] /\ users[j].email # e
              /\ Pending' = Pending
  <1> DEFINE row == [email |-> e, active |-> a, requested |-> 0]
  <1>1. PICK i \in Ids \ (Accounts \cup gone) :
            users' = [j \in Accounts \cup {i} |-> IF j = i THEN row ELSE users[j]]
    BY DEF Insert
  <1>2. row \in Row
    BY DEF Row
  <1>3. Accounts' = Accounts \cup {i}
    BY <1>1 DEF Accounts
  <1>4. users' \in [Accounts' -> Row] /\ users'[i] = row
    BY <1>1, <1>2, <1>3, Types
  <1>5. \A j \in Accounts : users'[j] = users[j] /\ users[j].email # e
    BY <1>1 DEF Insert
  <1>6. Pending' = Pending
    BY <1>3, <1>4, <1>5 DEF Pending
  <1> QED
    BY <1>3, <1>4, <1>5, <1>6

LEMMA DeleteEffect ==
    ASSUME TypeOK, NEW S \in SUBSET Accounts, Delete(S)
    PROVE  /\ Accounts' = Accounts \ S
           /\ users' \in [Accounts' -> Row]
           /\ \A j \in Accounts' : users'[j] = users[j]
           /\ Pending' = Pending \ S
           /\ gone' = gone \cup S
  <1>1. Accounts' = Accounts \ S
    BY DEF Delete, Accounts
  <1>2. users' \in [Accounts' -> Row] /\ \A j \in Accounts' : users'[j] = users[j]
    BY <1>1, Types DEF Delete
  <1> QED
    BY <1>1, <1>2 DEF Delete, Pending

LEMMA RestoreEffect ==
    ASSUME TypeOK, NEW i \in Ids, Restore(i)
    PROVE  /\ i \in Accounts /\ Accounts' = Accounts
           /\ users' \in [Accounts -> Row]
           /\ users'[i].email = users[i].email
           /\ users'[i].active = TRUE /\ users'[i].requested = 0
           /\ \A j \in Accounts \ {i} : users'[j] = users[j]
           /\ Pending' = Pending \ {i}
  <1>1. i \in Accounts
    BY DEF Restore, Pending
  <1>2. users' = [users EXCEPT ![i] = [@ EXCEPT !.active = TRUE, !.requested = 0]]
    BY Types, <1>1 DEF Restore, Row
  <1>3. Accounts' = Accounts
    BY <1>2, Types DEF Accounts
  <1>4. /\ users' \in [Accounts -> Row]
        /\ users'[i].email = users[i].email
        /\ users'[i].active = TRUE /\ users'[i].requested = 0
        /\ \A j \in Accounts \ {i} : users'[j] = users[j]
    BY <1>1, <1>2, Types DEF Row
  <1> QED
    BY <1>1, <1>3, <1>4 DEF Pending

LEMMA ScheduleEffect ==
    ASSUME TypeOK, NEW e \in Erasures, Schedule(e)
    PROVE  /\ found[e] \in Accounts \ Pending /\ Accounts' = Accounts
           /\ users' \in [Accounts -> Row]
           /\ users'[found[e]].email = users[found[e]].email
           /\ users'[found[e]].active = FALSE /\ users'[found[e]].requested = clock
           /\ \A j \in Accounts \ {found[e]} : users'[j] = users[j]
           /\ Pending' = Pending \cup {found[e]}
  <1> DEFINE i == found[e]
  <1>1. i \in Accounts \ Pending
    BY DEF Schedule, Schedulable
  <1>2. users' = [users EXCEPT ![i] = [@ EXCEPT !.active = FALSE, !.requested = clock]]
    BY Types, <1>1 DEF Schedule, Row
  <1>3. Accounts' = Accounts
    BY <1>2, Types DEF Accounts
  <1>4. /\ users[i] \in Row /\ users \in [Accounts -> Row] /\ clock \in Nat
        /\ users' = [users EXCEPT ![i] = [users[i] EXCEPT !.active = FALSE, !.requested = clock]]
    BY <1>1, <1>2, Types
  <1> DEFINE r == [users[i] EXCEPT !.active = FALSE, !.requested = clock]
  <1>5. r \in Row /\ r.email = users[i].email /\ r.active = FALSE /\ r.requested = clock
    BY <1>4 DEF Row
  <1> HIDE DEF r
  <1>6. users' = [users EXCEPT ![i] = r]
    BY <1>4 DEF r
  <1>7. users'[i] = r /\ \A j \in Accounts \ {i} : users'[j] = users[j]
    BY <1>1, <1>4, <1>6
  <1>8. users' \in [Accounts -> Row]
    BY <1>4, <1>5, <1>6
  <1> QED
    BY <1>1, <1>3, <1>5, <1>7, <1>8, Types DEF Pending

LEMMA BootUpdateEffect ==
    ASSUME TypeOK, BootUpdate
    PROVE  /\ Accounts' = Accounts
           /\ users' \in [Accounts -> Row]
           /\ \A j \in Accounts : /\ users'[j].email = users[j].email
                                  /\ users'[j].requested = users[j].requested
                                  /\ j # boot => users'[j] = users[j]
           /\ Pending' = Pending
  <1>1. users' = [i \in Accounts |->
            IF i = boot THEN [users[i] EXCEPT !.active = TRUE] ELSE users[i]]
    BY DEF BootUpdate
  <1>2. Accounts' = Accounts
    BY <1>1 DEF Accounts
  <1>3. ASSUME NEW j \in Accounts
        PROVE  /\ users'[j] \in Row
               /\ users'[j].email = users[j].email
               /\ users'[j].requested = users[j].requested
               /\ j # boot => users'[j] = users[j]
    BY <1>1, Types DEF Row
  <1> QED
    BY <1>1, <1>2, <1>3 DEF Pending

\* The types of everything but the table.
RestOK ==
    /\ clock \in Nat \ {0} /\ late \subseteq Erasures
    /\ token \in [Ids -> Nat]
    /\ named \subseteq Ids /\ mentioned \subseteq Ids
    /\ pc \in [Erasures -> InFlight \cup {"idle", "done"}]
    /\ by \in [Erasures -> Ids \cup {None}]
    /\ email \in [Erasures -> Emails]
    /\ found \in [Erasures -> Ids \cup {None}]
    /\ \A e \in Erasures : /\ pc[e] \in {"schedule", "scheduled"} => found[e] # None
                           /\ pc[e] \notin InFlight => by[e] = None
    /\ at \in [Sweeps -> Nat]
    /\ hidden \in [Sweeps -> SUBSET Ids]
    /\ boot \in {"idle", "insert"} \cup Ids
    /\ restored \in [Ids -> Nat]
    /\ gone \subseteq Ids /\ swept \subseteq gone /\ revived \subseteq Ids

TableOK ==
    /\ Accounts \subseteq Ids /\ users \in [Accounts -> Row]
    /\ \A i, j \in Accounts : users[i].email = users[j].email => i = j

LEMMA RestType ==
    ASSUME TypeOK, Next
    PROVE  RestOK'
  <1> USE Types DEF TypeOK, RestOK, InFlight, history, sweeps, erasures, time, log
  <1>1. ASSUME NEW e \in Emails, NEW a \in BOOLEAN, CreateUser(e, a)  PROVE RestOK'
    BY <1>1 DEF CreateUser
  <1>2. ASSUME NEW i \in Ids, Login(i)  PROVE RestOK'
    BY <1>2 DEF Login, Record, Mention
  <1>2a. ASSUME NEW i \in Ids, LoginRefused(i)  PROVE RestOK'
    BY <1>2a DEF LoginRefused, Record, Mention
  <1>3. ASSUME NEW i \in Ids, Act(i)  PROVE RestOK'
    BY <1>3 DEF Act, Record
  <1>4. ASSUME NEW i \in Ids, Restore(i)  PROVE RestOK'
    BY <1>4 DEF Restore
  <1>5. ASSUME NEW e \in Erasures, NEW i \in Ids, BeginSelf(e, i)  PROVE RestOK'
    BY <1>5 DEF BeginSelf, Goto
  <1>6. ASSUME NEW e \in Erasures, NEW a \in Emails, Lookup(e, a),
               UNCHANGED <<time, users, gone, token, log, sweeps, boot, history>>
        PROVE  RestOK'
    <2>1. CASE End(e)
      BY <1>6, <2>1 DEF End, Goto
    <2>2. CASE /\ \E i \in Matching(a) \ Pending : found' = [found EXCEPT ![e] = i]
               /\ email' = [email EXCEPT ![e] = Admin]
               /\ Goto(e, "schedule")
               /\ UNCHANGED by
      <3>1. PICK i \in Ids : found' = [found EXCEPT ![e] = i]
        BY <2>2 DEF Matching
      <3> QED
        BY <1>6, <2>2, <3>1 DEF Goto
    <2> QED
      BY <1>6, <2>1, <2>2 DEF Lookup
  <1>7. ASSUME NEW e \in Erasures, Handle(e)  PROVE RestOK'
    <2>1. CASE FindSelf(e)
      BY <1>6, <2>1 DEF FindSelf
    <2>2. CASE Schedule(e)
      BY <2>2, ScheduleEffect DEF Schedule, Record, Mention, Goto
    <2>3. CASE ScheduleRefused(e) \/ Finish(e) \/ Fail(e)
      BY <2>3 DEF ScheduleRefused, Finish, Fail, End, Goto
    <2>4. CASE Answer(e)
      BY <2>4 DEF Answer, Record, Mention, End, Goto
    <2>5. CASE Finalize(e)
      BY <2>5 DEF Finalize, Delete, Expired, Pending, End, Goto
    <2> QED
      BY <1>7, <2>1, <2>2, <2>3, <2>4, <2>5 DEF Handle
  <1>8. ASSUME NEW e \in Erasures, Begin(e)  PROVE RestOK'
    BY <1>5, <1>6, <1>8 DEF Begin, FindScript
  <1>9. ASSUME NEW s \in Sweeps, SweepAnonymise(s)  PROVE RestOK'
    BY <1>9 DEF SweepAnonymise, Expired, Pending
  <1>10. ASSUME NEW s \in Sweeps, SweepDelete(s)  PROVE RestOK'
    BY <1>10 DEF SweepDelete, Delete, Due, Expired, Pending
  <1>11. ASSUME NEW s \in Sweeps, SweepFail(s)  PROVE RestOK'
    BY <1>11 DEF SweepFail
  <1>12. CASE BootRead
    BY <1>12 DEF BootRead, Matching
  <1>13. CASE BootInsert \/ BootFail
    BY <1>13 DEF BootInsert, BootFail
  <1>14. CASE BootUpdate
    BY <1>14 DEF BootUpdate
  <1>15. CASE Tick
    BY <1>15 DEF Tick
  <1> QED
    BY <1>1, <1>2, <1>2a, <1>3, <1>4, <1>7, <1>8, <1>9, <1>10, <1>11, <1>12, <1>13, <1>14, <1>15
       DEF Next

\* The steps that change the table.
LEMMA TableSteps ==
    ASSUME TypeOK, Next
    PROVE  \/ UNCHANGED <<users, gone>>
           \/ \E e \in Emails, a \in BOOLEAN : CreateUser(e, a)
           \/ BootInsert \/ BootUpdate
           \/ \E i \in Ids : Restore(i)
           \/ \E e \in Erasures : Schedule(e) \/ Finalize(e)
           \/ \E s \in Sweeps : SweepDelete(s)
  <1>1. ASSUME NEW i \in Ids, Login(i) \/ LoginRefused(i) \/ Act(i)
        PROVE  UNCHANGED <<users, gone>>
    BY <1>1 DEF Login, LoginRefused, Act
  <1>2. ASSUME NEW e \in Erasures, Begin(e)  PROVE UNCHANGED <<users, gone>>
    BY <1>2 DEF Begin, BeginSelf, FindScript
  <1>3. ASSUME NEW e \in Erasures, Handle(e), ~Schedule(e), ~Finalize(e)
        PROVE  UNCHANGED <<users, gone>>
    BY <1>3 DEF Handle, FindSelf, ScheduleRefused, Answer, Finish, Fail
  <1>4. ASSUME NEW s \in Sweeps, SweepAnonymise(s) \/ SweepFail(s)  PROVE UNCHANGED <<users, gone>>
    BY <1>4 DEF SweepAnonymise, SweepFail
  <1>5. CASE BootRead \/ BootFail \/ Tick
    BY <1>5 DEF BootRead, BootFail, Tick
  <1> QED
    BY <1>1, <1>2, <1>3, <1>4, <1>5 DEF Next

LEMMA TimeSteps ==
    ASSUME Next
    PROVE  UNCHANGED time \/ Tick
  <1>1. ASSUME NEW e \in Emails, NEW a \in BOOLEAN, CreateUser(e, a)  PROVE UNCHANGED time
    BY <1>1 DEF CreateUser
  <1>2. ASSUME NEW i \in Ids, Login(i) \/ LoginRefused(i) \/ Act(i) \/ Restore(i)
        PROVE  UNCHANGED time
    BY <1>2 DEF Login, LoginRefused, Act, Restore
  <1>3. ASSUME NEW e \in Erasures, Begin(e)  PROVE UNCHANGED time
    BY <1>3 DEF Begin, BeginSelf, FindScript
  <1>4. ASSUME NEW e \in Erasures, Handle(e)  PROVE UNCHANGED time
    BY <1>4 DEF Handle, FindSelf, Schedule, ScheduleRefused, Answer, Finish, Finalize, Fail
  <1>5. ASSUME NEW s \in Sweeps, SweepAnonymise(s) \/ SweepDelete(s) \/ SweepFail(s)
        PROVE  UNCHANGED time
    BY <1>5 DEF SweepAnonymise, SweepDelete, SweepFail
  <1>6. CASE BootRead \/ BootInsert \/ BootFail \/ BootUpdate
    BY <1>6 DEF BootRead, BootInsert, BootFail, BootUpdate
  <1> QED
    BY <1>1, <1>2, <1>3, <1>4, <1>5, <1>6 DEF Next

LEMMA ExpiredPending == \A t : Expired(t) \subseteq Pending /\ Pending \subseteq Accounts
  BY DEF Expired, Pending

LEMMA TableType ==
    ASSUME TypeOK, Next
    PROVE  TableOK'
  <1> DEFINE Unique == \A i, j \in Accounts : users[i].email = users[j].email => i = j
  <1>0. Unique /\ Accounts \subseteq Ids /\ users \in [Accounts -> Row]
    BY DEF TypeOK
  <1>1. CASE UNCHANGED <<users, gone>>
    BY <1>0, <1>1 DEF TableOK, Accounts
  <1>2. ASSUME NEW e \in Emails, NEW a \in BOOLEAN, Insert(e, a)  PROVE TableOK'
    <2>1. PICK i \in Ids \ (Accounts \cup gone) :
              /\ Accounts' = Accounts \cup {i}
              /\ users' \in [Accounts' -> Row]
              /\ users'[i] = [email |-> e, active |-> a, requested |-> 0]
              /\ \A j \in Accounts : users'[j] = users[j] /\ users[j].email # e
      BY <1>2, InsertEffect
    <2>2. users'[i].email = e
      BY <2>1
    <2> QED
      BY <1>0, <2>1, <2>2 DEF TableOK
  <1>3. ASSUME NEW S \in SUBSET Accounts, Delete(S)  PROVE TableOK'
    BY <1>0, <1>3, DeleteEffect DEF TableOK
  <1>4. ASSUME NEW i \in Ids, Restore(i)  PROVE TableOK'
    <2>1. Accounts' = Accounts /\ users' \in [Accounts -> Row]
      BY <1>4, RestoreEffect
    <2>2. \A j \in Accounts : users'[j].email = users[j].email
      BY <1>4, RestoreEffect
    <2>3. \A j, k \in Accounts : users'[j].email = users'[k].email => j = k
      BY <1>0, <2>2
    <2> QED
      BY <1>0, <2>1, <2>3 DEF TableOK
  <1>5. ASSUME NEW e \in Erasures, Schedule(e)  PROVE TableOK'
    <2>1. Accounts' = Accounts /\ users' \in [Accounts -> Row]
      BY <1>5, ScheduleEffect
    <2>2. \A j \in Accounts : users'[j].email = users[j].email
      BY <1>5, ScheduleEffect
    <2>3. \A j, k \in Accounts : users'[j].email = users'[k].email => j = k
      BY <1>0, <2>2
    <2> QED
      BY <1>0, <2>1, <2>3 DEF TableOK
  <1>6. CASE BootUpdate
    BY <1>0, <1>6, BootUpdateEffect DEF TableOK
  <1>7. ASSUME NEW e \in Erasures, Finalize(e)  PROVE TableOK'
    BY <1>3, <1>7, ExpiredPending DEF Finalize
  <1>8. ASSUME NEW s \in Sweeps, SweepDelete(s)  PROVE TableOK'
    BY <1>3, <1>8, ExpiredPending DEF SweepDelete, Due
  <1>9. CASE BootInsert
    BY <1>2, <1>9 DEF BootInsert
  <1> QED
    BY TableSteps, <1>1, <1>2, <1>4, <1>5, <1>6, <1>7, <1>8, <1>9 DEF CreateUser

LEMMA TypeInit == Init => TypeOK
  BY DEF Init, TypeOK, Accounts, InFlight

LEMMA TypeStep == TypeOK /\ [Next]_vars => TypeOK'
  <1> SUFFICES ASSUME TypeOK, [Next]_vars  PROVE TypeOK'
    OBVIOUS
  <1>1. CASE Next
    BY <1>1, RestType, TableType DEF TypeOK, RestOK, TableOK
  <1>2. CASE UNCHANGED vars
    BY <1>2 DEF TypeOK, vars, time, erasures, sweeps, history, log, Accounts, InFlight
  <1> QED
    BY <1>1, <1>2

\* TypeOK: the types, an account behind every erasure that is to schedule, and addresses
\* that are unique as they are written.
THEOREM TypeCorrect == Spec => []TypeOK
  BY TypeInit, TypeStep, PTL DEF Spec

-----------------------------------------------------------------------------
(* The invariant is inductive.                                             *)

LEMMA InvInit == Init => Inv
  BY DEF Init, Inv, TypeOK, Dated, PendingQuiet, DueHidden, SweptQuiet, GoneForGood,
         Accounts, Pending, Expired, InFlight

LEMMA GoneStep ==
    ASSUME Inv, Next
    PROVE  GoneForGood'
  <1> USE DEF Inv, GoneForGood
  <1>1. CASE UNCHANGED <<users, gone>>
    BY <1>1 DEF Accounts
  <1>2. ASSUME NEW e \in Emails, NEW a \in BOOLEAN, Insert(e, a), gone' = gone  PROVE GoneForGood'
    <2>1. PICK i \in Ids \ (Accounts \cup gone) : Accounts' = Accounts \cup {i}
      BY <1>2, InsertEffect
    <2> QED
      BY <1>2, <2>1
  <1>3. ASSUME NEW S \in SUBSET Accounts, Delete(S)  PROVE GoneForGood'
    BY <1>3, DeleteEffect
  <1>4. ASSUME NEW i \in Ids, Restore(i)  PROVE GoneForGood'
    BY <1>4, RestoreEffect DEF Restore
  <1>5. ASSUME NEW e \in Erasures, Schedule(e)  PROVE GoneForGood'
    BY <1>5, ScheduleEffect DEF Schedule
  <1>6. CASE BootUpdate
    BY <1>6, BootUpdateEffect DEF BootUpdate
  <1>7. ASSUME NEW e \in Erasures, Finalize(e)  PROVE GoneForGood'
    BY <1>3, <1>7, ExpiredPending DEF Finalize
  <1>8. ASSUME NEW s \in Sweeps, SweepDelete(s)  PROVE GoneForGood'
    BY <1>3, <1>8, ExpiredPending DEF SweepDelete, Due
  <1>9. CASE BootInsert
    BY <1>2, <1>9 DEF BootInsert
  <1> QED
    BY TableSteps, <1>1, <1>2, <1>4, <1>5, <1>6, <1>7, <1>8, <1>9 DEF CreateUser

LEMMA DatedStep ==
    ASSUME Inv, Next
    PROVE  Dated'
  <1> DEFINE ClocksOK == /\ \A s \in Sweeps : at[s] <= clock
                         /\ \A i \in Ids : token[i] <= clock + AccessTtl /\ restored[i] <= clock
             RowsOK == \A i \in Pending : /\ users[i].requested <= clock
                                          /\ restored[i] <= users[i].requested
  <1> USE Types DEF Inv
  <1>1. ClocksOK'
    <2> USE DEF Dated, TypeOK, time, sweeps, history
    <2>1. ASSUME NEW i \in Ids, Login(i) \/ LoginRefused(i) \/ Act(i) \/ Restore(i)
          PROVE  ClocksOK'
      BY <2>1 DEF Login, LoginRefused, Act, Restore
    <2>2. ASSUME NEW e \in Erasures, Begin(e)  PROVE ClocksOK'
      BY <2>2 DEF Begin, BeginSelf, FindScript
    <2>3. ASSUME NEW e \in Erasures, Handle(e)  PROVE ClocksOK'
      BY <2>3 DEF Handle, FindSelf, Schedule, ScheduleRefused, Answer, Finish, Finalize, Fail
    <2>4. ASSUME NEW s \in Sweeps, SweepAnonymise(s) \/ SweepDelete(s) \/ SweepFail(s)
          PROVE  ClocksOK'
      BY <2>4 DEF SweepAnonymise, SweepDelete, SweepFail
    <2>5. CASE BootRead \/ BootFail
      BY <2>5 DEF BootRead, BootFail
    <2>6. ASSUME NEW e \in Emails, NEW a \in BOOLEAN, CreateUser(e, a)  PROVE ClocksOK'
      BY <2>6 DEF CreateUser
    <2>7. CASE Tick
      BY <2>7 DEF Tick
    <2>8. CASE BootInsert
      BY <2>8 DEF BootInsert
    <2>9. CASE BootUpdate
      BY <2>9 DEF BootUpdate
    <2> QED
      BY <2>1, <2>2, <2>3, <2>4, <2>5, <2>6, <2>7, <2>8, <2>9 DEF Next
  <1>2. RowsOK'
    <2>0. RowsOK /\ clock \in Nat /\ Pending \subseteq Accounts /\ Accounts \subseteq Ids
      BY ExpiredPending DEF Dated
    <2>1. clock' \in Nat /\ clock' >= clock
      BY <2>0, TimeSteps DEF time, Tick
    <2>2. ASSUME restored' = restored, Pending' \subseteq Pending,
                 \A i \in Pending' : users'[i].requested = users[i].requested
          PROVE  RowsOK'
      <3>1. ASSUME NEW i \in Pending'
            PROVE  users'[i].requested <= clock' /\ restored'[i] <= users'[i].requested
        <4>1. users[i].requested \in Nat /\ users[i].requested <= clock
          BY <2>0, <2>2, <3>1
        <4> QED
          BY <2>0, <2>1, <2>2, <3>1, <4>1
      <3> QED
        BY <3>1
    <2>3. CASE UNCHANGED <<users, gone>>
      <3>1. CASE restored' = restored
        BY <2>2, <2>3, <3>1 DEF Pending, Accounts
      <3>2. CASE restored' # restored
        <4>1. PICK i \in Ids : Restore(i)
          BY <3>2 DEF Next, CreateUser, Login, LoginRefused, Act, Begin, BeginSelf, FindScript, Handle,
               FindSelf, Schedule, ScheduleRefused, Answer, Finish, Finalize, Fail,
               SweepAnonymise, SweepDelete, SweepFail, BootRead, BootInsert, BootFail,
               BootUpdate, Tick, history
        <4> QED
          BY <2>3, <4>1, RestoreEffect DEF Restore, Pending
      <3> QED
        BY <3>1, <3>2
    <2>4. ASSUME NEW e \in Emails, NEW a \in BOOLEAN, Insert(e, a), restored' = restored
          PROVE  RowsOK'
      <3>1. Pending' = Pending /\ \A j \in Accounts : users'[j] = users[j]
        BY <2>4, InsertEffect
      <3> QED
        BY <2>0, <2>2, <2>4, <3>1
    <2>5. ASSUME NEW S \in SUBSET Accounts, Delete(S), restored' = restored
          PROVE  RowsOK'
      BY <2>0, <2>2, <2>5, DeleteEffect, ExpiredPending
    <2>6. ASSUME NEW i \in Ids, Restore(i)  PROVE RowsOK'
      <3>1. Pending' = Pending \ {i} /\ \A j \in Pending' : users'[j] = users[j]
        BY <2>0, <2>6, RestoreEffect
      <3>2. \A j \in Pending' : restored'[j] = restored[j]
        BY <2>0, <2>6, <3>1 DEF Restore, TypeOK
      <3>3. clock' = clock
        BY <2>6 DEF Restore, time
      <3>4. ASSUME NEW j \in Pending'
            PROVE  users'[j].requested <= clock' /\ restored'[j] <= users'[j].requested
        BY <2>0, <3>1, <3>2, <3>3, <3>4
      <3> QED
        BY <3>4
    <2>7. ASSUME NEW e \in Erasures, Schedule(e)  PROVE RowsOK'
      <3>1. clock' = clock /\ restored' = restored
        BY <2>7 DEF Schedule, time
      <3>2. \A j \in Pending' \ {found[e]} : j \in Pending /\ users'[j] = users[j]
        BY <2>0, <2>7, ScheduleEffect
      <3>3. users'[found[e]].requested = clock /\ restored[found[e]] <= clock
        BY <2>0, <2>7, ScheduleEffect DEF Dated
      <3> QED
        BY <2>0, <3>1, <3>2, <3>3
    <2>8. CASE BootUpdate
      BY <2>0, <2>2, <2>8, BootUpdateEffect DEF BootUpdate
    <2>9. ASSUME NEW e \in Erasures, Finalize(e)  PROVE RowsOK'
      BY <2>5, <2>9, ExpiredPending DEF Finalize, history
    <2>10. ASSUME NEW s \in Sweeps, SweepDelete(s)  PROVE RowsOK'
      BY <2>5, <2>10, ExpiredPending DEF SweepDelete, Due
    <2>11. CASE BootInsert
      BY <2>4, <2>11 DEF BootInsert, history
    <2>12. ASSUME NEW e \in Emails, NEW a \in BOOLEAN, CreateUser(e, a)  PROVE RowsOK'
      BY <2>4, <2>12 DEF CreateUser, history
    <2> QED
      BY TableSteps, <2>3, <2>6, <2>7, <2>8, <2>9, <2>10, <2>11, <2>12
  <1> QED
    BY <1>1, <1>2 DEF Dated

\* Somebody may still write an audit row about account j.
MayWrite(j) == \/ j \in Accounts /\ (users[j].active \/ j \notin Pending)
               \/ clock <= token[j]
               \/ \E e \in Erasures : by[e] = j /\ pc[e] \in InFlight

\* Otherwise nobody does: its rows are hidden by whoever hid them, and it gets no token
\* and begins no call.
Silent(j) ==
    /\ j \in named' => j \in named
    /\ \A s \in Sweeps : \/ at'[s] = 0
                         \/ at'[s] = clock /\ hidden'[s] = Expired(clock)
                         \/ at'[s] = at[s] /\ (j \in hidden[s] => j \in hidden'[s])
    /\ token'[j] <= token[j]
    /\ \A e \in Erasures : by'[e] = j => pc'[e] \notin InFlight

LEMMA QuietStays ==
    ASSUME TypeOK, Next, NEW j \in Ids, ~MayWrite(j)
    PROVE  Silent(j)
  <1> USE Types DEF TypeOK, Silent, time, erasures, sweeps, history, log, InFlight
  <1>0. /\ j \in Accounts => ~users[j].active /\ j \in Pending
        /\ clock > token[j]
        /\ \A e \in Erasures : by[e] = j => pc[e] \notin InFlight
    BY DEF MayWrite
  <1>1. ASSUME NEW e \in Emails, NEW a \in BOOLEAN, CreateUser(e, a)  PROVE Silent(j)
    BY <1>0, <1>1 DEF CreateUser
  <1>2. ASSUME NEW i \in Ids, Login(i)  PROVE Silent(j)
    BY <1>0, <1>2 DEF Login, Record
  <1>2a. ASSUME NEW i \in Ids, LoginRefused(i)  PROVE Silent(j)
    BY <1>0, <1>2a DEF LoginRefused, Record
  <1>3. ASSUME NEW i \in Ids, Act(i)  PROVE Silent(j)
    BY <1>0, <1>3 DEF Act, Record
  <1>4. ASSUME NEW i \in Ids, Restore(i)  PROVE Silent(j)
    BY <1>0, <1>4 DEF Restore
  <1>5. ASSUME NEW e \in Erasures, NEW i \in Ids, BeginSelf(e, i)  PROVE Silent(j)
    BY <1>0, <1>5 DEF BeginSelf, Goto
  <1>6. ASSUME NEW e \in Erasures, by[e] # j, by'[e] \in {by[e], None},
               \A d \in Erasures \ {e} : by'[d] = by[d] /\ pc'[d] = pc[d],
               UNCHANGED <<token, log, sweeps>>
        PROVE  Silent(j)
    BY <1>0, <1>6
  <1>7. ASSUME NEW e \in Erasures, NEW a \in Emails, by[e] # j, Lookup(e, a),
               UNCHANGED <<token, log, sweeps>>
        PROVE  Silent(j)
    <2>1. CASE End(e)
      BY <1>6, <1>7, <2>1 DEF End, Goto
    <2>2. CASE Goto(e, "schedule") /\ UNCHANGED by
      BY <1>6, <1>7, <2>2 DEF Goto
    <2> QED
      BY <1>7, <2>1, <2>2 DEF Lookup
  <1>8. ASSUME NEW e \in Erasures, NEW a \in Emails, FindScript(e, a)  PROVE Silent(j)
    BY <1>7, <1>8 DEF FindScript
  <1>9. ASSUME NEW e \in Erasures, FindSelf(e)  PROVE Silent(j)
    BY <1>0, <1>7, <1>9 DEF FindSelf
  <1>10. ASSUME NEW e \in Erasures, Schedule(e)  PROVE Silent(j)
    <2>1. found[e] \in Accounts /\ found[e] \notin Pending
      BY <1>10 DEF Schedule, Schedulable
    <2>2. found[e] # j
      BY <1>0, <2>1
    <2> QED
      BY <1>0, <1>10, <2>2 DEF Schedule, Record, Goto
  <1>11. ASSUME NEW e \in Erasures, ScheduleRefused(e) \/ Finish(e) \/ Finalize(e) \/ Fail(e)
         PROVE  Silent(j)
    <2>1. by[e] # j
      BY <1>0, <1>11 DEF ScheduleRefused, Finish, Finalize, Fail
    <2>2. End(e) /\ UNCHANGED <<token, log, sweeps>>
      BY <1>11 DEF ScheduleRefused, Finish, Finalize, Fail
    <2> QED
      BY <1>6, <2>1, <2>2 DEF End, Goto
  <1>12. ASSUME NEW e \in Erasures, Answer(e)  PROVE Silent(j)
    <2>1. by[e] # j
      BY <1>0, <1>12 DEF Answer
    <2> QED
      BY <1>0, <1>12, <2>1 DEF Answer, Record, End, Goto
  <1>13. ASSUME NEW s \in Sweeps, SweepAnonymise(s)  PROVE Silent(j)
    BY <1>0, <1>13 DEF SweepAnonymise
  <1>14. ASSUME NEW s \in Sweeps, SweepDelete(s) \/ SweepFail(s)  PROVE Silent(j)
    BY <1>0, <1>14 DEF SweepDelete, SweepFail
  <1>15. CASE BootRead \/ BootFail
    BY <1>0, <1>15 DEF BootRead, BootFail
  <1>16. CASE BootInsert
    BY <1>0, <1>16 DEF BootInsert
  <1>17. CASE BootUpdate
    BY <1>0, <1>17 DEF BootUpdate
  <1>18. CASE Tick
    BY <1>0, <1>18 DEF Tick
  <1> QED
    BY <1>1, <1>2, <1>2a, <1>3, <1>4, <1>5, <1>8, <1>9, <1>10, <1>11, <1>12, <1>13, <1>14, <1>15,
       <1>16, <1>17, <1>18 DEF Next, Begin, Handle

LEMMA OverdueQuiet ==
    ASSUME Inv, NEW i \in Expired(clock) \ revived
    PROVE  ~MayWrite(i)
  <1>1. i \in Pending \ revived /\ i \in Accounts /\ i \in Ids
    BY ExpiredPending, Types DEF Inv
  <1>2. users[i].requested + Grace < clock
    BY DEF Expired
  <1>3. /\ ~users[i].active
        /\ token[i] <= users[i].requested + AccessTtl
        /\ \A e \in Erasures : by[e] = i /\ pc[e] \in InFlight => clock <= users[i].requested + 1
    BY <1>1 DEF Inv, PendingQuiet
  <1>4. users[i].requested \in Nat /\ clock \in Nat /\ token[i] \in Nat
    BY <1>1, Types DEF Inv, TypeOK
  <1>5. token[i] < clock
    BY <1>2, <1>3, <1>4
  <1>6. \A e \in Erasures : by[e] = i => pc[e] \notin InFlight
    BY <1>2, <1>3, <1>4
  <1> QED
    BY <1>1, <1>3, <1>4, <1>5, <1>6 DEF MayWrite

\* An account is to be erased, and was not revived, because it was so before or because
\* this step schedules it.
LEMMA PendingSteps ==
    ASSUME Inv, Next, NEW i \in Pending' \ revived'
    PROVE  \/ /\ i \in Pending \ revived
              /\ users'[i].active = users[i].active
              /\ users'[i].requested = users[i].requested
           \/ \E e \in Erasures : Schedule(e) /\ found[e] = i
  <1> DEFINE Kept == /\ i \in Pending \ revived
                     /\ users'[i].active = users[i].active
                     /\ users'[i].requested = users[i].requested
  <1> USE DEF Inv, history
  <1>0. Pending \subseteq Accounts
    BY DEF Pending
  <1>1. ASSUME UNCHANGED <<users, gone>>, revived \subseteq revived'  PROVE Kept
    BY <1>1 DEF Pending, Accounts
  <1>2. ASSUME NEW e \in Emails, NEW a \in BOOLEAN, Insert(e, a), revived' = revived  PROVE Kept
    <2>1. Pending' = Pending /\ \A j \in Accounts : users'[j] = users[j]
      BY <1>2, InsertEffect
    <2> QED
      BY <1>0, <1>2, <2>1
  <1>3. ASSUME NEW S \in SUBSET Accounts, Delete(S), revived' = revived  PROVE Kept
    <2>1. Pending' = Pending \ S /\ \A j \in Accounts \ S : users'[j] = users[j]
      BY <1>3, DeleteEffect
    <2> QED
      BY <1>0, <1>3, <2>1
  <1>4. ASSUME NEW k \in Ids, Restore(k)  PROVE Kept
    <2>1. Pending' = Pending \ {k} /\ \A j \in Accounts \ {k} : users'[j] = users[j]
      BY <1>4, RestoreEffect
    <2>2. revived' = revived \ {k}
      BY <1>4 DEF Restore
    <2> QED
      BY <1>0, <2>1, <2>2
  <1>5. ASSUME NEW e \in Erasures, Schedule(e), found[e] # i  PROVE Kept
    <2>1. /\ Pending' = Pending \cup {found[e]}
          /\ \A j \in Accounts \ {found[e]} : users'[j] = users[j]
      BY <1>5, ScheduleEffect
    <2>2. revived' = revived \ {found[e]}
      BY <1>5 DEF Schedule
    <2> QED
      BY <1>0, <1>5, <2>1, <2>2
  <1>6. CASE BootUpdate
    <2>1. /\ Pending' = Pending
          /\ \A j \in Accounts : j # boot => users'[j] = users[j]
      BY <1>6, BootUpdateEffect
    <2>2. revived' = revived \cup (Pending \cap {boot})
      BY <1>6 DEF BootUpdate
    <2> QED
      BY <1>0, <2>1, <2>2
  <1>7. ASSUME NEW e \in Erasures, Finalize(e)  PROVE Kept
    BY <1>3, <1>7, ExpiredPending DEF Finalize
  <1>8. ASSUME NEW s \in Sweeps, SweepDelete(s)  PROVE Kept
    BY <1>3, <1>8, ExpiredPending DEF SweepDelete, Due
  <1>9. CASE BootInsert
    BY <1>2, <1>9 DEF BootInsert
  <1>10. ASSUME NEW e \in Emails, NEW a \in BOOLEAN, CreateUser(e, a)  PROVE Kept
    BY <1>2, <1>10 DEF CreateUser
  <1>11. ASSUME UNCHANGED <<users, gone>>, ~(revived \subseteq revived')  PROVE FALSE
    <2>1. \/ \E k \in Ids : Restore(k)
          \/ \E e \in Erasures : Schedule(e)
      BY <1>11 DEF Next, CreateUser, Login, LoginRefused, Act, Begin, BeginSelf, FindScript, Handle, FindSelf,
             ScheduleRefused, Answer, Finish, Finalize, Fail, SweepAnonymise, SweepDelete,
             SweepFail, BootRead, BootInsert, BootFail, BootUpdate, Tick
    <2>2. ASSUME NEW k \in Ids, Restore(k)  PROVE FALSE
      BY <1>11, <2>2, RestoreEffect DEF Restore, Pending
    <2>3. ASSUME NEW e \in Erasures, Schedule(e)  PROVE FALSE
      BY <1>11, <2>3, ScheduleEffect DEF Pending, Accounts
    <2> QED
      BY <2>1, <2>2, <2>3
  <1> HIDE DEF Kept
  <1> QED
    BY TableSteps, <1>1, <1>4, <1>5, <1>6, <1>7, <1>8, <1>9, <1>10, <1>11 DEF Kept

\* An account is given a token, or is the one a call is about to be answered to, only
\* if it was so before or is active.
LEMMA ActiveSteps ==
    ASSUME TypeOK, Next, NEW i \in Ids, i \notin Accounts \/ ~users[i].active
    PROVE  /\ token'[i] <= token[i]
           /\ \A e \in Erasures : by'[e] = i /\ pc'[e] \in InFlight
                                   => by[e] = i /\ pc[e] \in InFlight
  <1> DEFINE Calls == \A e \in Erasures : by'[e] = i /\ pc'[e] \in InFlight
                                        => by[e] = i /\ pc[e] \in InFlight
  <1> USE Types DEF TypeOK, time, erasures
  <1>1. token'[i] <= token[i]
    <2>1. ASSUME NEW j \in Ids, Login(j)  PROVE token'[i] <= token[i]
      BY <2>1 DEF Login
    <2>2. CASE Tick
      BY <2>2 DEF Tick
    <2>3. CASE UNCHANGED token
      BY <2>3
    <2>4. UNCHANGED token \/ Tick \/ \E j \in Ids : Login(j)
      BY DEF Next, CreateUser, LoginRefused, Act, Restore, Begin, BeginSelf, FindScript, Handle, FindSelf,
             Schedule, ScheduleRefused, Answer, Finish, Finalize, Fail, SweepAnonymise,
             SweepDelete, SweepFail, BootRead, BootInsert, BootFail, BootUpdate
    <2> QED
      BY <2>1, <2>2, <2>3, <2>4
  <1>2. Calls
    <2> USE DEF InFlight
    <2>1. ASSUME NEW e \in Erasures, NEW j \in Ids, BeginSelf(e, j)  PROVE Calls
      BY <2>1 DEF BeginSelf, Goto
    <2>2. ASSUME NEW e \in Erasures, End(e)  PROVE Calls
      BY <2>2 DEF End, Goto
    <2>3. ASSUME NEW e \in Erasures, NEW l \in InFlight, Goto(e, l), UNCHANGED by  PROVE Calls
      BY <2>3 DEF Goto
    <2>4. ASSUME NEW e \in Erasures, NEW a \in Emails, FindScript(e, a)  PROVE Calls
      BY <2>2, <2>3, <2>4 DEF FindScript, Lookup
    <2>5. ASSUME NEW e \in Erasures, Handle(e)  PROVE Calls
      BY <2>2, <2>3, <2>5 DEF Handle, FindSelf, Lookup, Schedule, ScheduleRefused, Answer,
             Finish, Finalize, Fail
    <2>6. CASE UNCHANGED <<pc, by>>
      BY <2>6
    <2> HIDE DEF Calls
    <2>7. \/ UNCHANGED <<pc, by>>
          \/ \E e \in Erasures : Begin(e) \/ Handle(e)
      BY DEF Next, CreateUser, Login, LoginRefused, Act, Restore, SweepAnonymise, SweepDelete, SweepFail,
             BootRead, BootInsert, BootFail, BootUpdate, Tick
    <2> QED
      BY <2>1, <2>4, <2>5, <2>6, <2>7 DEF Begin
  <1> QED
    BY <1>1, <1>2

LEMMA PendingQuietStep ==
    ASSUME Inv, Next
    PROVE  PendingQuiet'
  <1> DEFINE Quiet(i) ==
        /\ ~users[i].active
        /\ token[i] <= users[i].requested + AccessTtl
        /\ \A e \in Erasures : by[e] = i /\ pc[e] \in InFlight =>
              /\ clock <= users[i].requested + 1
              /\ e \notin late => clock <= users[i].requested
  <1> SUFFICES ASSUME NEW i \in Pending' \ revived'  PROVE Quiet(i)'
    BY DEF PendingQuiet
  <1>0. TypeOK /\ i \in Ids /\ Accounts \subseteq Ids /\ clock \in Nat /\ token[i] \in Nat
    <2>1. TypeOK /\ TypeOK' /\ i \in Accounts'
      BY TypeStep DEF Inv, Pending
    <2> QED
      BY <2>1 DEF TypeOK
  <1>1. ASSUME /\ i \in Pending \ revived
               /\ users'[i].active = users[i].active
               /\ users'[i].requested = users[i].requested
        PROVE  Quiet(i)'
    <2>1. Quiet(i) /\ users[i].requested \in Nat
      BY <1>0, <1>1, Types DEF Inv, PendingQuiet, Pending
    <2>2. /\ token'[i] <= token[i]
          /\ \A e \in Erasures : by'[e] = i /\ pc'[e] \in InFlight => by[e] = i /\ pc[e] \in InFlight
      BY <1>0, <2>1, ActiveSteps
    <2>3. token'[i] \in Nat
      BY <1>0, TypeStep DEF Inv, TypeOK
    <2>4. token'[i] <= users'[i].requested + AccessTtl
      BY <1>0, <1>1, <2>1, <2>2, <2>3
    <2>5. ASSUME NEW e \in Erasures, by'[e] = i, pc'[e] \in InFlight
          PROVE  /\ clock' <= users'[i].requested + 1
                 /\ e \notin late' => clock' <= users'[i].requested
      <3>1. by[e] = i /\ pc[e] \in InFlight
        BY <2>2, <2>5
      <3>2. CASE UNCHANGED time
        BY <1>1, <2>1, <3>1, <3>2 DEF time
      <3>3. CASE Tick
        <4>1. e \notin late /\ e \in late' /\ clock' = clock + 1
          BY <3>1, <3>3 DEF Tick
        <4>2. clock <= users[i].requested
          BY <2>1, <3>1, <4>1
        <4> QED
          BY <1>0, <1>1, <2>1, <4>1, <4>2
      <3> QED
        BY <3>2, <3>3, TimeSteps
    <2> QED
      BY <1>1, <2>1, <2>4, <2>5
  <1>2. ASSUME NEW e \in Erasures, Schedule(e), found[e] = i  PROVE Quiet(i)'
    <2>1. users'[i].active = FALSE /\ users'[i].requested = clock
      BY <1>0, <1>2, ScheduleEffect
    <2>2. UNCHANGED <<clock, token>>
      BY <1>2 DEF Schedule, time
    <2>3. token[i] <= clock + AccessTtl
      BY <1>0 DEF Inv, Dated
    <2> QED
      BY <1>0, <2>1, <2>2, <2>3
  <1> HIDE DEF Quiet
  <1> QED
    BY <1>1, <1>2, PendingSteps

LEMMA DueHiddenStep ==
    ASSUME Inv, Next
    PROVE  DueHidden'
  <1> SUFFICES ASSUME NEW s \in Sweeps, at'[s] # 0, NEW i \in Expired(at[s])' \ revived'
               PROVE  i \in hidden'[s]
    BY DEF DueHidden
  <1>0. /\ TypeOK /\ TypeOK' /\ clock \in Nat /\ at[s] \in Nat /\ at'[s] \in Nat
        /\ at[s] <= clock
    BY TypeStep DEF Inv, TypeOK, Dated
  <1>1. /\ i \in Pending' \ revived' /\ users'[i].requested + Grace < at'[s]
        /\ users'[i].requested \in Nat /\ i \in Ids
    BY <1>0 DEF Expired, Pending, TypeOK, Row
  <1>2. at'[s] <= clock
    <2>1. CASE UNCHANGED at
      BY <1>0, <2>1
    <2>2. CASE \E t \in Sweeps : \E n \in {clock, 0} : at' = [at EXCEPT ![t] = n]
      BY <1>0, <2>2 DEF TypeOK
    <2>3. \/ UNCHANGED at
          \/ \E t \in Sweeps : SweepAnonymise(t) \/ SweepDelete(t) \/ SweepFail(t)
      BY DEF Next, CreateUser, Login, LoginRefused, Act, Restore, Begin, BeginSelf, FindScript,
             Handle, FindSelf, Schedule, ScheduleRefused, Answer, Finish, Finalize, Fail,
             BootRead, BootInsert, BootFail, BootUpdate, Tick, sweeps
    <2>4. ASSUME NEW t \in Sweeps, SweepAnonymise(t) \/ SweepDelete(t) \/ SweepFail(t)
          PROVE  \E n \in {clock, 0} : at' = [at EXCEPT ![t] = n]
      BY <2>4 DEF SweepAnonymise, SweepDelete, SweepFail
    <2> QED
      BY <2>1, <2>2, <2>3, <2>4
  <1>3. ASSUME NEW e \in Erasures, Schedule(e), found[e] = i  PROVE FALSE
    <2>1. users'[i].requested = clock
      BY <1>0, <1>3, ScheduleEffect
    <2> QED
      BY <1>0, <1>1, <1>2, <2>1
  <1>4. /\ i \in Pending \ revived
        /\ users'[i].requested = users[i].requested
    BY <1>1, <1>3, PendingSteps
  <1>5. i \in Expired(clock) \ revived /\ i \in Expired(at'[s])
    BY <1>0, <1>1, <1>2, <1>4 DEF Expired
  <1>6. Silent(i)
    BY <1>0, <1>1, <1>5, OverdueQuiet, QuietStays
  <1>7. CASE at'[s] = clock /\ hidden'[s] = Expired(clock)
    BY <1>5, <1>7
  <1>8. CASE at'[s] = at[s] /\ (i \in hidden[s] => i \in hidden'[s])
    BY <1>4, <1>5, <1>8 DEF Inv, DueHidden
  <1> QED
    BY <1>6, <1>7, <1>8 DEF Silent

LEMMA SweptQuietStep ==
    ASSUME Inv, Next
    PROVE  SweptQuiet'
  <1> SUFFICES ASSUME NEW i \in swept' \ revived'
               PROVE  /\ i \notin named'
                      /\ token'[i] < clock'
                      /\ \A e \in Erasures : by'[e] = i => pc'[e] \notin InFlight
    BY DEF SweptQuiet
  <1>0. /\ TypeOK /\ TypeOK' /\ i \in Ids /\ clock \in Nat /\ clock' \in Nat
        /\ token[i] \in Nat /\ token'[i] \in Nat
    <2>1. TypeOK /\ TypeOK'
      BY TypeStep DEF Inv
    <2> QED
      BY <2>1 DEF TypeOK
  <1>1. clock' >= clock
    BY <1>0, TimeSteps DEF time, Tick
  <1>2. CASE i \in swept
    <2>1. i \notin revived
      <3>1. i \notin Accounts
        BY <1>2 DEF Inv, TypeOK, GoneForGood
      <3>2. ASSUME i \in revived  PROVE FALSE
        <4>1. \/ \E k \in Ids : Restore(k) /\ k = i
              \/ \E e \in Erasures : Schedule(e) /\ found[e] = i
          BY <3>2 DEF Next, CreateUser, Login, LoginRefused, Act, Restore, Begin, BeginSelf, FindScript,
                 Handle, FindSelf, Schedule, ScheduleRefused, Answer, Finish, Finalize, Fail,
                 SweepAnonymise, SweepDelete, SweepFail, BootRead, BootInsert, BootFail,
                 BootUpdate, Tick, history
        <4> QED
          BY <3>1, <4>1 DEF Restore, Schedule, Schedulable, Pending
      <3> QED
        BY <3>2
    <2>2. i \notin Accounts
      BY <1>2 DEF Inv, TypeOK, GoneForGood
    <2>3. /\ i \notin named /\ token[i] < clock
          /\ \A e \in Erasures : by[e] = i => pc[e] \notin InFlight
      BY <1>2, <2>1 DEF Inv, SweptQuiet
    <2>4. ~MayWrite(i)
      BY <1>0, <2>2, <2>3 DEF MayWrite
    <2>5. Silent(i)
      BY <1>0, <2>4, QuietStays
    <2> QED
      BY <1>0, <1>1, <2>3, <2>5 DEF Silent
  <1>3. CASE i \notin swept
    <2>1. PICK s \in Sweeps : SweepDelete(s)
      BY <1>3 DEF Next, CreateUser, Login, LoginRefused, Act, Restore, Begin, BeginSelf, FindScript, Handle,
             FindSelf, Schedule, ScheduleRefused, Answer, Finish, Finalize, Fail,
             SweepAnonymise, SweepFail, BootRead, BootInsert, BootFail, BootUpdate, Tick, history
    <2>2. i \in Expired(at[s]) \ revived /\ at[s] # 0
      BY <1>3, <2>1 DEF SweepDelete, Due
    <2>3. i \in hidden[s] /\ named' = named \ hidden[s]
      BY <2>1, <2>2 DEF Inv, DueHidden, SweepDelete
    <2>4. i \in Expired(clock)
      <3>1. at[s] \in Nat /\ at[s] <= clock /\ i \in Pending /\ users[i].requested \in Nat
        BY <1>0, <2>2, Types DEF Inv, Dated, TypeOK, Expired, Pending
      <3> QED
        BY <1>0, <2>2, <3>1 DEF Expired
    <2>5. ~MayWrite(i)
      BY <2>2, <2>4, OverdueQuiet
    <2>6. Silent(i) /\ token[i] < clock
      BY <1>0, <2>5, QuietStays DEF MayWrite
    <2> QED
      BY <1>0, <1>1, <2>3, <2>6 DEF Silent
  <1> QED
    BY <1>2, <1>3

LEMMA InvStep == Inv /\ [Next]_vars => Inv'
  <1> SUFFICES ASSUME Inv, [Next]_vars  PROVE Inv'
    OBVIOUS
  <1>1. CASE Next
    <2>1. TypeOK'
      BY TypeStep DEF Inv
    <2> QED
      BY <1>1, <2>1, GoneStep, DatedStep, PendingQuietStep, DueHiddenStep, SweptQuietStep DEF Inv
  <1>2. CASE UNCHANGED vars
    <2>1. TypeOK'
      BY TypeStep DEF Inv
    <2> QED
      BY <1>2, <2>1 DEF Inv, Dated, PendingQuiet, DueHidden, SweptQuiet, GoneForGood, Accounts,
         Pending, Expired, vars, time, erasures, sweeps, history, log
  <1> QED
    BY <1>1, <1>2

LEMMA Invariance == Spec => []Inv
  BY InvInit, InvStep, PTL DEF Spec

-----------------------------------------------------------------------------
(* The theorems.                                                           *)

\* SweptIsNoActor: no audit row has an account the housekeeping deleted as its actor,
\* unless a boot made it active on its way to deletion.
THEOREM NoActor == Spec => []SweptIsNoActor
  <1>1. Inv => SweptIsNoActor
    BY DEF Inv, SweptQuiet, SweptIsNoActor
  <1> QED
    BY <1>1, Invariance, PTL

\* RestoredKeepsGrace: the housekeeping deletes no account within the grace of its last
\* restoration.
THEOREM RestoredSafe == Spec => RestoredKeepsGrace
  <1> DEFINE Kept == \A i \in swept' \ swept : restored[i] = 0 \/ restored[i] + Grace < clock
  <1>1. Inv /\ [Next]_vars => [Kept]_vars
    <2> SUFFICES ASSUME Inv, Next, NEW i \in swept' \ swept
                 PROVE  restored[i] + Grace < clock
      OBVIOUS
    <2>1. PICK s \in Sweeps : SweepDelete(s)
      BY DEF Next, CreateUser, Login, LoginRefused, Act, Restore, Begin, BeginSelf, FindScript, Handle,
             FindSelf, Schedule, ScheduleRefused, Answer, Finish, Finalize, Fail,
             SweepAnonymise, SweepFail, BootRead, BootInsert, BootFail, BootUpdate, Tick, history
    <2>2. i \in Pending /\ users[i].requested + Grace < at[s]
      BY <2>1 DEF SweepDelete, Due, Expired
    <2>3. restored[i] <= users[i].requested /\ at[s] <= clock
      BY <2>2 DEF Inv, Dated
    <2>4. /\ i \in Ids /\ users[i].requested \in Nat /\ restored[i] \in Nat
          /\ at[s] \in Nat /\ clock \in Nat
      BY <2>2, Types DEF Inv, TypeOK, Pending
    <2> QED
      BY <2>2, <2>3, <2>4
  <1> QED
    BY <1>1, Invariance, PTL DEF Spec, RestoredKeepsGrace

\* DeadlineNeverMoves: only a restoration changes the date of a scheduled deletion.
THEOREM DeadlineKept == Spec => DeadlineNeverMoves
  <1> DEFINE Kept == \A i \in DOMAIN users \cap DOMAIN users' :
                users[i].requested # 0 => users'[i].requested \in {0, users[i].requested}
  <1>1. TypeOK /\ [Next]_vars => [Kept]_vars
    <2> SUFFICES ASSUME TypeOK, Next, NEW i \in Accounts, i \in Accounts', users[i].requested # 0
                 PROVE  users'[i].requested \in {0, users[i].requested}
      BY DEF Accounts
    <2>1. CASE users' = users
      BY <2>1
    <2>2. ASSUME NEW e \in Emails, NEW a \in BOOLEAN, Insert(e, a)
          PROVE  users'[i] = users[i]
      BY <2>2, InsertEffect
    <2>3. ASSUME NEW S \in SUBSET Accounts, Delete(S)  PROVE users'[i] = users[i]
      BY <2>3, DeleteEffect
    <2>4. ASSUME NEW k \in Ids, Restore(k)  PROVE users'[i].requested \in {0, users[i].requested}
      BY <2>4, RestoreEffect
    <2>5. ASSUME NEW e \in Erasures, Schedule(e)  PROVE users'[i] = users[i]
      <3>1. i # found[e]
        BY <2>5, ScheduleEffect DEF Pending
      <3> QED
        BY <2>5, <3>1, ScheduleEffect
    <2>6. CASE BootUpdate
      BY <2>6, BootUpdateEffect
    <2>7. ASSUME NEW e \in Erasures, Finalize(e)  PROVE users'[i] = users[i]
      BY <2>3, <2>7, ExpiredPending DEF Finalize
    <2>8. ASSUME NEW s \in Sweeps, SweepDelete(s)  PROVE users'[i] = users[i]
      BY <2>3, <2>8, ExpiredPending DEF SweepDelete, Due
    <2>9. CASE BootInsert
      BY <2>2, <2>9 DEF BootInsert
    <2>10. ASSUME NEW e \in Emails, NEW a \in BOOLEAN, CreateUser(e, a)  PROVE users'[i] = users[i]
      BY <2>2, <2>10 DEF CreateUser
    <2> QED
      BY TableSteps, <2>1, <2>4, <2>5, <2>6, <2>7, <2>8, <2>9, <2>10
  <1>2. TypeOK /\ [Next]_vars => TypeOK'
    BY TypeStep
  <1> QED
    BY <1>1, <1>2, TypeInit, PTL DEF Spec, DeadlineNeverMoves
=============================================================================
