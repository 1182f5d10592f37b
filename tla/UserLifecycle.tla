--------------------------- MODULE UserLifecycle ---------------------------
(***************************************************************************)
(* The accounts of the table users: created by an administrator, erased by *)
(* their owner (DELETE /me) or an operator (scripts/erase-subject.sh),     *)
(* restored by a DBA, deleted by factorymind_housekeeping() (migration     *)
(* 005) once their grace has passed, and activated at boot by ensureAdmin. *)
(*                                                                         *)
(* One unit of time is longer than an erasure call takes, which may span   *)
(* one Tick and not two; the housekeeping transaction may span any number. *)
(* A row of audit_log tells of an account as its actor (actor_user_id), or *)
(* by its id or address in resource_id or in actor_email; payloads, the    *)
(* purge of rows older than 13 months, the seed account and the refresh    *)
(* tokens (AuthSessions) are not part of this module.                      *)
(***************************************************************************)
EXTENDS Naturals

CONSTANTS Ids,        \* the values gen_random_uuid() may take
          Emails,     \* addresses as they are written
          Lower,      \* LOWER() of each of them
          Admin,      \* FM_ADMIN_EMAIL, in lower case
          Erasures,   \* calls of eraseSubject()
          Sweeps,     \* replicas that run the housekeeping
          None,
          Grace,      \* ERASURE_GRACE_DAYS
          AccessTtl,  \* accessTokenTtl
          MaxClock    \* time at which the model's clock stops

ASSUME EmailAssumption == Lower \in [Emails -> Emails] /\ Admin \in Emails /\ Lower[Admin] = Admin
\* 15 minutes, and a call, are less than 30 days.
ASSUME TimeAssumption  == Grace \in Nat /\ AccessTtl \in Nat /\ MaxClock \in Nat
                          /\ AccessTtl + 1 <= Grace
ASSUME NoneAssumption  == None \notin Ids /\ Ids \cap {"idle", "insert"} = {}

VARIABLES clock,
          late,      \* the erasures that were under way at the last Tick
          users,     \* the table, by id
          token,     \* when the access token of each id expires, 0 if none is valid
          named,     \* the ids in actor_user_id of audit_log
          mentioned, \* the ids it mentions elsewhere: in resource_id, in an actor_email alone
          pc,        \* where each erasure is
          by,        \* who asked for it: an account, or None for the operator
          email,     \* whom findUserByEmail() looks for
          found,     \* what it found
          at,        \* NOW() of each housekeeping transaction, 0 outside of one
          hidden,    \* the ids that will be the actor of no audit row if it commits
          boot,      \* what ensureAdmin() read: an id, or a state
          gone,      \* the ids that were deleted: they are not drawn again
          restored, swept, revived   \* history, see below

time     == <<clock, late>>
erasures == <<pc, by, email, found>>
sweeps   == <<at, hidden>>
\* When each id was last restored; the ids the housekeeping deleted; those a boot made
\* active while they were to be erased.
history  == <<restored, swept, revived>>
log      == <<named, mentioned>>
vars     == <<time, users, gone, token, log, erasures, sweeps, boot, history>>

InFlight == {"find", "schedule", "scheduled"}

\* requested is deletion_requested_at, 0 for NULL.
Row == [email : Emails, active : BOOLEAN, requested : Nat]

Init ==
    /\ clock = 1 /\ late = {}
    /\ users = [i \in {} |-> {}] /\ gone = {}
    /\ token = [i \in Ids |-> 0]
    /\ named = {} /\ mentioned = {}
    /\ pc = [e \in Erasures |-> "idle"]
    /\ by = [e \in Erasures |-> None]
    /\ email = [e \in Erasures |-> Admin]
    /\ found = [e \in Erasures |-> None]
    /\ at = [s \in Sweeps |-> 0] /\ hidden = [s \in Sweeps |-> {}]
    /\ boot = "idle"
    /\ restored = [i \in Ids |-> 0] /\ swept = {} /\ revived = {}

-----------------------------------------------------------------------------
(* The tables.                                                             *)

Accounts == DOMAIN users
Pending  == {i \in Accounts : users[i].requested # 0}

\* deletion_requested_at < t - INTERVAL '30 days'
Expired(t) == {i \in Pending : users[i].requested + Grace < t}

\* WHERE LOWER(email) = LOWER(e), although only email itself is UNIQUE.
Matching(e) == {i \in Accounts : Lower[users[i].email] = Lower[e]}

\* INSERT INTO users; an id that was used is not drawn again.
Insert(e, active) ==
    /\ e \notin {users[i].email : i \in Accounts}
    /\ \E i \in Ids \ (Accounts \cup gone) :
          /\ users' = [j \in Accounts \cup {i} |->
                IF j = i THEN [email |-> e, active |-> active, requested |-> 0] ELSE users[j]]

Delete(S) == /\ users' = [i \in Accounts \ S |-> users[i]]
             /\ gone' = gone \cup S

\* A row of audit_log with i as its actor. It comes after any statement that hid the others.
Record(i) == /\ named' = named \cup {i}
             /\ hidden' = [s \in Sweeps |-> hidden[s] \ {i}]

\* A row with the id or the address of i in resource_id, or its address in actor_email
Mention(i) == mentioned' = mentioned \cup {i}

-----------------------------------------------------------------------------
(* The life of an account outside of its erasure.                          *)

\* POST /api/users.
CreateUser(e, active) ==
    /\ Insert(e, active)
    /\ UNCHANGED <<time, gone, token, log, erasures, sweeps, boot, history>>

\* POST /login, or a refresh: both look at active.
Login(i) ==
    /\ i \in Accounts /\ users[i].active
    /\ token' = [token EXCEPT ![i] = clock + AccessTtl]
    /\ Record(i) /\ Mention(i)
    /\ UNCHANGED <<time, users, gone, erasures, at, boot, history>>

\* A login that is refused: a wrong password is recorded with the id and the address, a
\* locked or inactive account with the address alone.
LoginRefused(i) ==
    /\ i \in Accounts
    /\ Mention(i)
    /\ \/ users[i].active /\ Record(i)
       \/ UNCHANGED <<named, hidden>>
    /\ UNCHANGED <<time, users, gone, token, erasures, at, boot, history>>

\* A request that changes something: requireAuth() checks the token and not the account.
Act(i) ==
    /\ clock <= token[i]
    /\ Record(i)
    /\ UNCHANGED <<time, users, gone, token, mentioned, erasures, at, boot, history>>

\* The DBA reverses an erasure within its grace.
Restore(i) ==
    /\ i \in Pending
    /\ users' = [users EXCEPT ![i].active = TRUE, ![i].requested = 0]
    /\ restored' = [restored EXCEPT ![i] = clock]
    /\ revived' = revived \ {i}
    /\ UNCHANGED <<time, gone, token, log, erasures, sweeps, boot, swept>>

-----------------------------------------------------------------------------
(* eraseSubject() and its two callers.                                     *)

Goto(e, l) == pc' = [pc EXCEPT ![e] = l]

\* The call returns or throws, and its locals are gone.
End(e) == /\ Goto(e, "done")
          /\ by' = [by EXCEPT ![e] = None]
          /\ email' = [email EXCEPT ![e] = Admin]
          /\ found' = [found EXCEPT ![e] = None]

\* DELETE /me: the password of account i was confirmed.
BeginSelf(e, i) ==
    /\ pc[e] = "idle"
    /\ i \in Accounts /\ users[i].active /\ clock <= token[i]
    /\ by' = [by EXCEPT ![e] = i]
    /\ email' = [email EXCEPT ![e] = users[i].email]
    /\ Goto(e, "find")
    /\ UNCHANGED <<time, users, gone, token, log, found, sweeps, boot, history>>

\* Variant: the account is taken as found, whatever the SELECT returned.
LookupUnchecked(e, a) ==
    /\ found' = [found EXCEPT ![e] = IF Matching(a) = {} THEN None
                                     ELSE CHOOSE i \in Matching(a) : TRUE]
    /\ email' = [email EXCEPT ![e] = Admin]
    /\ Goto(e, "schedule")
    /\ UNCHANGED by

\* findUserByEmail(): rows[0] of the accounts that match, in no order the query names,
\* unless it is none (SUBJECT_NOT_FOUND) or one to be erased (ALREADY_ERASED).
Lookup(e, a) ==
    \/ /\ Matching(a) = {} \/ Matching(a) \cap Pending # {}
       /\ End(e)
    \/ /\ \E i \in Matching(a) \ Pending : found' = [found EXCEPT ![e] = i]
       /\ email' = [email EXCEPT ![e] = Admin]
       /\ Goto(e, "schedule")
       /\ UNCHANGED by

\* erase-subject.sh --email a
FindScript(e, a) ==
    /\ pc[e] = "idle"
    /\ Lookup(e, a)
    /\ UNCHANGED <<time, users, gone, token, log, sweeps, boot, history>>

FindSelf(e) ==
    /\ pc[e] = "find"
    /\ Lookup(e, email[e])
    /\ UNCHANGED <<time, users, gone, token, log, sweeps, boot, history>>

\* Variant: WHERE id = $1, without AND deletion_requested_at IS NULL.
SchedulableTwice(i) == i \in Accounts

Schedulable(i) == i \in Accounts \ Pending

\* The transaction: UPDATE users, INSERT INTO audit_log, COMMIT.
Schedule(e) ==
    /\ pc[e] = "schedule"
    /\ Schedulable(found[e])
    /\ users' = [users EXCEPT ![found[e]].active = FALSE, ![found[e]].requested = clock]
    /\ revived' = revived \ {found[e]}
    /\ Record(found[e]) /\ Mention(found[e])
    /\ Goto(e, "scheduled")
    /\ UNCHANGED <<time, gone, token, by, email, found, at, boot, restored, swept>>

\* rowCount = 0: ROLLBACK.
ScheduleRefused(e) ==
    /\ pc[e] = "schedule"
    /\ ~Schedulable(found[e])
    /\ End(e)
    /\ UNCHANGED <<time, users, gone, token, log, sweeps, boot, history>>

\* recordAuthEvent() of DELETE /me.
Answer(e) ==
    /\ pc[e] = "scheduled" /\ by[e] # None
    /\ Record(by[e]) /\ Mention(by[e])
    /\ End(e)
    /\ UNCHANGED <<time, users, gone, token, at, boot, history>>

\* The script without --finalize ...
Finish(e) ==
    /\ pc[e] = "scheduled" /\ by[e] = None
    /\ End(e)
    /\ UNCHANGED <<time, users, gone, token, log, sweeps, boot, history>>

\* ... and with it: finalizeErasures({ now: in 31 days }), past the grace of every
\* account pending today.
Finalize(e) ==
    /\ pc[e] = "scheduled" /\ by[e] = None
    /\ Delete(Expired(clock + Grace + 1))
    /\ End(e)
    /\ UNCHANGED <<time, token, log, sweeps, boot, history>>

\* A statement fails, or the process dies.
Fail(e) ==
    /\ pc[e] \in InFlight
    /\ End(e)
    /\ UNCHANGED <<time, users, gone, token, log, sweeps, boot, history>>

-----------------------------------------------------------------------------
(* factorymind_housekeeping(): one transaction, NOW() is when it began.    *)

\* Variant: the timer is not set up again.
SweepOnce(s) ==
    /\ clock = 1
    /\ at[s] = 0
    /\ at' = [at EXCEPT ![s] = clock]
    /\ hidden' = [hidden EXCEPT ![s] = Expired(clock)]
    /\ UNCHANGED <<time, users, gone, token, log, erasures, boot, history>>

\* UPDATE audit_log, which waits for another transaction's update of the same rows.
SweepAnonymise(s) ==
    /\ at[s] = 0
    /\ \A r \in Sweeps : hidden[r] \cap Expired(clock) = {}
    /\ at' = [at EXCEPT ![s] = clock]
    /\ hidden' = [hidden EXCEPT ![s] = Expired(clock)]
    /\ UNCHANGED <<time, users, gone, token, log, erasures, boot, history>>

\* Variant: the accounts whose audit rows were rewritten.
DueAsRead(s) == hidden[s] \cap Accounts

\* Variant: clock_timestamp() in place of NOW().
DueNow(s) == Expired(clock)

\* The DELETE evaluates its own WHERE, with the NOW() of the transaction.
Due(s) == Expired(at[s])

\* DELETE FROM users, and COMMIT.
SweepDelete(s) ==
    /\ at[s] # 0
    /\ Delete(Due(s))
    /\ swept' = swept \cup Due(s)
    /\ named' = named \ hidden[s]
    /\ at' = [at EXCEPT ![s] = 0] /\ hidden' = [hidden EXCEPT ![s] = {}]
    /\ UNCHANGED <<time, token, mentioned, erasures, boot, restored, revived>>

\* runOnce() logs the error and waits for its next turn.
SweepFail(s) ==
    /\ at[s] # 0
    /\ at' = [at EXCEPT ![s] = 0] /\ hidden' = [hidden EXCEPT ![s] = {}]
    /\ UNCHANGED <<time, users, gone, token, log, erasures, boot, history>>

-----------------------------------------------------------------------------
(* ensureAdmin(), at every start.                                          *)

BootRead ==
    /\ boot = "idle"
    /\ IF Matching(Admin) = {} THEN boot' = "insert" ELSE boot' \in Matching(Admin)
    /\ UNCHANGED <<time, users, gone, token, log, erasures, sweeps, history>>

BootInsert ==
    /\ boot = "insert"
    /\ Insert(Admin, TRUE)
    /\ boot' = "idle"
    /\ UNCHANGED <<time, gone, token, log, erasures, sweeps, history>>

\* A unique violation, or an error: the process exits with 10 and is started again.
BootFail ==
    /\ boot # "idle"
    /\ boot' = "idle"
    /\ UNCHANGED <<time, users, gone, token, log, erasures, sweeps, history>>

\* UPDATE ... SET active = TRUE WHERE id = ...: deletion_requested_at stays.
BootUpdate ==
    /\ boot \in Ids
    /\ users' = [i \in Accounts |->
          IF i = boot THEN [users[i] EXCEPT !.active = TRUE] ELSE users[i]]
    /\ revived' = revived \cup (Pending \cap {boot})
    /\ boot' = "idle"
    /\ UNCHANGED <<time, gone, token, log, erasures, sweeps, restored, swept>>

-----------------------------------------------------------------------------

Tick ==
    /\ clock < MaxClock
    /\ \A e \in late : pc[e] \notin InFlight
    /\ clock' = clock + 1
    /\ late' = {e \in Erasures : pc[e] \in InFlight}
    /\ token' = [i \in Ids |-> IF token[i] < clock' THEN 0 ELSE token[i]]
    /\ UNCHANGED <<users, gone, log, erasures, sweeps, boot, history>>

Begin(e) == (\E i \in Ids : BeginSelf(e, i)) \/ (\E a \in Emails : FindScript(e, a))

Handle(e) == \/ FindSelf(e) \/ Schedule(e) \/ ScheduleRefused(e)
             \/ Answer(e) \/ Finish(e) \/ Finalize(e) \/ Fail(e)

Next == \/ \E e \in Emails, a \in BOOLEAN : CreateUser(e, a)
        \/ \E i \in Ids : Login(i) \/ LoginRefused(i) \/ Act(i) \/ Restore(i)
        \/ \E e \in Erasures : Begin(e) \/ Handle(e)
        \/ \E s \in Sweeps : SweepAnonymise(s) \/ SweepDelete(s) \/ SweepFail(s)
        \/ BootRead \/ BootInsert \/ BootFail \/ BootUpdate
        \/ Tick

Spec == Init /\ [][Next]_vars

\* Time passes, handlers end, the timer of the housekeeping comes back, and a run that
\* is attempted again and again succeeds at some point.
Fairness ==
    /\ WF_vars(Tick)
    /\ WF_vars(\E e \in Erasures : Handle(e))
    /\ \A s \in Sweeps : WF_vars(SweepAnonymise(s)) /\ SF_vars(SweepDelete(s))

FairSpec == Spec /\ Fairness

-----------------------------------------------------------------------------
(* Properties.                                                             *)

\* Types: an erasure that is to schedule found an account, one that scheduled it found
\* it too, and addresses are unique as they are written.
TypeOK ==
    /\ clock \in Nat \ {0} /\ late \subseteq Erasures
    /\ Accounts \subseteq Ids /\ users \in [Accounts -> Row]
    /\ token \in [Ids -> Nat]
    /\ named \subseteq Ids /\ mentioned \subseteq Ids
    /\ pc \in [Erasures -> InFlight \cup {"idle", "done"}]
    /\ by \in [Erasures -> Ids \cup {None}]
    /\ email \in [Erasures -> Emails]
    /\ found \in [Erasures -> Ids \cup {None}]
    /\ \A e \in Erasures : /\ pc[e] \in {"schedule", "scheduled"} => found[e] # None
                           /\ pc[e] \notin InFlight => by[e] = None
    /\ at \in [Sweeps -> Nat]
    /\ hidden \in [Sweeps -> SUBSET Ids]
    /\ boot \in {"idle", "insert"} \cup Ids
    /\ restored \in [Ids -> Nat]
    /\ gone \subseteq Ids /\ swept \subseteq gone /\ revived \subseteq Ids
    /\ \A i, j \in Accounts : users[i].email = users[j].email => i = j

\* No row of the audit log has an account the housekeeping deleted as its actor, although
\* access tokens outlive accounts and audit rows are written while it runs - unless a boot
\* made the account active again on its way to deletion.
SweptIsNoActor == \A i \in swept \ revived : i \notin named

\* An account that was restored is not deleted by the housekeeping before the whole
\* grace has passed since, not even by a run that began before the restoration.
RestoredKeepsGrace ==
    [][\A i \in swept' \ swept : restored[i] = 0 \/ restored[i] + Grace < clock]_vars

\* Whoever asks for an erasure a second time, even at once, does not put the deletion
\* off: only a restoration changes the date.
DeadlineNeverMoves ==
    [][\A i \in DOMAIN users \cap DOMAIN users' :
          users[i].requested # 0 => users'[i].requested \in {0, users[i].requested}]_vars

\* An erasure that is not reversed takes effect: the account is gone some time after
\* its grace, whatever runs failed before.
PendingIsErased ==
    \A i \in Ids : (i \in Expired(MaxClock)) ~> (i \notin Pending)

-----------------------------------------------------------------------------
(* What a comment says, and the code does not do.                          *)

\* Migration 005 says that the audit rows stay without their personal references: "rimuovendo
\* i riferimenti personali (email, IP)". None mentions an account the housekeeping deleted.
SweptIsNotMentioned == \A i \in swept \ revived : i \notin mentioned

\* scripts/erase-subject.sh: "--finalize forces an immediate sweep of all expired
\* soft-deletes": nobody else loses the days that are left of their grace.
FinalizesExpiredOnly ==
    [][\A i \in gone' \ gone :
          \/ i \in Expired(clock)
          \/ \E e \in Erasures : found[e] = i /\ pc[e] = "scheduled" /\ pc'[e] = "done"]_vars
=============================================================================
