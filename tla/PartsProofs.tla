------------------------------ MODULE PartsProofs -----------------------------
(* Proofs about AlertRulesCache, Lockout, Tasks and Dashboard, which share    *)
(* nothing, for any calls, edits, time to live, logins, threshold, cap,       *)
(* replicas, boots and checks.                                                *)
EXTENDS AlertRulesCache, Lockout, Tasks, Dashboard, SumsProofs

USE TimeAssumption, LockoutAssumption, BootsAssumption, ChecksAssumption

-----------------------------------------------------------------------------
(* The cache of the rules.                                                 *)

\* A contents was in force at t or later.
InForceSince(v, t) == v = table \/ replaced[v] >= t

\* What a query read was in force since its call started, ...
RowsInForce ==
    \A l \in Loads : pc[l] = "answered" => InForceSince(rows[l], started[l])

\* ... so the cache is as good as its date, if it ever was stored, ...
CacheInForce == rulesCacheTs # 0 => InForceSince(rulesCache, rulesCacheTs)

\* ... and every date is past, those of the edits too.
DatesArePast == /\ rulesCacheTs <= clock
        /\ \A l \in Loads : started[l] <= clock

RulesInv == RulesTypeOK /\ RowsInForce /\ CacheInForce /\ DatesArePast /\ ServedRulesAreRecent

LEMMA RulesInitInv == RulesInit => RulesInv
  BY DEF RulesInit, RulesInv, RulesTypeOK, Contents, RowsInForce, CacheInForce, DatesArePast, ServedRulesAreRecent

LEMMA RulesCallInv ==
    ASSUME RulesInv, NEW l \in Loads, Hit(l) \/ Query(l) \/ Answer(l)
    PROVE  RulesInv'
  <1>1. CASE Hit(l)
    <2>1. rulesCacheTs # 0 /\ rulesCacheTs > clock - Ttl
      BY <1>1 DEF RulesInv, RulesTypeOK, Hit, Fresh
    <2>2. InForceAfter(rulesCache, clock - Ttl)
      BY <2>1 DEF RulesInv, RulesTypeOK, CacheInForce, InForceSince, InForceAfter
    <2> QED
      BY <1>1, <2>2 DEF RulesInv, RulesTypeOK, RowsInForce, CacheInForce, DatesArePast,
         ServedRulesAreRecent, InForceSince, InForceAfter, Hit, Return, db, cache
  <1>2. CASE Query(l)
    BY <1>2 DEF RulesInv, RulesTypeOK, RowsInForce, CacheInForce, DatesArePast, ServedRulesAreRecent,
                InForceSince, InForceAfter, Query, db, cache
  <1>3. CASE Answer(l)
    BY <1>3 DEF RulesInv, RulesTypeOK, RowsInForce, CacheInForce, DatesArePast, ServedRulesAreRecent,
                InForceSince, InForceAfter, Answer, db, cache
  <1> QED
    BY <1>1, <1>2, <1>3

LEMMA RulesReturnInv ==
    ASSUME RulesInv, NEW l \in Loads, Store(l) \/ Fail(l)
    PROVE  RulesInv'
  <1>1. CASE Store(l)
    BY <1>1 DEF RulesInv, RulesTypeOK, RowsInForce, CacheInForce, DatesArePast, ServedRulesAreRecent,
                InForceSince, InForceAfter, Store, Return, db, cache
  <1>2. CASE Fail(l)
    BY <1>2 DEF RulesInv, RulesTypeOK, RowsInForce, CacheInForce, DatesArePast, ServedRulesAreRecent,
                InForceSince, InForceAfter, Fail, Return, db, cache
  <1> QED
    BY <1>1, <1>2

LEMMA RulesOutsideInv ==
    ASSUME RulesInv, EditRules \/ Tick \/ UNCHANGED rulesVars
    PROVE  RulesInv'
  <1>1. CASE EditRules
    <2>1. RulesTypeOK' /\ DatesArePast'
      BY <1>1 DEF RulesInv, RulesTypeOK, Contents, DatesArePast, EditRules, cache, calls
    <2>2. \A v \in Contents, t \in Int :
             /\ t <= clock /\ InForceSince(v, t) => InForceSince(v, t)'
             /\ t < clock /\ InForceAfter(v, t) => InForceAfter(v, t)'
      BY <1>1 DEF RulesInv, RulesTypeOK, Contents, InForceSince, InForceAfter, EditRules
    <2>3. (RowsInForce /\ CacheInForce)'
      BY <1>1, <2>2 DEF RulesInv, RulesTypeOK, RowsInForce, CacheInForce, DatesArePast, EditRules, cache, calls
    <2>4. ServedRulesAreRecent'
      BY <1>1, <2>2 DEF RulesInv, RulesTypeOK, DatesArePast, ServedRulesAreRecent, EditRules, cache, calls
    <2> QED
      BY <2>1, <2>3, <2>4 DEF RulesInv
  <1>2. CASE Tick \/ UNCHANGED rulesVars
    BY <1>2 DEF RulesInv, RulesTypeOK, RowsInForce, CacheInForce, DatesArePast, ServedRulesAreRecent,
                InForceSince, InForceAfter, Tick, rulesVars, db, cache, calls
  <1> QED
    BY <1>1, <1>2

\* An evaluation whose load does not fail works with rules that were in force less
\* than RULES_CACHE_TTL_MS before it asked.
THEOREM Recent == RulesSpec => []ServedRulesAreRecent
  <1>1. RulesInv /\ [RulesNext]_rulesVars => RulesInv'
    BY RulesCallInv, RulesReturnInv, RulesOutsideInv DEF RulesNext, Load
  <1>2. RulesInv => ServedRulesAreRecent
    BY DEF RulesInv
  <1> QED
    BY <1>1, <1>2, RulesInitInv, PTL DEF RulesSpec

-----------------------------------------------------------------------------
(* The lock of an account.                                                 *)

\* The powers computeLockoutSeconds() takes: MAX_EXPONENT caps them.
LEMMA Powers == \A n \in 1 .. MAX_EXPONENT : 2 ^ n \in Nat /\ 2 ^ n >= 2
  <1> DEFINE Large(n) == 2 ^ n \in Nat /\ 2 ^ n >= 2
  <1>1. /\ Large(1) /\ Large(2) /\ Large(3) /\ Large(4) /\ Large(5)
        /\ Large(6) /\ Large(7) /\ Large(8) /\ Large(9) /\ Large(10)
    BY SMT
  <1>2. /\ Large(11) /\ Large(12) /\ Large(13) /\ Large(14) /\ Large(15)
        /\ Large(16) /\ Large(17) /\ Large(18) /\ Large(19) /\ Large(20)
    BY SMT
  <1>3. ASSUME NEW n \in 1 .. 20
        PROVE  \/ n = 1 \/ n = 2 \/ n = 3 \/ n = 4 \/ n = 5 \/ n = 6 \/ n = 7 \/ n = 8
               \/ n = 9 \/ n = 10 \/ n = 11 \/ n = 12 \/ n = 13 \/ n = 14 \/ n = 15
               \/ n = 16 \/ n = 17 \/ n = 18 \/ n = 19 \/ n = 20
    BY <1>3
  <1> HIDE DEF Large
  <1>4. \A n \in 1 .. 20 : Large(n)
    BY <1>1, <1>2, <1>3, Zenon
  <1> QED
    BY <1>4 DEF Large, MAX_EXPONENT

\* A lock lasts two seconds at least.
LEMMA LockLasts ==
    ASSUME NEW failures \in Nat, failures > Threshold
    PROVE  computeLockoutSeconds(failures) \in Nat /\ computeLockoutSeconds(failures) >= 2
  <1> DEFINE exponent == Min({failures - Threshold, MAX_EXPONENT})
  <1>1. exponent \in 1 .. MAX_EXPONENT
    BY MinOfTwo DEF MAX_EXPONENT
  <1>2. 2 ^ exponent \in Nat /\ 2 ^ exponent >= 2
    BY <1>1, Powers
  <1>3. computeLockoutSeconds(failures) = Min({2 ^ exponent, CapSeconds})
    BY DEF computeLockoutSeconds
  <1> HIDE DEF exponent
  <1> QED
    BY <1>2, <1>3, MinOfTwo

\* The powers grow.
LEMMA PowersGrow ==
    \A m, n \in 1 .. MAX_EXPONENT : m <= n => 2 ^ m <= 2 ^ n
  <1> DEFINE Power(n) == 2 ^ n
  <1>1. \A n \in 1 .. 20 : Power(n) \in Int
    BY Powers DEF MAX_EXPONENT
  <1>2. /\ Power(1) <= Power(2) /\ Power(2) <= Power(3) /\ Power(3) <= Power(4)
        /\ Power(4) <= Power(5) /\ Power(5) <= Power(6) /\ Power(6) <= Power(7)
        /\ Power(7) <= Power(8) /\ Power(8) <= Power(9) /\ Power(9) <= Power(10)
        /\ Power(10) <= Power(11) /\ Power(11) <= Power(12) /\ Power(12) <= Power(13)
    BY SMT
  <1>3. /\ Power(13) <= Power(14) /\ Power(14) <= Power(15) /\ Power(15) <= Power(16)
        /\ Power(16) <= Power(17) /\ Power(17) <= Power(18) /\ Power(18) <= Power(19)
        /\ Power(19) <= Power(20)
    BY SMT
  <1> HIDE DEF Power
  <1>4. \A n \in 1 .. 20 : n < 20 => Power(n) <= Power(n + 1)
    BY <1>2, <1>3
  <1>5. ASSUME NEW m \in 1 .. 20
        PROVE  \A n \in 1 .. 20 : m <= n => Power(m) <= Power(n)
    <2> DEFINE reached == {n \in Nat : n <= 20 /\ m <= n => Power(m) <= Power(n)}
    <2>1. 0 \in reached
      OBVIOUS
    <2>2. \A n \in Nat : n \in reached => n + 1 \in reached
      <3> SUFFICES ASSUME NEW n \in Nat, n \in reached, n + 1 <= 20, m <= n + 1
                   PROVE  Power(m) <= Power(n + 1)
        OBVIOUS
      <3>1. CASE m = n + 1
        BY <1>1, <3>1
      <3>2. CASE m <= n
        <4>1. n \in 1 .. 20 /\ n + 1 \in 1 .. 20 /\ n < 20
          BY <3>2
        <4> QED
          BY <1>1, <1>4, <3>2, <4>1
      <3> QED
        BY <3>1, <3>2
    <2>3. Nat \subseteq reached
      <3> HIDE DEF reached
      <3> QED
        BY <2>1, <2>2, SetOfNaturals
    <2> QED
      BY <2>3
  <1> QED
    BY <1>5 DEF Power, MAX_EXPONENT

\* The backoff of computeLockoutSeconds(): one more failure never shortens the lock it
\* asks for, and no lock is longer than ACCOUNT_LOCKOUT_CAP_SECONDS.
THEOREM LocksGrow ==
    ASSUME NEW m \in Nat, NEW n \in Nat, m <= n
    PROVE  /\ computeLockoutSeconds(m) <= computeLockoutSeconds(n)
           /\ computeLockoutSeconds(n) <= CapSeconds
  <1> DEFINE Exponent(f) == Min({f - Threshold, MAX_EXPONENT})
  <1>1. CASE m <= Threshold
    <2>1. computeLockoutSeconds(m) = 0
      BY <1>1 DEF computeLockoutSeconds
    <2>2. computeLockoutSeconds(n) \in Nat /\ computeLockoutSeconds(n) <= CapSeconds
      <3>1. CASE n <= Threshold
        BY <3>1 DEF computeLockoutSeconds
      <3>2. CASE n > Threshold
        <4>1. Exponent(n) \in 1 .. MAX_EXPONENT
          BY <3>2, MinOfTwo DEF MAX_EXPONENT
        <4>2. 2 ^ Exponent(n) \in Nat
          BY <4>1, Powers
        <4>3. computeLockoutSeconds(n) = Min({2 ^ Exponent(n), CapSeconds})
          BY <3>2 DEF computeLockoutSeconds
        <4> HIDE DEF Exponent
        <4> QED
          BY <4>2, <4>3, MinOfTwo
      <3> QED
        BY <3>1, <3>2
    <2> QED
      BY <2>1, <2>2
  <1>2. CASE m > Threshold
    <2>1. /\ Exponent(m) \in 1 .. MAX_EXPONENT /\ Exponent(n) \in 1 .. MAX_EXPONENT
          /\ Exponent(m) <= Exponent(n)
      <3>1. \A f \in Nat : f > Threshold =>
                Exponent(f) = IF f - Threshold <= 20 THEN f - Threshold ELSE 20
        BY MinOfTwo DEF MAX_EXPONENT
      <3> HIDE DEF Exponent
      <3> QED
        BY <1>2, <3>1 DEF MAX_EXPONENT
    <2>2. /\ 2 ^ Exponent(m) \in Nat /\ 2 ^ Exponent(n) \in Nat
          /\ 2 ^ Exponent(m) <= 2 ^ Exponent(n)
      <3> HIDE DEF Exponent
      <3> QED
        BY <2>1, Powers, PowersGrow
    <2>3. /\ computeLockoutSeconds(m) = Min({2 ^ Exponent(m), CapSeconds})
          /\ computeLockoutSeconds(n) = Min({2 ^ Exponent(n), CapSeconds})
      BY <1>2 DEF computeLockoutSeconds
    <2> HIDE DEF Exponent
    <2>4. /\ computeLockoutSeconds(m) = IF 2 ^ Exponent(m) <= CapSeconds THEN 2 ^ Exponent(m)
                                        ELSE CapSeconds
          /\ computeLockoutSeconds(n) = IF 2 ^ Exponent(n) <= CapSeconds THEN 2 ^ Exponent(n)
                                        ELSE CapSeconds
      BY <2>2, <2>3, MinOfTwo
    <2> QED
      BY <2>2, <2>4
  <1> QED
    BY <1>1, <1>2

LockoutTypeOK ==
    /\ failed_login_count \in Nat /\ locked_until \in Nat /\ lastFailed \in 0 .. 2
    /\ attempt \in [Attempts -> {"idle", "passed", "bad", "good", "counted"}]
    /\ counted \in [Attempts -> Nat]

LockoutInv == LockoutTypeOK /\ LockOutlastsLastFailure

LEMMA LockoutInitInv == LockoutInit => LockoutInv
  BY DEF LockoutInit, LockoutInv, LockoutTypeOK, LockOutlastsLastFailure

LEMMA AttemptInv ==
    ASSUME LockoutInv, NEW a \in Attempts,
           Gate(a) \/ Compare(a) \/ Count(a) \/ Lengthen(a) \/ FailUnrecorded(a) \/ Succeed(a)
    PROVE  LockoutInv'
  <1> USE DEF LockoutInv, LockoutTypeOK, LockOutlastsLastFailure, To, account
  <1>1. CASE Gate(a) \/ FailUnrecorded(a)
    BY <1>1 DEF Gate, FailUnrecorded
  <1>2. CASE Compare(a)
    <2>1. PICK verdict \in {"good", "bad"} : To(a, verdict)
      BY <1>2 DEF Compare
    <2> QED
      BY <1>2, <2>1 DEF Compare
  <1>3. CASE Count(a)
    BY <1>3 DEF Count
  <1>4. CASE Lengthen(a)
    <2>1. counted[a] > Threshold => locked_until' \in Nat /\ locked_until' >= 2
      BY <1>4, LockLasts DEF Lengthen
    <2>2. counted[a] <= Threshold => locked_until' = locked_until
      BY <1>4 DEF Lengthen
    <2>3. UNCHANGED <<failed_login_count, lastFailed, counted>> /\ To(a, "idle")
      BY <1>4 DEF Lengthen
    <2> QED
      BY <2>1, <2>2, <2>3
  <1>5. CASE Succeed(a)
    BY <1>5 DEF Succeed
  <1> QED
    BY <1>1, <1>2, <1>3, <1>4, <1>5

\* A second that passes takes one from the lock and gives one to the age.
LEMMA SecondInv ==
    ASSUME LockoutInv, Second
    PROVE  LockoutInv'
  <1>1. /\ locked_until' = IF locked_until = 0 THEN 0 ELSE locked_until - 1
        /\ lastFailed' = IF lastFailed = 2 THEN 2 ELSE lastFailed + 1
    BY MinOfTwo, MaxOfTwo DEF LockoutInv, LockoutTypeOK, Second
  <1> QED
    BY <1>1 DEF LockoutInv, LockoutTypeOK, LockOutlastsLastFailure, Second

\* Past the threshold an account stays locked for the two seconds after the last failure
\* lockout.js counted, however the logins overlap and whichever UPDATE fails.
THEOREM LockHolds == LockoutSpec => []LockOutlastsLastFailure
  <1>1. LockoutInv /\ UNCHANGED lockoutVars => LockoutInv'
    BY DEF LockoutInv, LockoutTypeOK, LockOutlastsLastFailure, lockoutVars, account
  <1>2. LockoutInv /\ [LockoutNext]_lockoutVars => LockoutInv'
    BY <1>1, AttemptInv, SecondInv DEF LockoutNext
  <1>3. LockoutInv => LockOutlastsLastFailure
    BY DEF LockoutInv
  <1> QED
    BY <1>2, <1>3, LockoutInitInv, PTL DEF LockoutSpec

-----------------------------------------------------------------------------
(* The downsampling tasks.                                                 *)

\* The positions of the loop
Positions == DOMAIN EXPECTED_DOWNSAMPLING_TASKS

LEMMA TasksInOrder ==
    /\ Positions = 1 .. 3 /\ Len(EXPECTED_DOWNSAMPLING_TASKS) = 3
    /\ \A i \in Positions : EXPECTED_DOWNSAMPLING_TASKS[i] \in Names
    /\ \A n \in Names : \E i \in Positions : n = EXPECTED_DOWNSAMPLING_TASKS[i]
    /\ \A i, j \in Positions :
           EXPECTED_DOWNSAMPLING_TASKS[i] = EXPECTED_DOWNSAMPLING_TASKS[j] => i = j
  BY DEF Positions, EXPECTED_DOWNSAMPLING_TASKS, Names

TasksTypeOK ==
    /\ tasks \in [Names -> Nat]
    /\ existing \in [Replicas -> SUBSET Names]
    /\ next \in [Replicas -> 0 .. 3]
    /\ boots \in Nat

\* The replicas that may still create the task n, which their listing did not show
ToCreate(n) ==
    {r \in Replicas : /\ next[r] > 0 /\ n \notin existing[r]
                      /\ \E i \in Positions : i >= next[r] /\ EXPECTED_DOWNSAMPLING_TASKS[i] = n}

\* A task that is there leaves room for those who do not know of it: each replica has
\* created it at most once since it was missing.
RoomForAll ==
    \A n \in Names :
        tasks[n] > 0 => tasks[n] + Cardinality(ToCreate(n)) <= Cardinality(Replicas)

TasksInv == TasksTypeOK /\ RoomForAll

\* Fewer replicas, fewer of those who may create.
LEMMA FewerReplicas ==
    ASSUME NEW S \in SUBSET Replicas, NEW T \in SUBSET S
    PROVE  /\ Cardinality(S) \in Nat /\ Cardinality(T) \in Nat
           /\ Cardinality(T) <= Cardinality(S)
           /\ \A r \in S : r \notin T => Cardinality(T) + 1 <= Cardinality(S)
  <1>1. IsFiniteSet(S) /\ IsFiniteSet(T)
    BY ReplicasAssumption, FS_Subset
  <1>2. Cardinality(S) \in Nat /\ Cardinality(T) \in Nat /\ Cardinality(T) <= Cardinality(S)
    BY <1>1, FS_Subset, FS_CardinalityType
  <1>3. ASSUME NEW r \in S, r \notin T
        PROVE  Cardinality(T) + 1 <= Cardinality(S)
    <2>1. IsFiniteSet(T \cup {r}) /\ Cardinality(T \cup {r}) = Cardinality(T) + 1
      BY <1>1, <1>3, FS_AddElement
    <2> QED
      BY <1>1, <1>3, <2>1, FS_Subset
  <1> QED
    BY <1>2, <1>3

LEMMA TasksInitInv == TasksInit => TasksInv
  <1> SUFFICES ASSUME TasksInit PROVE TasksInv
    OBVIOUS
  <1>1. TasksTypeOK
    BY DEF TasksInit, TasksTypeOK
  <1>2. ASSUME NEW n \in Names
        PROVE  tasks[n] + Cardinality(ToCreate(n)) <= Cardinality(Replicas)
    <2>1. PICK r \in Replicas : TRUE
      BY ReplicasAssumption
    <2>2. ToCreate(n) = {} /\ tasks[n] \in {0, 1}
      BY DEF TasksInit, ToCreate
    <2>3. Cardinality(ToCreate(n)) + 1 <= Cardinality(Replicas) /\ Cardinality(ToCreate(n)) = 0
      BY <2>1, <2>2, FewerReplicas, FS_EmptySet
    <2> QED
      BY <2>2, <2>3, FewerReplicas
  <1> QED
    BY <1>1, <1>2 DEF TasksInv, RoomForAll

\* A step that creates nothing, and after which nobody new may create what is there
LEMMA NobodyNew ==
    ASSUME TasksInv, TasksTypeOK', \A n \in Names : tasks'[n] <= tasks[n],
           \A n \in Names : tasks'[n] > 0 => ToCreate(n)' \subseteq ToCreate(n)
    PROVE  TasksInv'
  <1> SUFFICES ASSUME NEW n \in Names, tasks'[n] > 0
               PROVE  tasks'[n] + Cardinality(ToCreate(n)') <= Cardinality(Replicas)
    BY DEF TasksInv, RoomForAll
  <1>1. tasks[n] \in Nat /\ tasks'[n] \in Nat
    BY DEF TasksInv, TasksTypeOK
  <1>2. ToCreate(n) \subseteq Replicas
    BY DEF ToCreate
  <1>3. /\ Cardinality(ToCreate(n)') \in Nat /\ Cardinality(ToCreate(n)) \in Nat
        /\ Cardinality(Replicas) \in Nat
        /\ Cardinality(ToCreate(n)') <= Cardinality(ToCreate(n))
    BY <1>2, FewerReplicas
  <1>4. tasks[n] + Cardinality(ToCreate(n)) <= Cardinality(Replicas)
    BY <1>1 DEF TasksInv, RoomForAll
  <1> QED
    BY <1>1, <1>3, <1>4

LEMMA ListInv ==
    ASSUME TasksInv, NEW r \in Replicas, List(r)
    PROVE  TasksInv'
  <1>1. TasksTypeOK' /\ tasks' = tasks
    BY DEF List, Present, TasksInv, TasksTypeOK
  <1>2. ASSUME NEW n \in Names, tasks[n] > 0
        PROVE  ToCreate(n)' \subseteq ToCreate(n)
    <2>1. n \in Present
      BY <1>2 DEF Present
    <2> QED
      BY <2>1 DEF List, TasksInv, TasksTypeOK, ToCreate
  <1>3. \A n \in Names : tasks'[n] <= tasks[n]
    BY <1>1 DEF TasksInv, TasksTypeOK
  <1> QED
    BY <1>1, <1>2, <1>3, NobodyNew

LEMMA CreateInv ==
    ASSUME TasksInv, NEW r \in Replicas, Create(r)
    PROVE  TasksInv'
  <1>1. next[r] \in Positions /\ Name(r) \in Names /\ r \in ToCreate(Name(r))
    BY TasksInOrder DEF Create, Name, ToCreate, TasksInv, TasksTypeOK
  <1>2. /\ tasks' = [tasks EXCEPT ![Name(r)] = tasks[Name(r)] + 1]
        /\ existing' = existing /\ next' \in [Replicas -> 0 .. 3]
        /\ \A q \in Replicas \ {r} : next'[q] = next[q]
        /\ next'[r] = 0 \/ next'[r] > next[r]
    BY <1>1, TasksInOrder DEF Create, Step, TasksInv, TasksTypeOK
  <1>3. TasksTypeOK'
    BY <1>1, <1>2 DEF Create, TasksInv, TasksTypeOK
  <1>4. ASSUME NEW n \in Names
        PROVE  /\ ToCreate(n)' \subseteq ToCreate(n) /\ ToCreate(n) \subseteq Replicas
               /\ n = Name(r) => r \notin ToCreate(n)'
    BY <1>1, <1>2, TasksInOrder DEF ToCreate, Name, TasksInv, TasksTypeOK
  <1> SUFFICES ASSUME NEW n \in Names, tasks'[n] > 0
               PROVE  tasks'[n] + Cardinality(ToCreate(n)') <= Cardinality(Replicas)
    BY <1>3 DEF TasksInv, RoomForAll
  <1>5. /\ tasks[n] \in Nat /\ Cardinality(Replicas) \in Nat
        /\ Cardinality(ToCreate(n)) \in Nat /\ Cardinality(ToCreate(n)') \in Nat
        /\ Cardinality(ToCreate(n)') <= Cardinality(ToCreate(n))
    BY <1>4, FewerReplicas DEF TasksInv, TasksTypeOK
  <1>6. tasks[n] > 0 => tasks[n] + Cardinality(ToCreate(n)) <= Cardinality(Replicas)
    BY DEF TasksInv, RoomForAll
  <1>7. CASE n # Name(r)
    <2>1. tasks'[n] = tasks[n]
      BY <1>2, <1>7 DEF TasksInv, TasksTypeOK
    <2> QED
      BY <1>5, <1>6, <2>1
  <1>8. CASE n = Name(r)
    <2>1. tasks'[n] = tasks[n] + 1
      BY <1>2, <1>8 DEF TasksInv, TasksTypeOK
    <2>2. Cardinality(ToCreate(n)') + 1 <= Cardinality(ToCreate(n))
      BY <1>1, <1>4, <1>8, FewerReplicas
    <2>3. Cardinality(ToCreate(n)) <= Cardinality(Replicas)
      BY <1>4, FewerReplicas
    <2> QED
      BY <1>5, <1>6, <2>1, <2>2, <2>3
  <1> QED
    BY <1>7, <1>8

LEMMA LoopInv ==
    ASSUME TasksInv, NEW r \in Replicas, Skip(r) \/ Die(r)
    PROVE  TasksInv'
  <1>1. /\ tasks' = tasks /\ existing' = existing /\ next' \in [Replicas -> 0 .. 3]
        /\ \A q \in Replicas \ {r} : next'[q] = next[q]
        /\ next'[r] = 0 \/ next'[r] > next[r]
    BY TasksInOrder DEF Skip, Die, Step, TasksInv, TasksTypeOK
  <1>2. TasksTypeOK'
    BY <1>1 DEF Skip, Die, TasksInv, TasksTypeOK
  <1>3. \A n \in Names : tasks'[n] <= tasks[n]
    BY <1>1 DEF TasksInv, TasksTypeOK
  <1>4. ASSUME NEW n \in Names, NEW q \in ToCreate(n)'
        PROVE  q \in ToCreate(n)
    <2>1. /\ q \in Replicas /\ next'[q] > 0 /\ n \notin existing[q]
          /\ \E i \in Positions : i >= next'[q] /\ EXPECTED_DOWNSAMPLING_TASKS[i] = n
      BY <1>1 DEF ToCreate
    <2>2. next[q] > 0 /\ next[q] <= next'[q] /\ next[q] \in Int /\ next'[q] \in Int
      BY <1>1, <2>1 DEF Skip, Die, TasksInv, TasksTypeOK
    <2>3. PICK i \in Positions : i >= next'[q] /\ EXPECTED_DOWNSAMPLING_TASKS[i] = n
      BY <2>1
    <2>4. i >= next[q]
      BY <2>2, <2>3, TasksInOrder
    <2> QED
      BY <2>1, <2>2, <2>3, <2>4 DEF ToCreate
  <1> QED
    BY <1>2, <1>3, <1>4, NobodyNew

\* An operator only deletes.
LEMMA DeleteInv ==
    ASSUME TasksInv, Delete
    PROVE  TasksInv'
  <1>1. PICK n \in Present : tasks' = [tasks EXCEPT ![n] = tasks[n] - 1]
    BY DEF Delete, Present, TasksInv, TasksTypeOK
  <1>2. n \in Names /\ tasks[n] > 0
    BY <1>1 DEF Present
  <1>3. TasksTypeOK'
    BY <1>1, <1>2 DEF Delete, TasksInv, TasksTypeOK
  <1>4. \A m \in Names : tasks'[m] <= tasks[m] /\ ToCreate(m)' \subseteq ToCreate(m)
    BY <1>1, <1>2 DEF Delete, ToCreate, TasksInv, TasksTypeOK
  <1> QED
    BY <1>3, <1>4, NobodyNew

\* However many replicas run bootstrapTasks() of influx-writer.js at once, and whatever
\* fails, dies or is deleted between their boots, a task is there at most once for each.
THEOREM TasksAreBounded == TasksSpec => []TasksPerReplica
  <1>1. TasksInv /\ UNCHANGED tasksVars => TasksInv'
    BY DEF TasksInv, TasksTypeOK, RoomForAll, ToCreate, tasksVars
  <1>2. TasksInv /\ [TasksNext]_tasksVars => TasksInv'
    BY <1>1, ListInv, CreateInv, LoopInv, DeleteInv DEF TasksNext
  <1>3. TasksInv => TasksPerReplica
    <2> SUFFICES ASSUME TasksInv, NEW n \in Names
                 PROVE  tasks[n] <= Cardinality(Replicas)
      BY DEF TasksPerReplica
    <2>1. /\ tasks[n] \in Nat /\ Cardinality(Replicas) \in Nat
          /\ Cardinality(ToCreate(n)) \in Nat
      BY FewerReplicas DEF ToCreate, TasksInv, TasksTypeOK
    <2> QED
      BY <2>1 DEF TasksInv, RoomForAll
  <1> QED
    BY <1>2, <1>3, TasksInitInv, PTL DEF TasksSpec

-----------------------------------------------------------------------------
(* The gate of the dashboard.                                              *)

DashboardTypeOK ==
    /\ page \in {"app", "login"}
    /\ check \in 0 .. MaxChecks
    /\ stage \in [Checks -> {"new", "sent", "answered", "done"}]
    /\ code \in [Checks -> {0, 200, 401}]

\* A page of the application has asked.
PageHasAsked == page = "app" => check \in Checks /\ stage[check] # "new"

DashboardInv == DashboardTypeOK /\ PageHasAsked /\ LatestCheckDecides

LEMMA DashboardInitInv == DashboardInit => DashboardInv
  BY DEF DashboardInit, DashboardInv, DashboardTypeOK, PageHasAsked, LatestCheckDecides, Checks

\* A check that is new is not the one the page waits for.
LEMMA PageInv ==
    ASSUME DashboardInv, Navigate \/ Login \/ Reload \/ LoginRefused \/ Expire
    PROVE  DashboardInv'
  <1> USE DEF DashboardInv, DashboardTypeOK, PageHasAsked, LatestCheckDecides, Checks
  <1>1. CASE Navigate
    BY <1>1 DEF Navigate, Ask, Unused
  <1>2. CASE Login
    BY <1>2 DEF Login, Visit, Unused
  <1>3. CASE Reload
    BY <1>3 DEF Reload, Visit, Unused
  <1>4. CASE LoginRefused
    BY <1>4 DEF LoginRefused
  <1>5. CASE Expire
    BY <1>5 DEF Expire
  <1> QED
    BY <1>1, <1>2, <1>3, <1>4, <1>5

LEMMA AnswerInv ==
    ASSUME DashboardInv, NEW c \in Checks, Respond(c) \/ Deliver(c) \/ Deliver401(c)
    PROVE  DashboardInv'
  <1> USE DEF DashboardInv, DashboardTypeOK, PageHasAsked, LatestCheckDecides, Checks
  <1>1. CASE Respond(c)
    BY <1>1 DEF Respond
  <1>2. CASE Deliver(c)
    BY <1>2 DEF Deliver
  <1>3. CASE Deliver401(c)
    BY <1>3 DEF Deliver401
  <1> QED
    BY <1>1, <1>2, <1>3

\* RequireAuth.tsx shows the answer to its latest check, in whatever order the answers
\* of /users/me arrive.
THEOREM LatestDecides == DashboardSpec => []LatestCheckDecides
  <1>1. DashboardInv /\ UNCHANGED dashboardVars => DashboardInv'
    BY DEF DashboardInv, DashboardTypeOK, PageHasAsked, LatestCheckDecides, dashboardVars
  <1>2. DashboardInv /\ [DashboardNext]_dashboardVars => DashboardInv'
    BY <1>1, PageInv, AnswerInv DEF DashboardNext
  <1>3. DashboardInv => LatestCheckDecides
    BY DEF DashboardInv
  <1> QED
    BY <1>2, <1>3, DashboardInitInv, PTL DEF DashboardSpec
=============================================================================
