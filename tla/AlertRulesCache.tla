--------------------------- MODULE AlertRulesCache ---------------------------
(***************************************************************************)
(* loadRules() of services/alert-engine.js: the enabled alert rules, read  *)
(* from PostgreSQL at most every RULES_CACHE_TTL_MS.                       *)
(*                                                                         *)
(* Every evaluate() and every evaluateSustained() calls it, so loads       *)
(* overlap: several query the table at once, their answers come in any     *)
(* order, and each stores what it read over what another stored.  The      *)
(* contents of alert_rules are known by a number, 1 at first and one more  *)
(* at each edit; 0 is the empty array the cache starts with.               *)
(***************************************************************************)
EXTENDS Integers

CONSTANTS Loads,     \* the calls of loadRules()
          Ttl,       \* RULES_CACHE_TTL_MS
          MaxEdits,  \* how often an operator edits the rules
          Epoch,     \* Date.now() when the engine starts
          MaxClock   \* time at which the model's clock stops

\* A cache dated 0, as _resetRulesCache leaves it, is stale when the engine starts.
ASSUME TimeAssumption == /\ Ttl \in Nat \ {0} /\ Epoch \in Nat /\ Ttl <= Epoch
                         /\ MaxClock \in Nat /\ MaxEdits \in Nat

VARIABLES clock,
          table,       \* the contents of alert_rules
          replaced,    \* when each contents was edited into the next
          rulesCache, rulesCacheTs,
          pc,          \* idle, querying, answered, failed or returned
          started,     \* the `now` of each call
          rows,        \* what its query read; none is 0
          used         \* the rules it returned

db        == <<table, replaced>>
cache     == <<rulesCache, rulesCacheTs>>
calls     == <<pc, started, rows, used>>
rulesVars == <<clock, db, cache, calls>>

Contents == 0 .. MaxEdits + 1

RulesInit ==
    /\ clock = Epoch
    /\ table = 1
    /\ replaced = [v \in Contents |-> 0]
    /\ rulesCache = 0 /\ rulesCacheTs = 0
    /\ pc = [l \in Loads |-> "idle"]
    /\ started = [l \in Loads |-> 0]
    /\ rows = [l \in Loads |-> 0]
    /\ used = [l \in Loads |-> 0]

\* The cache is dated with the time of a call.
Fresh == clock - rulesCacheTs < Ttl

\* return rulesCache
Return(l, contents, how) ==
    /\ used' = [used EXCEPT ![l] = contents]
    /\ pc' = [pc EXCEPT ![l] = how]

\* The call finds the cache fresh ...
Hit(l) ==
    /\ pc[l] = "idle"
    /\ Fresh
    /\ started' = [started EXCEPT ![l] = clock]
    /\ Return(l, rulesCache, "returned")
    /\ UNCHANGED <<clock, db, cache, rows>>

\* ... or queries the table.
Query(l) ==
    /\ pc[l] = "idle"
    /\ ~Fresh
    /\ started' = [started EXCEPT ![l] = clock]
    /\ pc' = [pc EXCEPT ![l] = "querying"]
    /\ UNCHANGED <<clock, db, cache, rows, used>>

\* Variant: the answer is taken before there is one.
AnswerEmpty(l) ==
    /\ pc[l] = "querying"
    /\ pc' = [pc EXCEPT ![l] = "answered"]
    /\ UNCHANGED <<clock, db, cache, started, rows, used>>

\* PostgreSQL runs the SELECT.
Answer(l) ==
    /\ pc[l] = "querying"
    /\ rows' = [rows EXCEPT ![l] = table]
    /\ pc' = [pc EXCEPT ![l] = "answered"]
    /\ UNCHANGED <<clock, db, cache, started, used>>

\* Variant: the cache is dated with the time of the answer.
StoreDatedLate(l) ==
    /\ pc[l] = "answered"
    /\ rulesCache' = rows[l]
    /\ rulesCacheTs' = clock
    /\ Return(l, rows[l], "returned")
    /\ UNCHANGED <<clock, db, started, rows>>

\* The answer arrives: it is cached, dated with the start of the call.
Store(l) ==
    /\ pc[l] = "answered"
    /\ rulesCache' = rows[l]
    /\ rulesCacheTs' = started[l]
    /\ Return(l, rows[l], "returned")
    /\ UNCHANGED <<clock, db, started, rows>>

\* The query fails: the error is logged, and the cache serves whatever its age.
Fail(l) ==
    /\ pc[l] \in {"querying", "answered"}
    /\ Return(l, rulesCache, "failed")
    /\ UNCHANGED <<clock, db, cache, started, rows>>

\* POST, PUT or DELETE of routes/alerts.js: none of them tells the engine.
EditRules ==
    /\ table <= MaxEdits
    /\ table' = table + 1
    /\ replaced' = [replaced EXCEPT ![table] = clock]
    /\ UNCHANGED <<clock, cache, calls>>

Tick ==
    /\ clock < MaxClock
    /\ clock' = clock + 1
    /\ UNCHANGED <<db, cache, calls>>

Load(l) == Hit(l) \/ Query(l) \/ Answer(l) \/ Store(l) \/ Fail(l)

RulesNext == (\E l \in Loads : Load(l)) \/ EditRules \/ Tick

RulesSpec == RulesInit /\ [][RulesNext]_rulesVars

-----------------------------------------------------------------------------
(* Properties.                                                             *)

\* Types: what a query read exists from its answer on, and then it is a contents the
\* table has had.
RulesTypeOK ==
    /\ clock \in Nat /\ Epoch <= clock
    /\ table \in Contents \ {0}
    /\ replaced \in [Contents -> Nat]
    /\ rulesCache \in Contents /\ rulesCacheTs \in Nat
    /\ pc \in [Loads -> {"idle", "querying", "answered", "failed", "returned"}]
    /\ started \in [Loads -> Nat]
    /\ rows \in [Loads -> Contents] /\ used \in [Loads -> Contents]
    /\ \A l \in Loads : pc[l] = "answered" => rows[l] # 0

\* The contents v was in force at some moment after t.
InForceAfter(v, t) == v = table \/ replaced[v] > t

\* An evaluation whose load does not fail works with rules that were in force less
\* than RULES_CACHE_TTL_MS before it asked, although a load that started earlier may
\* store older rules over newer ones.
ServedRulesAreRecent ==
    \A l \in Loads : pc[l] = "returned" => InForceAfter(used[l], started[l] - Ttl)
=============================================================================
