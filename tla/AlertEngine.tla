----------------------------- MODULE AlertEngine -----------------------------
(***************************************************************************)
(* services/alert-engine.js: telemetry samples of one machine are          *)
(* evaluated against the alert rules that apply to it.                     *)
(*                                                                         *)
(* evaluate() is asynchronous and nobody waits for it, so evaluations of   *)
(* successive samples overlap: each sample is a process that gives way     *)
(* where the code awaits (loading the rules, firing) and has the event     *)
(* loop to itself between two awaits.  Whether a value breaches a rule is  *)
(* data: each sample carries the set of rules it breaches.  Which settings *)
(* of an edited rule an evaluation works with is the matter of             *)
(* AlertRulesCache; here it may be any.                                    *)
(***************************************************************************)
EXTENDS Integers, FiniteSets

CONSTANTS Rules,      \* the rules of alert_rules that apply to the machine
          Editings,   \* which of them an operator may be editing meanwhile
          MaxSamples, \* how many samples arrive
          Confs,      \* settings a rule may have
          StateTtl,   \* RULE_STATE_TTL_MS
          MaxKeys,    \* RULE_STATE_MAX_KEYS
          Epoch,      \* Date.now() when the engine starts: any large time
          MaxClock    \* time at which the model's clock stops

Samples == 1 .. MaxSamples

\* "enabled" is FALSE too for a rule of a kind that evaluate() passes over.
ASSUME RulesAssumption ==
    /\ Editings \subseteq SUBSET Rules
    /\ MaxSamples \in Nat
ASSUME ConfsAssumption ==
    Confs \subseteq [debounce : Nat, consecutive : Nat \ {0}, enabled : BOOLEAN]
ASSUME TimeAssumption ==
    Epoch \in Nat /\ MaxClock \in Nat /\ StateTtl \in Nat /\ MaxKeys \in Nat

VARIABLES clock,
          edited,    \* the rules an operator edits; never changes
          setting,   \* the settings of the rules nobody edits; never changes
          pc,        \* where the evaluation of each sample is
          hits,      \* the rules each sample breaches
          snap,      \* the rules array each evaluation iterates over
          todo,      \* the rules each evaluation has still to look at
          firing,    \* the rule whose alarm each evaluation is sending
          known,     \* the keys of ruleState
          state,     \* its entries; a rule that is not a key has the Fresh one
          lastFired, lastClean, run, forgotten   \* history, see below

evals  == <<pc, hits, snap, todo, firing>>
\* When a rule last raised an alarm and last saw a clean sample, how many breaching
\* samples it has seen since either, and the rules whose entry was dropped since.
history == <<lastFired, lastClean, run, forgotten>>
vars == <<clock, edited, setting, evals, known, state, history>>

Entry == [breachCount : Nat, debouncedUntil : Nat, lastFire : Nat, lastTouched : Nat]
Fresh == [breachCount |-> 0, debouncedUntil |-> 0, lastFire |-> 0, lastTouched |-> 0]

Init ==
    /\ clock = Epoch
    /\ edited \in Editings
    /\ setting \in [Rules -> Confs]
    /\ pc = [s \in Samples |-> "idle"]
    /\ hits = [s \in Samples |-> {}]
    /\ snap = [s \in Samples |-> setting]
    /\ todo = [s \in Samples |-> {}]
    /\ firing = [s \in Samples |-> {}]
    /\ known = {}
    /\ state = [r \in Rules |-> Fresh]
    /\ lastFired = [r \in Rules |-> 0]
    /\ lastClean = [r \in Rules |-> 0]
    /\ run = [r \in Rules |-> 0]
    /\ forgotten = {}

-----------------------------------------------------------------------------
(* A sample arrives, and its evaluation gets the rules.                    *)

\* The event loop is between callbacks.
Turn == \A s \in Samples : pc[s] # "running"

\* onMessage calls evaluate() in the order of arrival.
Arrive(s) ==
    /\ Turn
    /\ pc[s] = "idle" /\ \A q \in Samples : q < s => pc[q] # "idle"
    /\ \E h \in SUBSET Rules : hits' = [hits EXCEPT ![s] = h]
    /\ pc' = [pc EXCEPT ![s] = "loading"]
    /\ UNCHANGED <<clock, edited, setting, known, state, snap, todo, firing, history>>

\* await loadRules(): loads of several evaluations return in any order.
Loaded(s) ==
    /\ Turn
    /\ pc[s] = "loading"
    /\ \E rules \in [Rules -> Confs] :
          /\ \A r \in Rules \ edited : rules[r] = setting[r]
          /\ snap' = [snap EXCEPT ![s] = rules]
          /\ todo' = [todo EXCEPT ![s] = {r \in Rules : rules[r].enabled}]
    /\ pc' = [pc EXCEPT ![s] = "running"]
    /\ UNCHANGED <<clock, edited, setting, known, state, hits, firing, history>>

-----------------------------------------------------------------------------
(* evaluate(): one rule, from reading its entry to storing it.             *)

\* The least recently touched of the keys; a tie goes to either.
Oldest(keys, touched) == {k \in keys : \A q \in keys : touched[k] <= touched[q]}

\* Variant: the size is looked at before the entry is stored.
TouchLate(r, entry, forgot) ==
    LET keys    == known \cup {r}
        touched == [k \in Rules |-> IF k = r THEN clock ELSE state[k].lastTouched]
    IN  \E dropped \in SUBSET keys :
            /\ IF Cardinality(known) > MaxKeys
               THEN \E k \in Oldest(keys, touched) : dropped = {k}
               ELSE dropped = {}
            /\ known' = keys \ dropped
            /\ state' = [k \in Rules |-> IF k \in dropped THEN Fresh
                                         ELSE IF k = r THEN entry ELSE state[k]]
            /\ forgotten' = forgot \cup dropped

\* touchState(): store the entry, and drop the oldest key when there are too many.
\* `forgot` is what is forgotten already.
Touch(r, entry, forgot) ==
    LET keys    == known \cup {r}
        touched == [k \in Rules |-> IF k = r THEN clock ELSE state[k].lastTouched]
    IN  \E dropped \in SUBSET keys :
            /\ IF Cardinality(keys) > MaxKeys
               THEN \E k \in Oldest(keys, touched) : dropped = {k}
               ELSE dropped = {}
            /\ known' = keys \ dropped
            /\ state' = [k \in Rules |-> IF k \in dropped THEN Fresh
                                         ELSE IF k = r THEN entry ELSE state[k]]
            /\ forgotten' = forgot \cup dropped

At(s, r) == pc[s] = "running" /\ r \in todo[s]
Passed(s, r) == todo' = [todo EXCEPT ![s] = @ \ {r}]

\* Variant: a clean sample does not start the count again.
CleanedKeepingCount(e) == [e EXCEPT !.debouncedUntil = 0, !.lastTouched = clock]

\* A clean sample starts the count and the debounce again.
Cleaned(e) == [e EXCEPT !.breachCount = 0, !.debouncedUntil = 0, !.lastTouched = clock]

Clean(s, r) ==
    /\ At(s, r) /\ r \notin hits[s]
    /\ Touch(r, Cleaned(state[r]), forgotten)
    /\ Passed(s, r)
    /\ lastClean' = [lastClean EXCEPT ![r] = clock]
    /\ run' = [run EXCEPT ![r] = 0]
    /\ UNCHANGED <<clock, edited, setting, pc, hits, snap, firing, lastFired>>

\* Variant: the count is looked at before this breach is counted in.
ArmingLate(e, c) == clock >= e.debouncedUntil /\ c.debounce > 0 /\ e.breachCount = 1

\* The first breach of a debounced rule opens the window it has to outlast.
Arming(e, c) == clock >= e.debouncedUntil /\ c.debounce > 0 /\ e.breachCount = 0

\* Variants: without the window, and without the time of the last alarm.
SuppressedUnarmed(e, c) ==
    \/ e.breachCount + 1 < c.consecutive
    \/ c.debounce > 0 /\ clock - e.lastFire < c.debounce

SuppressedAgain(e, c) ==
    \/ clock < e.debouncedUntil
    \/ e.breachCount + 1 < c.consecutive

\* A breach that only counts: e.breachCount does not count it yet.
Suppressed(e, c) ==
    \/ clock < e.debouncedUntil
    \/ e.breachCount + 1 < c.consecutive
    \/ c.debounce > 0 /\ clock - e.lastFire < c.debounce

Counted(e)  == [e EXCEPT !.breachCount = e.breachCount + 1, !.lastTouched = clock]
Armed(e, c) == [e EXCEPT !.breachCount = e.breachCount + 1,
                         !.debouncedUntil = clock + c.debounce, !.lastTouched = clock]
\* Variant: an alarm does not start the count again.
ResetKeepingCount(e) ==
    [e EXCEPT !.debouncedUntil = 0, !.lastFire = clock, !.lastTouched = clock]

Reset(e)    == [e EXCEPT !.breachCount = 0, !.debouncedUntil = 0,
                         !.lastFire = clock, !.lastTouched = clock]

Breach(s, r, entry) ==
    /\ At(s, r) /\ r \in hits[s]
    /\ Touch(r, entry, forgotten)
    /\ Passed(s, r)
    /\ run' = [run EXCEPT ![r] = @ + 1]
    /\ UNCHANGED <<clock, edited, setting, pc, hits, snap, firing, lastFired, lastClean>>

Arm(s, r) ==
    /\ Arming(state[r], snap[s][r])
    /\ Breach(s, r, Armed(state[r], snap[s][r]))

Hold(s, r) ==
    /\ ~Arming(state[r], snap[s][r]) /\ Suppressed(state[r], snap[s][r])
    /\ Breach(s, r, Counted(state[r]))

\* The entry is reset before the alarm is published and stored, and the loop waits.
Fire(s, r) ==
    /\ At(s, r) /\ r \in hits[s]
    /\ ~Arming(state[r], snap[s][r]) /\ ~Suppressed(state[r], snap[s][r])
    /\ Touch(r, Reset(state[r]), forgotten \ {r})
    /\ Passed(s, r)
    /\ pc' = [pc EXCEPT ![s] = "firing"]
    /\ firing' = [firing EXCEPT ![s] = {r}]
    /\ lastFired' = [lastFired EXCEPT ![r] = clock]
    /\ run' = [run EXCEPT ![r] = 0]
    /\ UNCHANGED <<clock, edited, setting, hits, snap, lastClean>>

\* fireAlert() returns: both its failures are caught and logged.
Fired(s) ==
    /\ Turn
    /\ pc[s] = "firing"
    /\ pc' = [pc EXCEPT ![s] = "running"]
    /\ firing' = [firing EXCEPT ![s] = {}]
    /\ UNCHANGED <<clock, edited, setting, known, state, hits, snap, todo, history>>

Finish(s) ==
    /\ pc[s] = "running" /\ todo[s] = {}
    /\ pc' = [pc EXCEPT ![s] = "done"]
    /\ snap' = [snap EXCEPT ![s] = setting]
    /\ UNCHANGED <<clock, edited, setting, known, state, hits, todo, firing, history>>

-----------------------------------------------------------------------------
(* Around the evaluations.                                                 *)

Tick ==
    /\ clock < MaxClock
    /\ clock' = clock + 1
    /\ UNCHANGED <<edited, setting, known, state, evals, history>>

\* Variant: the entries outlive their keys.
ForgetKeys(keys) ==
    /\ known' = known \ keys
    /\ forgotten' = forgotten \cup keys
    /\ UNCHANGED <<clock, edited, setting, state, lastFired, lastClean, run>>

Forget(keys) ==
    /\ known' = known \ keys
    /\ state' = [r \in Rules |-> IF r \in keys THEN Fresh ELSE state[r]]
    /\ forgotten' = forgotten \cup keys
    /\ UNCHANGED <<clock, edited, setting, lastFired, lastClean, run>>

\* pruneStaleState(), on its own timer.
Prune ==
    /\ Turn
    /\ Forget({r \in known : state[r].lastTouched < clock - StateTtl})
    /\ UNCHANGED evals

\* The process restarts: the entries and the evaluations under way are gone.
Restart ==
    /\ Forget(known)
    /\ pc' = [s \in Samples |-> IF pc[s] = "idle" THEN "idle" ELSE "done"]
    /\ todo' = [s \in Samples |-> {}]
    /\ firing' = [s \in Samples |-> {}]
    /\ snap' = [s \in Samples |-> setting]
    /\ UNCHANGED hits

Evaluate(s) ==
    \/ Arrive(s) \/ Loaded(s)
    \/ \E r \in Rules : Clean(s, r) \/ Arm(s, r) \/ Hold(s, r) \/ Fire(s, r)
    \/ Fired(s) \/ Finish(s)

Next == \/ \E s \in Samples : Evaluate(s)
        \/ Tick \/ Prune \/ Restart

Spec == Init /\ [][Next]_vars

-----------------------------------------------------------------------------
(* Properties.                                                             *)

\* Types: ruleState holds an entry for its keys only.
TypeOK ==
    /\ clock \in Nat /\ Epoch <= clock
    /\ edited \subseteq Rules
    /\ setting \in [Rules -> Confs]
    /\ pc \in [Samples -> {"idle", "loading", "running", "firing", "done"}]
    /\ hits \in [Samples -> SUBSET Rules]
    /\ snap \in [Samples -> [Rules -> Confs]]
    /\ todo \in [Samples -> SUBSET Rules]
    /\ firing \in [Samples -> SUBSET Rules]
    /\ known \subseteq Rules
    /\ state \in [Rules -> Entry]
    /\ \A r \in Rules \ known : state[r] = Fresh
    /\ lastFired \in [Rules -> Nat] /\ lastClean \in [Rules -> Nat]
    /\ run \in [Rules -> Nat]
    /\ forgotten \subseteq Rules

\* touchState(): evaluations and evictions never leave more than
\* RULE_STATE_MAX_KEYS entries in ruleState.
StateBounded == Cardinality(known) <= MaxKeys

\* The evaluation of s raises an alarm of r in this step.
Raised(s, r) == r \in firing'[s] \ firing[s]

\* "never re-fire within debounce window after a fire": two alarms of a rule are its
\* debounce time apart, although the evaluations overlap, entries are evicted and the
\* process restarts.  Only a rule that was edited after its entry was dropped escapes.
FiresSpaced ==
    [][\A s \in Samples, r \in Rules :
          Raised(s, r) /\ (r \in edited => r \notin forgotten)
          => clock - lastFired[r] >= snap[s][r].debounce]_vars

\* "once armed, wait the debounce window before firing": an alarm of a rule nobody
\* edits means that no clean sample was evaluated during its debounce time.
FiresOnlyAfterUnbrokenBreach ==
    [][\A s \in Samples, r \in Rules \ edited :
          Raised(s, r) => clock - lastClean[r] >= snap[s][r].debounce]_vars

\* "require N consecutive breaches before firing": N breaching samples of the rule were
\* evaluated since it last fired and since the last clean one.
FiresOnlyAfterEnoughBreaches ==
    [][\A s \in Samples, r \in Rules :
          Raised(s, r) => run[r] + 1 >= snap[s][r].consecutive]_vars
=============================================================================
