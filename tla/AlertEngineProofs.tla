-------------------------- MODULE AlertEngineProofs --------------------------
(***************************************************************************)
(* Proofs about AlertEngine, for any rules, settings, samples and bounds.  *)
(***************************************************************************)
EXTENDS AlertEngine, FiniteSetTheorems, TLAPS

USE RulesAssumption, ConfsAssumption, TimeAssumption

(***************************************************************************)
(* The inductive invariant.  An alarm is spaced from the last one either   *)
(* because its entry remembers when that was, or because the entry was     *)
(* forgotten and had to be armed again, later than it.                     *)
(***************************************************************************)

\* The event loop's clock is past everything that happened.
Past == \A r \in Rules : lastFired[r] <= clock /\ lastClean[r] <= clock

\* Every evaluation sees a rule nobody edits as it is.
SnapFaithful == \A s \in Samples, r \in Rules \ edited : snap[s][r] = setting[r]

\* An entry that was not dropped knows when its rule last fired.
FireRemembered == \A r \in Rules \ forgotten : state[r].lastFire = lastFired[r]

\* An entry counts no breach that did not happen.
CountsRun == \A r \in Rules : state[r].breachCount <= run[r]

\* An entry with no breach waits for nothing ...
IdleUnarmed == \A r \in Rules : state[r].breachCount = 0 => state[r].debouncedUntil = 0

\* ... and one with a breach was armed after the last alarm and the last clean sample.
ArmedSince ==
    \A r \in Rules \ edited :
        setting[r].debounce > 0 /\ state[r].breachCount # 0
        => /\ state[r].debouncedUntil >= lastFired[r] + setting[r].debounce
           /\ state[r].debouncedUntil >= lastClean[r] + setting[r].debounce

Linked == Past /\ SnapFaithful /\ FireRemembered /\ CountsRun /\ IdleUnarmed /\ ArmedSince

Inv == TypeOK /\ Linked

-----------------------------------------------------------------------------
(* What storing and dropping entries does.                                 *)

\* touchState() stores the entry it is given, unless it drops it again, and it drops
\* nothing silently.
LEMMA TouchEffect ==
    ASSUME TypeOK, NEW r \in Rules, NEW entry \in Entry, NEW forgot \in SUBSET Rules,
           Touch(r, entry, forgot)
    PROVE  /\ known' \subseteq Rules /\ forgotten' \subseteq Rules
           /\ state' \in [Rules -> Entry]
           /\ \A k \in Rules \ known' : state'[k] = Fresh
           /\ forgot \subseteq forgotten'
           /\ \A k \in Rules : \/ state'[k] = Fresh /\ k \in forgotten'
                               \/ state'[k] = IF k = r THEN entry ELSE state[k]
  <1>1. PICK dropped \in SUBSET (known \cup {r}) :
            /\ known' = (known \cup {r}) \ dropped
            /\ state' = [k \in Rules |-> IF k \in dropped THEN Fresh
                                         ELSE IF k = r THEN entry ELSE state[k]]
            /\ forgotten' = forgot \cup dropped
    BY DEF Touch
  <1>2. Fresh \in Entry
    BY DEF Fresh, Entry
  <1>3. known \subseteq Rules /\ state \in [Rules -> Entry]
        /\ \A k \in Rules \ known : state[k] = Fresh
    BY DEF TypeOK
  <1> QED
    BY <1>1, <1>2, <1>3

\* pruneStaleState() and a restart leave the other entries alone.
LEMMA ForgetEffect ==
    ASSUME TypeOK, NEW keys \in SUBSET known, Forget(keys)
    PROVE  /\ known' \subseteq Rules /\ forgotten' \subseteq Rules
           /\ state' \in [Rules -> Entry]
           /\ \A k \in Rules \ known' : state'[k] = Fresh
           /\ forgotten \subseteq forgotten'
           /\ \A k \in Rules : \/ state'[k] = Fresh /\ k \in forgotten'
                               \/ state'[k] = state[k]
  <1>1. Fresh \in Entry
    BY DEF Fresh, Entry
  <1> QED
    BY <1>1 DEF TypeOK, Forget

\* The entries evaluate() stores are entries, and this is what is in them.
LEMMA StoredEntries ==
    ASSUME clock \in Nat, NEW e \in Entry, NEW c \in Confs
    PROVE  /\ Cleaned(e) \in Entry /\ Cleaned(e).breachCount = 0
           /\ Cleaned(e).debouncedUntil = 0 /\ Cleaned(e).lastFire = e.lastFire
           /\ Counted(e) \in Entry /\ Counted(e).breachCount = e.breachCount + 1
           /\ Counted(e).debouncedUntil = e.debouncedUntil
           /\ Counted(e).lastFire = e.lastFire
           /\ Armed(e, c) \in Entry /\ Armed(e, c).breachCount = e.breachCount + 1
           /\ Armed(e, c).debouncedUntil = clock + c.debounce
           /\ Armed(e, c).lastFire = e.lastFire
           /\ Reset(e) \in Entry /\ Reset(e).breachCount = 0
           /\ Reset(e).debouncedUntil = 0 /\ Reset(e).lastFire = clock
  <1>1. /\ e.breachCount \in Nat /\ e.debouncedUntil \in Nat /\ e.lastFire \in Nat
        /\ e.lastTouched \in Nat /\ c.debounce \in Nat
    BY DEF Entry
  <1>2. /\ Cleaned(e) \in Entry /\ Cleaned(e).breachCount = 0
        /\ Cleaned(e).debouncedUntil = 0 /\ Cleaned(e).lastFire = e.lastFire
    BY <1>1 DEF Cleaned, Entry
  <1>3. /\ Counted(e) \in Entry /\ Counted(e).breachCount = e.breachCount + 1
        /\ Counted(e).debouncedUntil = e.debouncedUntil
        /\ Counted(e).lastFire = e.lastFire
    <2>1. PICK n \in Nat : n = e.breachCount + 1
      BY <1>1
    <2>2. Counted(e) = [e EXCEPT !.breachCount = n, !.lastTouched = clock]
      BY <2>1 DEF Counted
    <2> QED
      BY <1>1, <2>1, <2>2 DEF Entry
  <1>4. /\ Armed(e, c) \in Entry /\ Armed(e, c).breachCount = e.breachCount + 1
        /\ Armed(e, c).debouncedUntil = clock + c.debounce
        /\ Armed(e, c).lastFire = e.lastFire
    <2>1. PICK n \in Nat, t \in Nat : n = e.breachCount + 1 /\ t = clock + c.debounce
      BY <1>1
    <2>2. Armed(e, c) = [e EXCEPT !.breachCount = n, !.debouncedUntil = t,
                                  !.lastTouched = clock]
      BY <2>1 DEF Armed
    <2> QED
      BY <1>1, <2>1, <2>2 DEF Entry
  <1>5. /\ Reset(e) \in Entry /\ Reset(e).breachCount = 0
        /\ Reset(e).debouncedUntil = 0 /\ Reset(e).lastFire = clock
    BY <1>1 DEF Reset, Entry
  <1> QED
    BY <1>2, <1>3, <1>4, <1>5

-----------------------------------------------------------------------------
(* The invariant holds.                                                    *)

LEMMA InitInv == Init => Inv
  BY DEF Init, Inv, TypeOK, Linked, Past, SnapFaithful, FireRemembered, CountsRun,
         IdleUnarmed, ArmedSince, Fresh, Entry

\* Steps that neither store nor drop an entry.
LEMMA QuietInv ==
    ASSUME Inv, \/ \E s \in Samples : Arrive(s) \/ Loaded(s) \/ Fired(s) \/ Finish(s)
                \/ Tick \/ UNCHANGED vars
    PROVE  Inv'
  <1>1. CASE \E s \in Samples : Arrive(s)
    BY <1>1 DEF Inv, TypeOK, Linked, Past, SnapFaithful, FireRemembered, CountsRun,
                IdleUnarmed, ArmedSince, Arrive, history
  <1>2. CASE \E s \in Samples : Loaded(s)
    BY <1>2 DEF Inv, TypeOK, Linked, Past, SnapFaithful, FireRemembered, CountsRun,
                IdleUnarmed, ArmedSince, Loaded, history
  <1>3. CASE \E s \in Samples : Fired(s)
    BY <1>3 DEF Inv, TypeOK, Linked, Past, SnapFaithful, FireRemembered, CountsRun,
                IdleUnarmed, ArmedSince, Fired, history
  <1>5. CASE \E s \in Samples : Finish(s)
    <2>1. PICK s \in Samples : Finish(s)
      BY <1>5
    <2>2. TypeOK'
      BY <2>1 DEF Inv, TypeOK, Finish, history
    <2>3. SnapFaithful'
      BY <2>1 DEF Inv, TypeOK, Linked, SnapFaithful, Finish
    <2> QED
      BY <2>1, <2>2, <2>3 DEF Inv, Linked, Past, FireRemembered, CountsRun,
                IdleUnarmed, ArmedSince, Finish, history
  <1>4. CASE Tick \/ UNCHANGED vars
    BY <1>4 DEF Inv, TypeOK, Linked, Past, SnapFaithful, FireRemembered, CountsRun,
                IdleUnarmed, ArmedSince, Tick, vars, evals, history
  <1> QED
    BY <1>1, <1>2, <1>3, <1>4, <1>5

\* The entry stored for rule r keeps the links, given what the action did to it and to
\* the history of r.
LEMMA StoreKeepsLinks ==
    ASSUME Inv, NEW r \in Rules, NEW e \in Entry,
           clock' = clock, edited' = edited, setting' = setting, snap' = snap,
           lastFired' \in [Rules -> Nat], lastClean' \in [Rules -> Nat],
           run' \in [Rules -> Nat],
           \A k \in Rules : \/ state'[k] = Fresh /\ k \in forgotten'
                            \/ state'[k] = IF k = r THEN e ELSE state[k],
           forgotten \ {r} \subseteq forgotten',
           \A k \in Rules \ {r} : /\ lastFired'[k] = lastFired[k]
                                  /\ lastClean'[k] = lastClean[k] /\ run'[k] = run[k],
           lastFired'[r] <= clock, lastClean'[r] <= clock,
           r \notin forgotten' => e.lastFire = lastFired'[r],
           e.breachCount <= run'[r],
           e.breachCount = 0 => e.debouncedUntil = 0,
           r \notin edited /\ setting[r].debounce > 0 /\ e.breachCount # 0
           => /\ e.debouncedUntil >= lastFired'[r] + setting[r].debounce
              /\ e.debouncedUntil >= lastClean'[r] + setting[r].debounce
    PROVE  Linked'
  <1>1. TypeOK /\ Linked
    BY DEF Inv
  <1>2. Past' /\ SnapFaithful'
    BY <1>1 DEF TypeOK, Linked, Past, SnapFaithful
  <1>3. FireRemembered'
    BY <1>1 DEF TypeOK, Linked, FireRemembered
  <1>4. Fresh.breachCount = 0 /\ Fresh.debouncedUntil = 0
    BY DEF Fresh
  <1>5. CountsRun'
    <2> SUFFICES ASSUME NEW k \in Rules PROVE (state'[k]).breachCount <= run'[k]
      BY DEF CountsRun
    <2>1. CASE state'[k] = Fresh
      BY <1>4, <2>1
    <2>2. CASE k = r /\ state'[k] = e
      BY <2>2
    <2>3. CASE k # r /\ state'[k] = state[k]
      BY <1>1, <2>3 DEF Linked, CountsRun
    <2> QED
      BY <2>1, <2>2, <2>3
  <1>6. IdleUnarmed'
    <2> SUFFICES ASSUME NEW k \in Rules, (state'[k]).breachCount = 0
                 PROVE  (state'[k]).debouncedUntil = 0
      BY DEF IdleUnarmed
    <2>1. CASE state'[k] = Fresh
      BY <1>4, <2>1
    <2>2. CASE k = r /\ state'[k] = e
      BY <2>2
    <2>3. CASE k # r /\ state'[k] = state[k]
      BY <1>1, <2>3 DEF Linked, IdleUnarmed
    <2> QED
      BY <2>1, <2>2, <2>3
  <1>7. ArmedSince'
    <2> SUFFICES ASSUME NEW k \in Rules \ edited, setting[k].debounce > 0,
                        (state'[k]).breachCount # 0
                 PROVE  /\ (state'[k]).debouncedUntil >= lastFired'[k] + setting[k].debounce
                        /\ (state'[k]).debouncedUntil >= lastClean'[k] + setting[k].debounce
      BY DEF ArmedSince
    <2>1. CASE state'[k] = Fresh
      BY <1>4, <2>1
    <2>2. CASE k = r /\ state'[k] = e
      BY <2>2
    <2>3. CASE k # r /\ state'[k] = state[k]
      BY <1>1, <2>3 DEF Linked, ArmedSince
    <2> QED
      BY <2>1, <2>2, <2>3
  <1> QED
    BY <1>2, <1>3, <1>5, <1>6, <1>7 DEF Linked

LEMMA CleanInv ==
    ASSUME Inv, NEW s \in Samples, NEW r \in Rules, Clean(s, r)
    PROVE  Inv'
  <1>1. TypeOK /\ Linked /\ state[r] \in Entry /\ setting[r] \in Confs /\ clock \in Nat
    BY DEF Inv, TypeOK
  <1>2. PICK e : e = Cleaned(state[r])
    OBVIOUS
  <1>3. /\ e \in Entry /\ e.breachCount = 0 /\ e.debouncedUntil = 0
        /\ e.lastFire = state[r].lastFire
    BY <1>1, <1>2, StoredEntries
  <1>4. Touch(r, e, forgotten) /\ forgotten \in SUBSET Rules
    BY <1>1, <1>2 DEF Clean, TypeOK
  <1>5. /\ known' \subseteq Rules /\ forgotten' \subseteq Rules
        /\ state' \in [Rules -> Entry]
        /\ \A k \in Rules \ known' : state'[k] = Fresh
        /\ forgotten \subseteq forgotten'
        /\ \A k \in Rules : \/ state'[k] = Fresh /\ k \in forgotten'
                            \/ state'[k] = IF k = r THEN e ELSE state[k]
    BY <1>1, <1>3, <1>4, TouchEffect
  <1>6. TypeOK'
    BY <1>1, <1>5 DEF TypeOK, Clean, Passed
  <1>7. Linked'
    <2>1. r \notin forgotten' => e.lastFire = lastFired'[r]
      BY <1>1, <1>3, <1>5 DEF TypeOK, Linked, FireRemembered, Clean
    <2>2. lastFired'[r] <= clock /\ lastClean'[r] <= clock
      BY <1>1 DEF TypeOK, Linked, Past, Clean
    <2>3. e.breachCount <= run'[r]
      BY <1>1, <1>3, <1>6 DEF TypeOK
    <2>4. /\ UNCHANGED <<clock, edited, setting, snap>>
          /\ \A k \in Rules \ {r} : /\ lastFired'[k] = lastFired[k]
                                    /\ lastClean'[k] = lastClean[k] /\ run'[k] = run[k]
          /\ lastFired' \in [Rules -> Nat] /\ lastClean' \in [Rules -> Nat]
          /\ run' \in [Rules -> Nat] /\ forgotten \ {r} \subseteq forgotten'
      BY <1>1, <1>5, <1>6 DEF TypeOK, Clean
    <2> QED
      BY <1>3, <1>5, <2>1, <2>2, <2>3, <2>4, StoreKeepsLinks
  <1> QED
    BY <1>6, <1>7 DEF Inv

\* A breach: armed or held, the entry counts one more.
LEMMA BreachInv ==
    ASSUME Inv, NEW s \in Samples, NEW r \in Rules, Arm(s, r) \/ Hold(s, r)
    PROVE  Inv'
  <1> DEFINE c == snap[s][r]
  <1>1. /\ TypeOK /\ Linked /\ state[r] \in Entry /\ setting[r] \in Confs /\ clock \in Nat
        /\ c \in Confs /\ c.debounce \in Nat
    BY DEF Inv, TypeOK
  <1>2. PICK e : /\ e \in Entry /\ Breach(s, r, e)
                 /\ e.breachCount = state[r].breachCount + 1
                 /\ e.lastFire = state[r].lastFire
                 /\ \/ e.debouncedUntil = clock + c.debounce
                    \/ /\ e.debouncedUntil = state[r].debouncedUntil
                       /\ ~Arming(state[r], c)
    <2>1. CASE Arm(s, r)
      BY <1>1, <2>1, StoredEntries DEF Arm
    <2>2. CASE Hold(s, r)
      BY <1>1, <2>2, StoredEntries DEF Hold
    <2> QED
      BY <2>1, <2>2
  <1>4. Touch(r, e, forgotten) /\ forgotten \in SUBSET Rules
    BY <1>1, <1>2 DEF Breach, TypeOK
  <1>5. /\ known' \subseteq Rules /\ forgotten' \subseteq Rules
        /\ state' \in [Rules -> Entry]
        /\ \A k \in Rules \ known' : state'[k] = Fresh
        /\ forgotten \subseteq forgotten'
        /\ \A k \in Rules : \/ state'[k] = Fresh /\ k \in forgotten'
                            \/ state'[k] = IF k = r THEN e ELSE state[k]
    BY <1>1, <1>2, <1>4, TouchEffect
  <1>6. TypeOK'
    <2>1. run' \in [Rules -> Nat]
      BY <1>1, <1>2 DEF TypeOK, Breach
    <2> QED
      BY <1>1, <1>2, <1>5, <2>1 DEF TypeOK, Breach, Passed
  <1>7. Linked'
    <2>1. r \notin forgotten' => e.lastFire = lastFired'[r]
      BY <1>1, <1>2, <1>5 DEF TypeOK, Linked, FireRemembered, Breach
    <2>2. lastFired'[r] <= clock /\ lastClean'[r] <= clock
      BY <1>1, <1>2 DEF TypeOK, Linked, Past, Breach
    <2>3. e.breachCount <= run'[r] /\ e.breachCount # 0
      BY <1>1, <1>2 DEF TypeOK, Linked, CountsRun, Breach, Entry
    <2>4. ASSUME r \notin edited, setting[r].debounce > 0
          PROVE  /\ e.debouncedUntil >= lastFired'[r] + setting[r].debounce
                 /\ e.debouncedUntil >= lastClean'[r] + setting[r].debounce
      <3>1. c = setting[r] /\ lastFired' = lastFired /\ lastClean' = lastClean
        BY <1>1, <1>2, <2>4 DEF Linked, SnapFaithful, Breach
      <3>2. CASE e.debouncedUntil = clock + c.debounce
        BY <1>1, <2>2, <3>1, <3>2 DEF TypeOK
      <3>3. CASE e.debouncedUntil = state[r].debouncedUntil /\ ~Arming(state[r], c)
        <4>1. state[r].breachCount # 0
          BY <1>1, <2>4, <3>1, <3>3 DEF Linked, IdleUnarmed, Arming, Entry
        <4> QED
          BY <1>1, <2>4, <3>1, <3>3, <4>1 DEF Linked, ArmedSince
      <3> QED
        BY <1>2, <3>2, <3>3
    <2>5. /\ UNCHANGED <<clock, edited, setting, snap>>
          /\ \A k \in Rules \ {r} : /\ lastFired'[k] = lastFired[k]
                                    /\ lastClean'[k] = lastClean[k] /\ run'[k] = run[k]
          /\ lastFired' \in [Rules -> Nat] /\ lastClean' \in [Rules -> Nat]
          /\ run' \in [Rules -> Nat] /\ forgotten \ {r} \subseteq forgotten'
      BY <1>1, <1>2, <1>5, <1>6 DEF TypeOK, Breach
    <2> QED
      BY <1>2, <1>5, <2>1, <2>2, <2>3, <2>4, <2>5, StoreKeepsLinks
  <1> QED
    BY <1>6, <1>7 DEF Inv

LEMMA FireInv ==
    ASSUME Inv, NEW s \in Samples, NEW r \in Rules, Fire(s, r)
    PROVE  Inv'
  <1>1. TypeOK /\ Linked /\ state[r] \in Entry /\ setting[r] \in Confs /\ clock \in Nat
    BY DEF Inv, TypeOK
  <1>2. PICK e : e = Reset(state[r])
    OBVIOUS
  <1>3. /\ e \in Entry /\ e.breachCount = 0 /\ e.debouncedUntil = 0 /\ e.lastFire = clock
    BY <1>1, <1>2, StoredEntries
  <1>4. Touch(r, e, forgotten \ {r}) /\ forgotten \ {r} \in SUBSET Rules
    BY <1>1, <1>2 DEF Fire, TypeOK
  <1>5. /\ known' \subseteq Rules /\ forgotten' \subseteq Rules
        /\ state' \in [Rules -> Entry]
        /\ \A k \in Rules \ known' : state'[k] = Fresh
        /\ forgotten \ {r} \subseteq forgotten'
        /\ \A k \in Rules : \/ state'[k] = Fresh /\ k \in forgotten'
                            \/ state'[k] = IF k = r THEN e ELSE state[k]
    BY <1>1, <1>3, <1>4, TouchEffect
  <1>6. TypeOK'
    BY <1>1, <1>5 DEF TypeOK, Fire, Passed
  <1>7. Linked'
    <2>1. lastFired'[r] = clock /\ lastClean' = lastClean
      BY <1>1 DEF TypeOK, Fire
    <2>2. lastFired'[r] <= clock /\ lastClean'[r] <= clock
      BY <1>1, <2>1 DEF TypeOK, Linked, Past
    <2>3. e.breachCount <= run'[r]
      BY <1>1, <1>3, <1>6 DEF TypeOK
    <2>4. /\ UNCHANGED <<clock, edited, setting, snap>>
          /\ \A k \in Rules \ {r} : /\ lastFired'[k] = lastFired[k]
                                    /\ lastClean'[k] = lastClean[k] /\ run'[k] = run[k]
          /\ lastFired' \in [Rules -> Nat] /\ lastClean' \in [Rules -> Nat]
          /\ run' \in [Rules -> Nat]
      BY <1>1, <1>6 DEF TypeOK, Fire
    <2> QED
      BY <1>3, <1>5, <2>1, <2>2, <2>3, <2>4, StoreKeepsLinks
  <1> QED
    BY <1>6, <1>7 DEF Inv

\* Dropping entries: by age, or all at a restart.
LEMMA ForgetInv ==
    ASSUME Inv, Prune \/ Restart
    PROVE  Inv'
  <1>1. TypeOK /\ Linked
    BY DEF Inv
  <1>2. PICK keys \in SUBSET known : Forget(keys)
    BY DEF Prune, Restart
  <1>3. /\ known' \subseteq Rules /\ forgotten' \subseteq Rules
        /\ state' \in [Rules -> Entry]
        /\ \A k \in Rules \ known' : state'[k] = Fresh
        /\ forgotten \subseteq forgotten'
        /\ \A k \in Rules : \/ state'[k] = Fresh /\ k \in forgotten'
                            \/ state'[k] = state[k]
    BY <1>1, <1>2, ForgetEffect
  <1>4. UNCHANGED <<clock, edited, setting, lastFired, lastClean, run>>
    BY <1>2 DEF Forget
  <1>5. TypeOK' /\ SnapFaithful'
    <2>1. CASE Prune
      BY <1>1, <1>3, <1>4, <2>1 DEF TypeOK, Linked, SnapFaithful, Prune, evals
    <2>2. CASE Restart
      BY <1>1, <1>3, <1>4, <2>2 DEF TypeOK, Linked, SnapFaithful, Restart
    <2> QED
      BY <2>1, <2>2
  <1>6. Past' /\ FireRemembered'
    BY <1>1, <1>3, <1>4 DEF TypeOK, Linked, Past, FireRemembered
  <1>7. CountsRun' /\ IdleUnarmed' /\ ArmedSince'
    BY <1>1, <1>3, <1>4 DEF TypeOK, Linked, CountsRun, IdleUnarmed, ArmedSince, Fresh
  <1> QED
    BY <1>5, <1>6, <1>7 DEF Inv, Linked

\* The inductive invariant holds in every behaviour of the engine.
THEOREM Invariance == Spec => []Inv
  <1>1. Inv /\ [Next]_vars => Inv'
    <2> SUFFICES ASSUME Inv, [Next]_vars PROVE Inv'
      OBVIOUS
    <2>1. CASE \/ \E s \in Samples : Arrive(s) \/ Loaded(s) \/ Fired(s) \/ Finish(s)
               \/ Tick \/ UNCHANGED vars
      BY <2>1, QuietInv
    <2>2. CASE \E s \in Samples, r \in Rules : Clean(s, r) \/ Arm(s, r) \/ Hold(s, r) \/ Fire(s, r)
      BY <2>2, CleanInv, BreachInv, FireInv
    <2>3. CASE Prune \/ Restart
      BY <2>3, ForgetInv
    <2> QED
      BY <2>1, <2>2, <2>3 DEF Next, Evaluate
  <1> QED
    BY <1>1, InitInv, PTL DEF Spec

-----------------------------------------------------------------------------
(* What follows from it.                                                   *)

\* ruleState holds entries of its keys only, and the evaluations keep their types,
\* whatever overlaps, is evicted or restarts.
THEOREM TypeCorrect == Spec => []TypeOK
  BY Invariance, PTL DEF Inv

\* Only a step of the evaluation itself raises an alarm.
LEMMA RaisedByFire ==
    ASSUME TypeOK, [Next]_vars, NEW s \in Samples, NEW r \in Rules, Raised(s, r)
    PROVE  Fire(s, r)
  <1>1. CASE \E q \in Samples, x \in Rules : Fire(q, x)
    <2>1. PICK q \in Samples, x \in Rules : Fire(q, x)
      BY <1>1
    <2>2. firing' = [firing EXCEPT ![q] = {x}] /\ firing \in [Samples -> SUBSET Rules]
      BY <2>1 DEF TypeOK, Fire
    <2>3. q = s
      BY <2>2 DEF Raised
    <2>4. x = r
      BY <2>2, <2>3 DEF Raised
    <2> QED
      BY <2>1, <2>3, <2>4
  <1>2. CASE \E q \in Samples : Arrive(q) \/ Loaded(q) \/ Finish(q)
    BY <1>2 DEF Raised, Arrive, Loaded, Finish
  <1>3. CASE \E q \in Samples : Fired(q)
    BY <1>3 DEF TypeOK, Raised, Fired
  <1>4. CASE \E q \in Samples, x \in Rules : Clean(q, x) \/ Arm(q, x) \/ Hold(q, x)
    BY <1>4 DEF Raised, Clean, Arm, Hold, Breach
  <1>5. CASE Tick \/ Prune \/ UNCHANGED vars
    BY <1>5 DEF Raised, Tick, Prune, evals, vars
  <1>6. CASE Restart
    BY <1>6 DEF TypeOK, Raised, Restart
  <1> QED
    BY <1>1, <1>2, <1>3, <1>4, <1>5, <1>6 DEF Next, Evaluate

\* What the invariant says of a rule at the moment its alarm is raised.
LEMMA AtFire ==
    ASSUME Inv, NEW s \in Samples, NEW r \in Rules, Fire(s, r)
    PROVE  /\ (r \in edited => r \notin forgotten)
              => clock - lastFired[r] >= snap[s][r].debounce
           /\ r \notin edited => clock - lastClean[r] >= snap[s][r].debounce
           /\ run[r] + 1 >= snap[s][r].consecutive
  <1> DEFINE c == snap[s][r]
             D == c.debounce
  <1>1. /\ TypeOK /\ Linked /\ clock \in Nat /\ lastFired[r] \in Nat /\ lastClean[r] \in Nat
        /\ lastFired[r] <= clock /\ lastClean[r] <= clock
        /\ c \in Confs /\ D \in Nat /\ c.consecutive \in Nat /\ state[r] \in Entry
    BY DEF Inv, TypeOK, Linked, Past
  <1>2. ~Arming(state[r], c) /\ ~Suppressed(state[r], c)
    BY DEF Fire
  <1>3. /\ state[r].breachCount \in Nat /\ state[r].debouncedUntil \in Nat
        /\ state[r].lastFire \in Nat
    BY <1>1 DEF Entry
  <1>4. run[r] + 1 >= c.consecutive
    BY <1>1, <1>2, <1>3 DEF Suppressed, TypeOK, Linked, CountsRun
  <1>5. CASE D = 0
    BY <1>1, <1>4, <1>5
  <1>6. CASE D > 0
    <2>1. clock >= state[r].debouncedUntil /\ state[r].breachCount # 0
          /\ clock - state[r].lastFire >= D
      BY <1>1, <1>2, <1>3, <1>6 DEF Arming, Suppressed
    <2>2. r \notin forgotten => clock - lastFired[r] >= D
      BY <1>1, <2>1 DEF Linked, FireRemembered
    <2>3. ASSUME r \notin edited
          PROVE  clock - lastFired[r] >= D /\ clock - lastClean[r] >= D
      <3>1. c = setting[r]
        BY <1>1, <2>3 DEF Linked, SnapFaithful
      <3>2. /\ state[r].debouncedUntil >= lastFired[r] + D
            /\ state[r].debouncedUntil >= lastClean[r] + D
        BY <1>1, <1>6, <2>1, <2>3, <3>1 DEF Linked, ArmedSince
      <3> QED
        BY <1>1, <1>3, <2>1, <3>2
    <2> QED
      BY <1>4, <2>2, <2>3
  <1> QED
    BY <1>1, <1>5, <1>6

\* "never re-fire within debounce window after a fire", for any number of rules,
\* samples, overlaps, evictions and restarts.
THEOREM Spaced == Spec => FiresSpaced
  <1>1. Inv /\ [Next]_vars
        => [\A s \in Samples, r \in Rules :
              Raised(s, r) /\ (r \in edited => r \notin forgotten)
              => clock - lastFired[r] >= snap[s][r].debounce]_vars
    BY RaisedByFire, AtFire DEF Inv
  <1> QED
    BY <1>1, Invariance, PTL DEF Spec, FiresSpaced

\* "once armed, wait the debounce window before firing": no clean sample in between.
THEOREM Unbroken == Spec => FiresOnlyAfterUnbrokenBreach
  <1>1. Inv /\ [Next]_vars
        => [\A s \in Samples, r \in Rules \ edited :
              Raised(s, r) => clock - lastClean[r] >= snap[s][r].debounce]_vars
    BY RaisedByFire, AtFire DEF Inv
  <1> QED
    BY <1>1, Invariance, PTL DEF Spec, FiresOnlyAfterUnbrokenBreach

\* "require N consecutive breaches before firing", counted as they are evaluated.
THEOREM Enough == Spec => FiresOnlyAfterEnoughBreaches
  <1>1. Inv /\ [Next]_vars
        => [\A s \in Samples, r \in Rules :
              Raised(s, r) => run[r] + 1 >= snap[s][r].consecutive]_vars
    BY RaisedByFire, AtFire DEF Inv
  <1> QED
    BY <1>1, Invariance, PTL DEF Spec, FiresOnlyAfterEnoughBreaches

\* RULE_STATE_MAX_KEYS holds, because an entry is added only where one is dropped.
THEOREM Bounded == Spec => []StateBounded
  <1> DEFINE B == IsFiniteSet(known) /\ StateBounded
  <1>1. Init => B
    BY FS_EmptySet DEF Init, StateBounded
  <1>2. ASSUME B, NEW r \in Rules, NEW entry, NEW forgot, Touch(r, entry, forgot)
        PROVE  B'
    <2> DEFINE keys == known \cup {r}
    <2>1. /\ IsFiniteSet(keys) /\ Cardinality(keys) \in Nat /\ Cardinality(known) \in Nat
          /\ Cardinality(keys) <= Cardinality(known) + 1
      <3>1. IsFiniteSet(known) /\ Cardinality(known) \in Nat
        BY <1>2, FS_CardinalityType
      <3>2. /\ IsFiniteSet(known \cup {r})
            /\ Cardinality(known \cup {r})
               = IF r \in known THEN Cardinality(known) ELSE Cardinality(known) + 1
        BY <3>1, FS_AddElement
      <3> QED
        BY <3>1, <3>2
    <2>2. CASE Cardinality(keys) > MaxKeys
      <3>1. PICK k \in keys : known' = keys \ {k}
        BY <1>2, <2>2 DEF Touch, Oldest
      <3>2. IsFiniteSet(known') /\ Cardinality(known') = Cardinality(keys) - 1
        BY <2>1, <3>1, FS_RemoveElement
      <3> QED
        BY <1>2, <2>1, <3>2 DEF StateBounded
    <2>3. CASE ~(Cardinality(keys) > MaxKeys)
      <3>1. known' = keys
        BY <1>2, <2>3 DEF Touch
      <3> QED
        BY <2>1, <2>3, <3>1 DEF StateBounded
    <2> QED
      BY <2>2, <2>3
  <1>3. ASSUME B, NEW keys, Forget(keys) PROVE B'
    <2>1. known' \subseteq known
      BY <1>3 DEF Forget
    <2> QED
      BY <1>3, <2>1, FS_Subset, FS_CardinalityType DEF StateBounded
  <1>4. ASSUME B, UNCHANGED known PROVE B'
    BY <1>4 DEF StateBounded
  <1>5. B /\ [Next]_vars => B'
    <2> SUFFICES ASSUME B, [Next]_vars PROVE B'
      OBVIOUS
    <2>1. CASE \E s \in Samples, r \in Rules : Clean(s, r) \/ Arm(s, r) \/ Hold(s, r) \/ Fire(s, r)
      <3> PICK s \in Samples, r \in Rules : Clean(s, r) \/ Arm(s, r) \/ Hold(s, r) \/ Fire(s, r)
        BY <2>1
      <3>1. \E entry, forgot : Touch(r, entry, forgot)
        BY DEF Clean, Arm, Hold, Breach, Fire
      <3> QED
        BY <3>1, <1>2
    <2>2. CASE Prune \/ Restart
      <3>1. \E keys : Forget(keys)
        BY <2>2 DEF Prune, Restart
      <3> QED
        BY <3>1, <1>3
    <2>3. CASE \/ \E s \in Samples : Arrive(s) \/ Loaded(s) \/ Fired(s) \/ Finish(s)
               \/ Tick \/ UNCHANGED vars
      BY <2>3, <1>4 DEF Arrive, Loaded, Fired, Finish, Tick, vars
    <2> QED
      BY <2>1, <2>2, <2>3 DEF Next, Evaluate
  <1> QED
    BY <1>1, <1>5, PTL DEF Spec
=============================================================================
