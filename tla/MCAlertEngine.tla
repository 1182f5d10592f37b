---------------------------- MODULE MCAlertEngine ----------------------------
(* Instances of AlertEngine small enough for TLC: two rules nobody edits,    *)
(* or one that is edited, with a sample more, beside one that is disabled.   *)
EXTENDS AlertEngine

Conf(d, n, e) == [debounce |-> d, consecutive |-> n, enabled |-> e]

NobodyOrOne == {{}, {CHOOSE r \in Rules : TRUE}}

\* A rule that waits, one that counts, one that does both, and a disabled one
Waiting  == Conf(2, 1, TRUE)
Counting == Conf(0, 2, TRUE)
Both     == Conf(1, 2, TRUE)
Off      == Conf(2, 1, FALSE)

MCConfs == {Waiting, Counting, Both, Off}

MCInit ==
    /\ Init
    /\ IF edited = {} THEN \A r \in Rules : setting[r] \in {Waiting, Counting}
       ELSE \A r \in Rules : setting[r] = Off

\* While a rule is edited the settings an evaluation finds are Counting, Both or Off; the
\* samples breach that rule or none.
MCNext ==
    /\ Next
    /\ IF edited = {} THEN pc'[MaxSamples] = "idle"
       ELSE \A s \in Samples : /\ hits'[s] \subseteq edited
                               /\ \A r \in edited : snap'[s][r] # Waiting

MCSpec == MCInit /\ [][MCNext]_vars
===============================================================================
