----------------------------- MODULE AlertTicket -----------------------------
(***************************************************************************)
(* What an alert promises to whoever works on it: it opens, it is taken in *)
(* charge, it is resolved, in this order and never back; it grows more     *)
(* severe, a tier at a time, only while nobody has taken it in charge; and *)
(* it goes away only with its rule.                                        *)
(***************************************************************************)
EXTENDS Naturals

CONSTANT Alerts

VARIABLES status,   \* absent, open, acknowledged, resolved
          severity  \* 0 warning, 1 major, 2 critical; 0 when absent

Init == status = [a \in Alerts |-> "absent"] /\ severity = [a \in Alerts |-> 0]

Open(a) ==
    /\ status[a] = "absent"
    /\ status' = [status EXCEPT ![a] = "open"]
    /\ \E tier \in 0 .. 2 : severity' = [severity EXCEPT ![a] = tier]

Advance(a) ==
    /\ \E next \in {"acknowledged", "resolved"} :
           /\ <<status[a], next>> \in {<<"open", "acknowledged">>, <<"open", "resolved">>,
                                        <<"acknowledged", "resolved">>}
           /\ status' = [status EXCEPT ![a] = next]
    /\ UNCHANGED severity

\* Any of the open alerts, together
Escalate ==
    /\ \E due \in SUBSET {a \in Alerts : status[a] = "open" /\ severity[a] < 2} :
           severity' = [a \in Alerts |-> IF a \in due THEN severity[a] + 1 ELSE severity[a]]
    /\ UNCHANGED status

Withdraw ==
    /\ status' = [a \in Alerts |-> "absent"]
    /\ severity' = [a \in Alerts |-> 0]

Next == (\E a \in Alerts : Open(a) \/ Advance(a)) \/ Escalate \/ Withdraw

Spec == Init /\ [][Next]_<<status, severity>>
==============================================================================
