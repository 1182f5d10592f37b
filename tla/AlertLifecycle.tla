--------------------------- MODULE AlertLifecycle ---------------------------
(***************************************************************************)
(* The rows of `alerts`: fireAlert() and the escalation loop of            *)
(* services/alert-engine.js, and the operators of routes/alerts.js. Every  *)
(* replica of the backend runs the loop on a timer of its own, over the    *)
(* same table; the alerts of the model are those of one rule, a warning.   *)
(* Ages stop at the last value that matters.                               *)
(***************************************************************************)
EXTENDS Integers, FiniteSetsExt

CONSTANTS Alerts,    \* alarms of the rule, each fired once
          Engines,   \* replicas
          Interval,  \* config.alerts.escalationIntervalMs
          MaxStops   \* bound of the model: how often a replica stops

ASSUME LoopAssumption == Interval \in Nat \ {0} /\ MaxStops \in Nat

VARIABLES rule,       \* whether the rule is in alert_rules
          status,     \* new, publishing, open, acknowledged, resolved or gone
          severity,
          age,        \* time since fired_at
          escalated,  \* time since escalated_at, Interval + 1 when NULL
          timer,      \* of each replica: time to its next pass, -1 when stopped
          passing,    \* the replicas whose UPDATE is under way
          stops

row  == <<status, severity, age, escalated>>
loop == <<timer, passing, stops>>
alertsVars == <<rule, row, loop>>

Never == Interval + 1

AlertsInit ==
    /\ rule = TRUE
    /\ status = [a \in Alerts |-> "new"] /\ severity = [a \in Alerts |-> 0]
    /\ age = [a \in Alerts |-> Never] /\ escalated = [a \in Alerts |-> Never]
    /\ timer = [e \in Engines |-> -1]
    /\ passing = {} /\ stops = 0

\* fireAlert() of a replica: whether or not the broker gets the alarm, the row is
\* inserted ...
fireAlert(a) ==
    /\ status[a] = "new"
    /\ \E e \in Engines : timer[e] >= 0
    /\ status' = [status EXCEPT ![a] = "publishing"]
    /\ UNCHANGED <<rule, severity, age, escalated, loop>>

\* ... with the severity of the rule, here a warning, if the rule is still there;
Store(a) ==
    /\ status[a] = "publishing"
    /\ rule
    /\ status' = [status EXCEPT ![a] = "open"]
    /\ age' = [age EXCEPT ![a] = 0]
    /\ UNCHANGED <<rule, severity, escalated, loop>>

\* an INSERT that fails, of a deleted rule or with the database away, is only logged.
StoreFail(a) ==
    /\ status[a] = "publishing"
    /\ status' = [status EXCEPT ![a] = "gone"]
    /\ UNCHANGED <<rule, severity, age, escalated, loop>>

\* POST /alerts/:id/acknowledge
acknowledge(a) ==
    /\ status[a] = "open"
    /\ status' = [status EXCEPT ![a] = "acknowledged"]
    /\ UNCHANGED <<rule, severity, age, escalated, loop>>

\* POST /alerts/:id/resolve
resolve(a) ==
    /\ status[a] \in {"open", "acknowledged"}
    /\ status' = [status EXCEPT ![a] = "resolved"]
    /\ UNCHANGED <<rule, severity, age, escalated, loop>>

\* DELETE /alerts/rules/:id takes the alerts of the rule with it.
deleteRule ==
    /\ rule
    /\ rule' = FALSE
    /\ status' = [a \in Alerts |-> IF status[a] \in {"new", "publishing"} THEN status[a] ELSE "gone"]
    /\ severity' = [a \in Alerts |-> 0]
    /\ UNCHANGED <<age, escalated, loop>>

\* The timer of a replica: setInterval() does not wait for the pass before.
TimerFires(e) ==
    /\ timer[e] = 0
    /\ timer' = [timer EXCEPT ![e] = Interval]
    /\ passing' = passing \cup {e}
    /\ UNCHANGED <<rule, row, stops>>

\* Variant: an alert in charge is due too.
DueAnyStatus == {a \in Alerts : status[a] \in {"open", "acknowledged"} /\ escalated[a] > Interval}

\* WHERE status = 'open' AND (escalated_at IS NULL OR escalated_at < NOW() - interval)
Due == {a \in Alerts : status[a] = "open" /\ escalated[a] > Interval}

\* Variant: escalated_at is not written.
EscalateUnstamped(e) ==
    /\ e \in passing
    /\ severity' = [a \in Alerts |-> IF a \in Due THEN Min({2, severity[a] + 1}) ELSE severity[a]]
    /\ passing' = passing \ {e}
    /\ UNCHANGED <<rule, status, age, escalated, timer, stops>>

\* Variant: the CASE forgets the second tier.
EscalateOneTier(e) ==
    /\ e \in passing
    /\ severity' = [a \in Alerts |-> IF a \in Due THEN Max({1, severity[a]}) ELSE severity[a]]
    /\ escalated' = [a \in Alerts |-> IF a \in Due THEN 0 ELSE escalated[a]]
    /\ passing' = passing \ {e}
    /\ UNCHANGED <<rule, status, age, timer, stops>>

\* The UPDATE, one statement for all the rows
Escalate(e) ==
    /\ e \in passing
    /\ severity' = [a \in Alerts |-> IF a \in Due THEN Min({2, severity[a] + 1}) ELSE severity[a]]
    /\ escalated' = [a \in Alerts |-> IF a \in Due THEN 0 ELSE escalated[a]]
    /\ passing' = passing \ {e}
    /\ UNCHANGED <<rule, status, age, timer, stops>>

EscalateFail(e) ==
    /\ e \in passing
    /\ passing' = passing \ {e}
    /\ UNCHANGED <<rule, row, timer, stops>>

\* stop(), or the death of the process; start() of the first one, or of the next
stop(e) ==
    /\ timer[e] >= 0 /\ stops < MaxStops
    /\ stops' = stops + 1
    /\ timer' = [timer EXCEPT ![e] = -1]
    /\ UNCHANGED <<rule, row, passing>>

start(e) ==
    /\ timer[e] = -1
    /\ timer' = [timer EXCEPT ![e] = Interval]
    /\ UNCHANGED <<rule, row, passing, stops>>

\* Timers fire on time; the UPDATE they send runs when PostgreSQL gets to it.
Tick ==
    /\ \A e \in Engines : timer[e] # 0
    /\ timer' = [e \in Engines |-> IF timer[e] > 0 THEN timer[e] - 1 ELSE timer[e]]
    /\ age' = [a \in Alerts |-> Min({Never, age[a] + 1})]
    /\ escalated' = [a \in Alerts |-> Min({Never, escalated[a] + 1})]
    /\ UNCHANGED <<rule, status, severity, passing, stops>>

AlertsNext ==
    \/ \E a \in Alerts : \/ fireAlert(a) \/ Store(a) \/ StoreFail(a)
                         \/ acknowledge(a) \/ resolve(a)
    \/ deleteRule
    \/ \E e \in Engines : \/ TimerFires(e) \/ Escalate(e) \/ EscalateFail(e)
                          \/ stop(e) \/ start(e)
    \/ Tick

AlertsSpec == AlertsInit /\ [][AlertsNext]_alertsVars

\* Time passes, a stopped replica is started again, and of infinitely many passes of a
\* replica infinitely many succeed.
AlertsFairness ==
    /\ WF_alertsVars(Tick)
    /\ \A e \in Engines : /\ WF_alertsVars(TimerFires(e)) /\ WF_alertsVars(stops > 0 /\ start(e))
                          /\ SF_alertsVars(Escalate(e))

AlertsFairSpec == AlertsSpec /\ AlertsFairness

-----------------------------------------------------------------------------
(* Properties.                                                             *)

Ticket == INSTANCE AlertTicket WITH
              status <- [a \in Alerts |-> IF status[a] \in {"new", "publishing", "gone"} THEN "absent"
                                           ELSE status[a]]

\* The rows are tickets: the escalation of every replica races the operators and the
\* deletion of the rule, and never touches an alert that is in charge.
ImplementsTicket == Ticket!Spec

\* An alert that fired as a warning is critical only after an interval, however many
\* replicas run the loop.
TwoTiersTakeAnInterval ==
    \A a \in Alerts : severity[a] = 2 => age[a] > Interval

\* An alert nobody takes in charge becomes critical, although passes fail and replicas
\* stop.
OpenEscalates ==
    \A a \in Alerts : status[a] = "open" ~> (status[a] # "open" \/ severity[a] = 2)
=============================================================================
