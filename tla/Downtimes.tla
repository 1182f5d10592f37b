------------------------------ MODULE Downtimes ------------------------------
(* GET /metrics/downtimes (routes/metrics.js): the Pareto of the stops of a   *)
(* plant, computed from the status points of InfluxDB. A point is a record    *)
(* [machine, ts, state, reason]; state is a tag, so that machine, state and   *)
(* ts identify a point.                                                       *)
EXTENDS Integers, FiniteSets, SequencesExt

\* Each series - a machine in one state - is a table of the answer.
Table(point) == <<point.machine, point.state>>

\* The answers the query may give, of the points of [start, stop): the tables in any
\* order, one after the other, and sort() orders the rows within their table.
FluxRows(points, start, stop) ==
    {rows \in SetToSeqs({p \in points : p.ts >= start /\ p.ts < stop}) :
        \A i, j \in DOMAIN rows :
            i < j /\ Table(rows[i]) = Table(rows[j]) =>
                /\ rows[i].ts <= rows[j].ts
                /\ \A k \in i .. j : Table(rows[k]) = Table(rows[i])}

\* Variant: until the machine runs again.
AfterOfOtherState(rows, i) ==
    {j \in DOMAIN rows : i < j /\ rows[j].machine = rows[i].machine /\ rows[j].state # "DOWN"}

\* The rows of the same machine that arrived later (byMachine)
After(rows, i) == {j \in DOMAIN rows : i < j /\ rows[j].machine = rows[i].machine}

\* A DOWN row lasts until the row after it; the last one until stopTs.
Seconds(rows, i, stopTs) ==
    LET next == IF After(rows, i) = {} THEN stopTs ELSE rows[Min(After(rows, i))].ts
    IN Max({0, next - rows[i].ts})

DownRows(rows) == {i \in DOMAIN rows : rows[i].state = "DOWN"}

\* byReason
Pareto(rows, stopTs) ==
    LET of(reason) == {i \in DownRows(rows) : rows[i].reason = reason}
    IN [reason \in {rows[i].reason : i \in DownRows(rows)} |->
            [seconds     |-> SumFunction([i \in of(reason) |-> Seconds(rows, i, stopTs)]),
             occurrences |-> Cardinality(of(reason))]]
==============================================================================
