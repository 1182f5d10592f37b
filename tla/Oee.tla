-------------------------------- MODULE Oee --------------------------------
(* services/oee-calculator.js, and the inputs routes/oee.js feeds it. Times *)
(* are whole units. A ratio is a fraction of naturals and is never rounded: *)
(* of the rounded outputs only the actual cycle is read again by the code.  *)
EXTENDS Integers, FiniteSets, FiniteSetsExt

CONSTANTS DefaultPlanned,  \* the planned time of a line without shifts, 28 800 s
          Day,             \* the 24 hours the shifts and downtimes are taken from
          CycleUnit        \* a cycle is rounded to 1 / CycleUnit, 1/1000 in the code

ASSUME OeeAssumption == {DefaultPlanned, Day, CycleUnit} \subseteq Nat \ {0}

Frac(n, d) == [n |-> n, d |-> d]
Leq(a, b)  == a.n * b.d <= b.n * a.d
Eq(a, b)   == a.n * b.d = b.n * a.d
Times(a, b) == Frac(a.n * b.n, a.d * b.d)

\* Variant: only the lower bound.
ClampBelow(x, top) == Max({0, x})

Clamp(x, top) == Max({0, Min({top, x})})

\* (operating / total).toFixed(3), in units of 1 / CycleUnit
Cycle(operating, total) ==
    IF operating = 0 \/ total = 0 THEN 0 ELSE (2 * CycleUnit * operating + total) \div (2 * total)

Availability(operating, planned) ==
    IF planned = 0 THEN Frac(0, 1) ELSE Frac(operating, planned)

\* Variant: no cap.
PerformanceUncapped(operating, ideal, total) ==
    IF operating = 0 \/ ideal.n = 0 THEN Frac(0, 1)
    ELSE Frac(ideal.n * total, ideal.d * operating)

\* At most 1: a machine that beats its ideal cycle does not make up for its stops.
Performance(operating, ideal, total) ==
    IF operating = 0 \/ ideal.n = 0 THEN Frac(0, 1)
    ELSE Frac(Min({ideal.n * total, ideal.d * operating}), ideal.d * operating)

Quality(good, total) == IF total = 0 THEN Frac(0, 1) ELSE Frac(good, total)

Classification(planned, ideal, total, oee) ==
    CASE planned = 0 \/ ideal.n = 0    -> "insufficient-data"
      [] total = 0                     -> "zero-production"
      [] Leq(Frac(85, 100), oee)       -> "world-class"
      [] Leq(Frac(60, 100), oee)       -> "above-average"
      [] Leq(Frac(50, 100), oee)       -> "average"
      [] OTHER                         -> "below-target"

computeOEE(p) ==
    LET downtime  == Clamp(p.downtime, p.planned)
        operating == p.planned - downtime
        good      == Clamp(p.good, p.total)
        oee       == Times(Times(Availability(operating, p.planned),
                                 Performance(operating, p.ideal, p.total)),
                           Quality(good, p.total))
    IN [planned |-> p.planned, downtime |-> downtime, operating |-> operating,
        total |-> p.total, good |-> good, reject |-> p.total - good,
        availability |-> Availability(operating, p.planned), oee |-> oee,
        cycle |-> Cycle(operating, p.total),
        class |-> Classification(p.planned, p.ideal, p.total, oee)]

SumOf(items, field) == SumFunction([m \in DOMAIN items |-> items[m][field]])

\* The ideal cycle of the group is estimated: the actual cycles, weighted by count.
IdealEstimate(items) ==
    IF SumOf(items, "total") = 0 THEN Frac(0, 1)
    ELSE Frac(SumFunction([m \in DOMAIN items |-> items[m].cycle * items[m].total]),
              CycleUnit * SumOf(items, "total"))

aggregateOEE(items) ==
    computeOEE([planned |-> SumOf(items, "planned"), downtime |-> SumOf(items, "downtime"),
                ideal |-> IdealEstimate(items),
                total |-> SumOf(items, "total"), good |-> SumOf(items, "good")])

\* The shifts and stops of the last day, whatever start and stop were asked for.
Planned(shifts, now) ==
    LET counted == {s \in shifts : s.start < now /\ s.end > now - Day}
        sum     == SumFunction([s \in counted |-> Min({s.end, now}) - s.start])
    IN IF sum = 0 THEN DefaultPlanned ELSE sum

Stopped(downtimes, now) ==
    LET counted == {d \in downtimes : d.start > now - Day /\ d.class \in {"unplanned", "none"}}
    IN SumFunction([d \in counted |-> d.duration])

machineOEE(m, shifts, now) ==
    computeOEE([planned |-> Planned(shifts, now), downtime |-> Stopped(m.downtimes, now),
                ideal |-> Frac(m.ideal, 1), total |-> m.total, good |-> m.good])

\* GET /oee for a line or a facility: every machine, with the shifts of its line, and
\* their aggregate
groupOEE(machines, shifts, now) ==
    LET items == [m \in DOMAIN machines |->
                      machineOEE(machines[m], shifts[machines[m].line], now)]
    IN [machines |-> items, aggregate |-> aggregateOEE(items)]
=============================================================================
