------------------------------ MODULE Samples ------------------------------
(* What alert-engine.js makes of one sample: the rules it applies to, the  *)
(* comparison with a threshold, and the window of the statistical rules.   *)
EXTENDS Integers, SequencesExt

CONSTANT MinSamples  \* a statistical rule is silent below this many samples, 10

\* A scope of a rule is an identifier or "" for any.
Within(scope, id) == scope = "" \/ scope = id

applies(rule, parsed, metric) ==
    /\ Within(rule.facility, parsed.facility)
    /\ Within(rule.line, parsed.line)
    /\ Within(rule.machine, parsed.machine)
    /\ Within(rule.metric, metric)

\* rule.expression: the hysteresis moves the threshold away, and nothing else.
evaluateThreshold(e, value) ==
    CASE e.operator = ">="      -> value >= e.threshold + e.hysteresis
      [] e.operator = "<="      -> value <= e.threshold - e.hysteresis
      [] e.operator = "=="      -> value = e.threshold
      [] e.operator = ">"       -> value > e.threshold + e.hysteresis
      [] e.operator = "<"       -> value < e.threshold - e.hysteresis
      [] e.operator = "between" -> value >= e.range[1] /\ value <= e.range[2]
      [] OTHER                  -> FALSE

\* The samples of a window are dropped from its head, while they are too old.
Recent(samples, cutoff) ==
    LET kept == {i \in DOMAIN samples : samples[i].ts >= cutoff}
    IN IF kept = {} THEN <<>> ELSE SubSeq(samples, Min(kept), Len(samples))

\* Variant: the sample is pushed after the statistics.
pushLater(samples, window, sample) == Recent(samples, sample.ts - window)

pushSample(samples, window, sample) ==
    Recent(Append(samples, sample), sample.ts - window)

\* statsFor: the number of samples, their sum, and n (n - 1) times their variance
statsFor(samples) ==
    LET n == Len(samples)
        sum == SumFunction([i \in DOMAIN samples |-> samples[i].value])
        squares == SumFunction([i \in DOMAIN samples |-> samples[i].value * samples[i].value])
    IN [n |-> n, sum |-> sum, spread |-> n * squares - sum * sum]

\* Number(expr.k_sigma) || 2
sigmas(k) == IF k = 0 THEN 2 ELSE k

\* |value - mean| > k sigma, of a window that holds the sample itself, multiplied out; a
\* negative k leaves nothing to exceed but a sigma of 0.
statisticalBreach(samples, value, k) ==
    LET s == statsFor(samples)
        distance == s.n * value - s.sum
    IN /\ s.n >= MinSamples
       /\ IF k < 0 THEN s.spread > 0
          ELSE distance * distance * (s.n - 1) > k * k * s.n * s.spread

\* evaluate() of one rule, before debounce and count
breached(rule, samples, sample) ==
    CASE rule.kind = "threshold"   -> evaluateThreshold(rule.expression, sample.value)
      [] rule.kind = "statistical" ->
             statisticalBreach(pushSample(samples, rule.window, sample), sample.value,
                               sigmas(rule.k))
      [] OTHER                     -> FALSE
=============================================================================
