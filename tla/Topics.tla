------------------------------- MODULE Topics -------------------------------
(* mqtt/topics.js. A topic or a pattern is the sequence of its levels; the   *)
(* identifiers that match ID_REGEX are the members of Ids.                   *)
EXTENDS Naturals, Sequences

CONSTANT Ids

KINDS == {"telemetry", "status", "alarms", "counters", "commands"}

build(facility, line, machine, kind) == <<"factory", facility, line, machine, kind>>

\* CANONICAL_TOPIC_REGEX
validate(topic) ==
    /\ Len(topic) = 5
    /\ topic[1] = "factory" /\ topic[5] \in KINDS
    /\ \A i \in 2..4 : topic[i] \in Ids

\* "no topic" is <<>> for the null of the code; a topic that is valid is its own parts.
parse(topic) ==
    IF ~validate(topic) THEN <<>>
    ELSE [facility |-> topic[2], line |-> topic[3], machine |-> topic[4], kind |-> topic[5]]

\* Variant: a pattern also selects what is below its last level.
matchesBelow(pattern, topic) ==
    LET decides(i) == pattern[i] = "#" \/ i > Len(topic) \/ pattern[i] \notin {"+", topic[i]}
        deciding   == {i \in DOMAIN pattern : decides(i)}
    IN deciding = {} \/ \E i \in deciding : /\ \A j \in deciding : i <= j
                                           /\ pattern[i] = "#"

\* The loop: the first level of the pattern that decides, or the lengths.
matches(pattern, topic) ==
    LET decides(i) == \/ pattern[i] = "#"
                      \/ i > Len(topic)
                      \/ pattern[i] # "+" /\ pattern[i] # topic[i]
        deciding   == {i \in DOMAIN pattern : decides(i)}
    IN IF deciding = {} THEN Len(pattern) = Len(topic)
       ELSE \E i \in deciding : /\ \A j \in deciding : i <= j
                                /\ pattern[i] = "#"

\* What the MQTT standard says of a filter whose # is its last level: a + stands for
\* one level, a # for the level before it and every level below.
mqttMatches(pattern, topic) ==
    LET n == Len(pattern)
        sameLevels(k) == \A i \in 1..k : pattern[i] \in {"+", topic[i]}
    IN IF pattern[n] = "#" THEN Len(topic) >= n - 1 /\ sameLevels(n - 1)
       ELSE Len(topic) = n /\ sameLevels(n)
=============================================================================
