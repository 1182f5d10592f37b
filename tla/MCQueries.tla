------------------------------ MODULE MCQueries ------------------------------
(* Inputs of Queries small enough for TLC.                                   *)
EXTENDS Queries

Planneds == 0 .. 4

\* Stops longer than the plan, more good pieces than pieces, cycles above the cap
MCOee == [planned : Planneds, downtime : 0 .. 5, ideal : {Frac(0, 1), Frac(1, 2), Frac(2, 1)},
          total : 0 .. 3, good : 0 .. 4]

Stop(start, duration, class) == [start |-> start, duration |-> duration, class |-> class]

Machine(lines) ==
    [line : lines,
     downtimes : {{}, {Stop(4, 9, "unplanned")}, {Stop(4, -2, "unplanned")},
                  {Stop(3, 1, "none"), Stop(4, 1, "unplanned")}, {Stop(0, 3, "unplanned"), Stop(3, 2, "planned")}},
     ideal : {0, 1}, total : {0, 3}, good : {2}]

\* No shift, one that ended a day ago, one that has not ended, two
ShiftSets == {{}, {[start |-> 0, end |-> 1]}, {[start |-> 3, end |-> 9]},
              {[start |-> 2, end |-> 4], [start |-> 4, end |-> 6]}}

\* One machine; two of the same line, or of two lines
MCGroups ==
    [machines : [{"m1"} -> Machine({"l1"})], shifts : [{"l1"} -> ShiftSets]]
    \cup {[machines |-> [m1 |-> a, m2 |-> b], shifts |-> s] :
              a \in Machine({"l1"}), b \in Machine({"l1", "l2"}), s \in [{"l1", "l2"} -> ShiftSets]}

Running == [state |-> "RUN", reason |-> "none"]
Down(r) == [state |-> "DOWN", reason |-> r]

Point(machine, ts, status) ==
    [machine |-> machine, ts |-> ts, state |-> status.state, reason |-> status.reason]

\* A machine that stops for two reasons, and one that stops for one
Histories(machine, statuses, instants) ==
    {{Point(machine, ts, h[ts]) : ts \in DOMAIN h} :
        h \in UNION {[times -> statuses] : times \in SUBSET instants}}

MCPoints ==
    {p \cup q : p \in Histories("m1", {Running, Down("jam"), Down("tool")}, 0 .. 2),
                q \in Histories("m2", {Running, Down("jam")}, 1 .. 2)}

MCIds == {"f1", "l1", "m1", "m2"}

MCTopics == {<<"factory", "f1", "l1", m, k>> : m \in {"m1", "m2"}, k \in {"telemetry", "alarms"}}

\* Every filter of one to six levels that the standard allows
Levels == {"factory", "f1", "m1", "+"}
MCPatterns ==
    LET words == UNION {[1 .. n -> Levels] : n \in 0 .. 5}
    IN (words \ {<<>>}) \cup {w \o <<"#">> : w \in words}

Routes == {<<"health", "GET">>, <<"login", "POST">>, <<"refresh", "POST">>, <<"logout", "POST">>,
           <<"me", "GET">>, <<"me", "DELETE">>, <<"users", "GET">>, <<"users", "POST">>,
           <<"devices", "GET">>, <<"devices", "POST">>, <<"devices", "PUT">>, <<"devices", "DELETE">>,
           <<"metrics", "GET">>, <<"issue", "POST">>, <<"verify", "GET">>, <<"revoke", "POST">>,
           <<"contact", "POST">>, <<"unknown", "GET">>}

\* The Authorization header, and the token it bears
Headers == {<<"none", "none">>, <<"basic", "none">>}
           \cup {<<"bearer", t>> : t \in {"invalid", "refresh", "viewer", "admin"}}

\* Origin, body and rate limit: all in order, or one of them not
Entries == {<<"none", TRUE, FALSE>>, <<"allowed", TRUE, FALSE>>, <<"other", TRUE, FALSE>>,
            <<"allowed", FALSE, FALSE>>, <<"allowed", TRUE, TRUE>>}

\* Outcomes of a handler: an answer, or an error with or without a status
Outcomes == {[kind |-> "answer", status |-> 200], [kind |-> "answer", status |-> 403],
             [kind |-> "error", status |-> 401], [kind |-> "error", status |-> 0]}

MCRequests ==
    {[origin |-> e[1], body |-> e[2], throttled |-> e[3], route |-> r[1], method |-> r[2],
      header |-> h[1], bearer |-> h[2], session |-> s, mirror |-> m, outcome |-> o,
      insert |-> i] :
        e \in Entries, r \in Routes, h \in Headers,
        s \in {"none", "invalid", "refresh", "operator", "supervisor", "admin"},
        m \in BOOLEAN, o \in Outcomes, i \in BOOLEAN}

MCForms == [disabled : BOOLEAN, limited : BOOLEAN, valid : BOOLEAN, bot : BOOLEAN,
            smtp : {"none", "down", "up"}, reply : BOOLEAN]

MCAskings == [found : BOOLEAN, valid : BOOLEAN, protocol : {"opcua", "mqtt", "sparkplug"},
              commands : 0 .. 1, integrations : 0 .. 1, predictive : 0 .. 1]

\* Rendered and inserted in the same millisecond, or not; revoked, or not archived
MCRows ==
    {[Issued("n1", 1, at, "content", archived) EXCEPT !.revoked = revoked] :
        at \in {1, 2}, archived \in BOOLEAN, revoked \in BOOLEAN}

Rule(kind, expression, k) ==
    [facility |-> "f1", line |-> "", machine |-> "m1", metric |-> "temp", kind |-> kind,
     expression |-> expression, window |-> 4, k |-> k]

Expressions ==
    [operator : {">", ">=", "<", "<=", "==", "between", "?"}, threshold : {1}, hysteresis : {0, 1},
     range : {<<0, 1>>}]

NoExpression == [operator |-> "?", threshold |-> 0, hysteresis |-> 0, range |-> <<0, 0>>]

\* Windows of up to six samples, at the times 0, 1, ..., and the sample after them
Windows == UNION {[1 .. n -> {0, 1, 4}] : n \in 0 .. 5}

Samples1(values) == [i \in DOMAIN values |-> [ts |-> i, value |-> values[i]]]

MCRuleInputs ==
    {[rule |-> rule, topic |-> [facility |-> "f1", line |-> "l1", machine |-> m], metric |-> "temp",
      samples |-> <<>>, sample |-> [ts |-> 1, value |-> v]] :
        rule \in {Rule("threshold", e, 0) : e \in Expressions} \cup {Rule("oee", NoExpression, 0)},
        m \in {"m1", "m2"}, v \in 0 .. 2}
    \cup
    {[rule |-> Rule("statistical", NoExpression, k),
      topic |-> [facility |-> "f1", line |-> "l1", machine |-> "m1"], metric |-> "temp",
      samples |-> Samples1(w), sample |-> [ts |-> Len(w) + 1, value |-> v]] :
        k \in -1 .. 2, w \in Windows, v \in {0, 1, 4}}
==============================================================================
