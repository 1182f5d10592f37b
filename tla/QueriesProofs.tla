----------------------------- MODULE QueriesProofs -----------------------------
(* Proofs about Queries: what the answers satisfy whatever is asked.           *)
EXTENDS Queries, SumsProofs

\* Each action answers the call it is named for.
LEMMA CallsAreNamed ==
    /\ GetMachineOee => call'[1] = "machineOee"
    /\ GetGroupOee => call'[1] = "groupOee"
    /\ GetDowntimes => call'[1] = "downtimes"
    /\ Match => call'[1] = "matches"
    /\ Request => call'[1] = "request"
    /\ Contact => call'[1] = "contact"
    /\ Preview => call'[1] = "preview"
    /\ Verify => call'[1] = "verify"
    /\ Download => call'[1] = "pdf"
    /\ Metadata => call'[1] = "metadata"
    /\ Evaluate => call'[1] = "evaluate"
  <1>1. \A name, in, out : Answered(name, in, out) => call'[1] = name
    BY DEF Answered
  <1>2. /\ GetMachineOee => call'[1] = "machineOee"
        /\ GetGroupOee => call'[1] = "groupOee"
        /\ Match => call'[1] = "matches"
        /\ Request => call'[1] = "request"
        /\ Contact => call'[1] = "contact"
        /\ Preview => call'[1] = "preview"
    BY <1>1 DEF GetMachineOee, GetGroupOee, Match, Request, Contact, Preview
  <1>3. /\ Verify => call'[1] = "verify"
        /\ Download => call'[1] = "pdf"
        /\ Metadata => call'[1] = "metadata"
        /\ Evaluate => call'[1] = "evaluate"
        /\ GetDowntimes => call'[1] = "downtimes"
    BY <1>1 DEF Verify, Download, Metadata, Evaluate, GetDowntimes
  <1> QED
    BY <1>2, <1>3

LEMMA InterconnectionHolds ==
    ASSUME NEW asking, preview(asking).status = 200
    PROVE  preview(asking).attestazione.reason # "interconnection"
  BY DEF preview, generateAttestazione, CHARACTERISTICS, INTERCONNECTION, Mandatory

\* The two-out-of-three clause never decides.
THEOREM TwoOfThreeIsImplied == Spec => []InterconnectionNeverDecides
  <1>1. Init => InterconnectionNeverDecides
    BY DEF Init, InterconnectionNeverDecides, Asked
  <1>2. InterconnectionNeverDecides /\ [Next]_vars => InterconnectionNeverDecides'
    <2> SUFFICES ASSUME InterconnectionNeverDecides, [Next]_vars, Asked("preview")'
                 PROVE  result'.status = 200 => result'.attestazione.reason # "interconnection"
      BY DEF InterconnectionNeverDecides
    <2>1. CASE UNCHANGED vars
      BY <2>1 DEF InterconnectionNeverDecides, vars, Asked, result
    <2>2. CASE Preview
      <3>1. PICK asking \in Askings : Answered("preview", asking, preview(asking))
        BY <2>2 DEF Preview, New
      <3>2. result' = preview(asking)
        BY <3>1 DEF Answered, result
      <3> QED
        BY <3>2, InterconnectionHolds
    <2> QED
      BY <2>1, <2>2, CallsAreNamed DEF Next, Asked
  <1> QED
    BY <1>1, <1>2, PTL DEF Spec

-----------------------------------------------------------------------------
(* The guards of the requests.                                             *)

\* A cookie opens a handler only behind csrfMiddleware().
LEMMA ReachedIsMirrored ==
    ASSUME NEW req, Serve(req).reached, Serve(req).source = "cookie"
    PROVE  \/ req.method \in SAFE_METHODS
           \/ req.route \in BOOTSTRAP_POSTS
           \/ req.mirror
  <1>1. Entry(req) = 0
    BY DEF Serve
  <1>2. req.header # "bearer"
    BY DEF Serve, extractToken
  <1>3. csrfMiddleware(req) = 0
    BY <1>1 DEF Entry
  <1> QED
    BY <1>2, <1>3 DEF csrfMiddleware

LEMMA ReachedIsAudited ==
    ASSUME NEW req \in Requests, Serve(req).reached, req.method \notin SAFE_METHODS,
           Serve(req).status < 400, req.route \notin BOOTSTRAP_POSTS \cup {"logout", "revoke"},
           req.insert
    PROVE  Serve(req).audited
  <1> DEFINE guards == Guards[req.route]
  <1>1. req.method \in MUTATING_METHODS
    BY RequestsAssumption DEF SAFE_METHODS, MUTATING_METHODS
  <1>2. req.route \in {"me", "users", "devices", "issue", "unknown"}
    BY <1>1, RequestsAssumption
  <1>3. Entry(req) = 0 /\ Met(req) = Len(guards)
    BY DEF Serve
  <1>4. req.route # "unknown"
    <2> SUFFICES ASSUME req.route = "unknown"
                 PROVE  FALSE
      OBVIOUS
    <2> DEFINE stops == {i \in DOMAIN guards : Refusal(req, guards[i]) # 0}
    <2>1. guards = <<"auth", "missing">>
      BY DEF Guards
    <2>2. Refusal(req, "missing") = 404
      BY DEF Refusal, ROLE_RANK
    <2>3. 2 \in stops /\ stops \in SUBSET Nat
      BY <2>1, <2>2
    <2>4. Min(stops) \in Nat /\ Min(stops) <= 2
      <3> HIDE DEF stops
      <3> QED
        BY <2>3, LeastNatural
    <2>5. Met(req) = Min(stops) - 1
      BY <2>3 DEF Met
    <2> QED
      BY <1>3, <2>1, <2>4, <2>5
  <1>5. Contains(SubSeq(guards, 1, Met(req)), "audit")
    <2>1. CASE req.route = "me" \/ req.route = "devices"
      <3>1. guards = <<"auth", "audit">>
        BY <2>1 DEF Guards
      <3> QED
        BY <1>3, <3>1 DEF Contains
    <2>2. CASE req.route = "users"
      <3>1. guards = <<"auth", "audit", "admin">>
        BY <2>2 DEF Guards
      <3> QED
        BY <1>3, <3>1 DEF Contains
    <2>3. CASE req.route = "issue"
      <3>1. guards = <<"auth", "audit", "auth", "supervisor">>
        BY <2>3 DEF Guards
      <3> QED
        BY <1>3, <3>1 DEF Contains
    <2> QED
      BY <1>2, <1>4, <2>1, <2>2, <2>3
  <1> QED
    BY <1>1, <1>3, <1>5 DEF Serve, Recorded

\* A handler that changes something for the user of a session cookie runs only if the
\* request repeats the CSRF cookie, whatever headers it has.
THEOREM CookieNeedsMirror == Spec => []CookieActsWithMirror
  <1>1. Init => CookieActsWithMirror
    BY DEF Init, CookieActsWithMirror, Asked
  <1>2. CookieActsWithMirror /\ [Next]_vars => CookieActsWithMirror'
    <2> SUFFICES ASSUME CookieActsWithMirror, [Next]_vars, Asked("request")'
                 PROVE  CookieActsWithMirror'
      BY DEF CookieActsWithMirror
    <2>1. CASE UNCHANGED vars
      BY <2>1 DEF CookieActsWithMirror, vars, Asked, result, input
    <2>2. CASE Request
      <3>1. PICK req \in Requests : Answered("request", req, Serve(req))
        BY <2>2 DEF Request, New
      <3>2. result' = Serve(req) /\ input' = req
        BY <3>1 DEF Answered, result, input
      <3> QED
        BY <3>2, ReachedIsMirrored DEF CookieActsWithMirror
    <2> QED
      BY <2>1, <2>2, CallsAreNamed DEF Next, Asked
  <1> QED
    BY <1>1, <1>2, PTL DEF Spec

\* Every change that succeeds leaves an audit row, or at least the INSERT of one that
\* failed, but on the routes named.
THEOREM ChangesLeaveARow == Spec => []ChangesAreAudited
  <1>1. Init => ChangesAreAudited
    BY DEF Init, ChangesAreAudited, Asked
  <1>2. ChangesAreAudited /\ [Next]_vars => ChangesAreAudited'
    <2> SUFFICES ASSUME ChangesAreAudited, [Next]_vars, Asked("request")'
                 PROVE  ChangesAreAudited'
      BY DEF ChangesAreAudited
    <2>1. CASE UNCHANGED vars
      BY <2>1 DEF ChangesAreAudited, vars, Asked, result, input
    <2>2. CASE Request
      <3>1. PICK req \in Requests : Answered("request", req, Serve(req))
        BY <2>2 DEF Request, New
      <3>2. result' = Serve(req) /\ input' = req
        BY <3>1 DEF Answered, result, input
      <3> QED
        BY <3>2, ReachedIsAudited DEF ChangesAreAudited
    <2> QED
      BY <2>1, <2>2, CallsAreNamed DEF Next, Asked
  <1> QED
    BY <1>1, <1>2, PTL DEF Spec

-----------------------------------------------------------------------------
(* The filter of the topics.                                               *)

LEMMA FilterIsMqtt ==
    ASSUME NEW pattern \in Patterns, NEW topic \in TopicsSeen
    PROVE  matches(pattern, topic) = mqttMatches(pattern, topic)
  <1> DEFINE n == Len(pattern)
             decides(i) == \/ pattern[i] = "#"
                           \/ i > Len(topic)
                           \/ pattern[i] # "+" /\ pattern[i] # topic[i]
             deciding == {i \in DOMAIN pattern : decides(i)}
  <1>1. /\ n \in Nat \ {0} /\ DOMAIN pattern = 1 .. n /\ Len(topic) \in Nat
        /\ \A i \in 1 .. n - 1 : pattern[i] # "#"
    BY PatternsAssumption
  <1>2. CASE pattern[n] = "#"
    <2>1. n \in deciding
      BY <1>1, <1>2
    <2>2. matches(pattern, topic) <=> \A j \in deciding : n <= j
      BY <1>1, <1>2, <2>1 DEF matches
    <2>3. (\A j \in deciding : n <= j) <=> \A i \in 1 .. n - 1 : ~decides(i)
      BY <1>1
    <2>4. (\A i \in 1 .. n - 1 : ~decides(i)) <=>
              /\ Len(topic) >= n - 1
              /\ \A i \in 1 .. n - 1 : pattern[i] \in {"+", topic[i]}
      BY <1>1
    <2>5. mqttMatches(pattern, topic) <=>
              /\ Len(topic) >= n - 1
              /\ \A i \in 1 .. n - 1 : pattern[i] \in {"+", topic[i]}
      BY <1>2 DEF mqttMatches
    <2> QED
      BY <2>2, <2>3, <2>4, <2>5 DEF matches, mqttMatches
  <1>3. CASE pattern[n] # "#"
    <2>1. matches(pattern, topic) <=> deciding = {} /\ n = Len(topic)
      BY <1>1, <1>3 DEF matches
    <2>2. mqttMatches(pattern, topic) <=>
              /\ Len(topic) = n
              /\ \A i \in 1 .. n : pattern[i] \in {"+", topic[i]}
      BY <1>3 DEF mqttMatches
    <2>3. \A i \in 1 .. n : pattern[i] # "#"
      BY <1>1, <1>3
    <2>4. deciding = {} /\ n = Len(topic) <=>
              /\ Len(topic) = n
              /\ \A i \in 1 .. n : pattern[i] \in {"+", topic[i]}
      BY <1>1, <2>3
    <2> QED
      BY <2>1, <2>2, <2>4 DEF matches, mqttMatches
  <1> QED
    BY <1>2, <1>3

\* The filter of the WebSocket fan-out selects what a broker would, for every pattern
\* the standard allows.
THEOREM FilterOfBrowsersIsMqtt == Spec => []MatchesIsMqtt
  <1>1. Init => MatchesIsMqtt
    BY DEF Init, MatchesIsMqtt, Asked
  <1>2. MatchesIsMqtt /\ [Next]_vars => MatchesIsMqtt'
    <2> SUFFICES ASSUME MatchesIsMqtt, [Next]_vars, Asked("matches")'
                 PROVE  MatchesIsMqtt'
      BY DEF MatchesIsMqtt
    <2>1. CASE UNCHANGED vars
      BY <2>1 DEF MatchesIsMqtt, vars, Asked, result, input
    <2>2. CASE Match
      <3>1. PICK pattern \in Patterns, topic \in TopicsSeen :
                Answered("matches", <<pattern, topic>>, matches(pattern, topic))
        BY <2>2 DEF Match, New
      <3>2. result' = matches(pattern, topic) /\ input' = <<pattern, topic>>
        BY <3>1 DEF Answered, result, input
      <3> QED
        BY <3>2, FilterIsMqtt DEF MatchesIsMqtt
    <2> QED
      BY <2>1, <2>2, CallsAreNamed DEF Next, Asked
  <1> QED
    BY <1>1, <1>2, PTL DEF Spec

-----------------------------------------------------------------------------
(* The OEE.                                                                *)

OeeInput == [planned : Nat, downtime : Int, ideal : [n : Nat, d : Nat \ {0}],
             total : Nat, good : Int]

LEMMA ClampIsWithin ==
    ASSUME NEW x \in Int, NEW top \in Nat
    PROVE  Clamp(x, top) = IF x < 0 THEN 0 ELSE IF x <= top THEN x ELSE top
  BY MinOfTwo, MaxOfTwo DEF Clamp

\* What computeOEE() makes of its counts
LEMMA OeeCounts ==
    ASSUME NEW p, p.planned \in Nat, p.downtime \in Int, p.total \in Nat, p.good \in Int
    PROVE  LET r == computeOEE(p)
           IN /\ r.downtime = Clamp(p.downtime, p.planned)
              /\ r.downtime \in 0 .. p.planned
              /\ r.operating = p.planned - r.downtime
              /\ r.operating \in 0 .. p.planned
              /\ r.good = Clamp(p.good, p.total)
              /\ r.good \in 0 .. p.total
              /\ r.planned = p.planned
              /\ r.total = p.total
              /\ r.oee = Times(Times(Availability(r.operating, p.planned),
                                     Performance(r.operating, p.ideal, p.total)),
                               Quality(r.good, p.total))
  <1>1. Clamp(p.downtime, p.planned) \in 0 .. p.planned /\ Clamp(p.good, p.total) \in 0 .. p.total
    BY ClampIsWithin
  <1>2. /\ computeOEE(p).downtime = Clamp(p.downtime, p.planned)
        /\ computeOEE(p).operating = p.planned - computeOEE(p).downtime
        /\ computeOEE(p).good = Clamp(p.good, p.total)
        /\ computeOEE(p).planned = p.planned /\ computeOEE(p).total = p.total
    BY DEF computeOEE
  <1>3. computeOEE(p).oee = Times(Times(Availability(computeOEE(p).operating, p.planned),
                                  Performance(computeOEE(p).operating, p.ideal, p.total)),
                            Quality(computeOEE(p).good, p.total))
    BY DEF computeOEE
  <1>4. computeOEE(p).operating \in 0 .. p.planned
    BY <1>1, <1>2
  <1> QED
    BY <1>1, <1>2, <1>3, <1>4

\* A fraction of 0 to 1
IsRatio(q) == q.n \in Nat /\ q.d \in Nat \ {0} /\ q.n <= q.d

LEMMA ProductOfRatios ==
    ASSUME NEW a, NEW b, IsRatio(a), IsRatio(b)
    PROVE  IsRatio(Times(a, b)) /\ Leq(Times(a, b), a) /\ Leq(Times(a, b), b)
  <1> DEFINE an == a.n
             ad == a.d
             bn == b.n
             bd == b.d
  <1>1. /\ an \in Nat /\ ad \in Nat \ {0} /\ an <= ad
        /\ bn \in Nat /\ bd \in Nat \ {0} /\ bn <= bd
    BY DEF IsRatio
  <1>2. /\ Times(a, b).n = an * bn /\ Times(a, b).d = ad * bd
        /\ Leq(Times(a, b), a) <=> (an * bn) * ad <= an * (ad * bd)
        /\ Leq(Times(a, b), b) <=> (an * bn) * bd <= bn * (ad * bd)
    BY DEF Times, Frac, Leq
  <1> HIDE DEF an, ad, bn, bd
  <1>3. an * bn \in Nat /\ ad * bd \in Nat \ {0}
    BY <1>1
  <1>4. an * bn <= an * bd /\ an * bd <= ad * bd /\ an * bn <= ad * bn
    BY <1>1
  <1>5. (an * bn) * ad <= an * (ad * bd)
    <2>1. an * (ad * bd) - (an * bn) * ad = (an * ad) * (bd - bn)
      BY <1>1
    <2>2. an * ad \in Nat /\ bd - bn \in Nat
      BY <1>1
    <2>3. (an * ad) * (bd - bn) >= 0
      BY <2>2
    <2> QED
      BY <1>1, <2>1, <2>3
  <1>6. (an * bn) * bd <= bn * (ad * bd)
    <2>1. bn * (ad * bd) - (an * bn) * bd = (bn * bd) * (ad - an)
      BY <1>1
    <2>2. bn * bd \in Nat /\ ad - an \in Nat
      BY <1>1
    <2>3. (bn * bd) * (ad - an) >= 0
      BY <2>2
    <2> QED
      BY <1>1, <2>1, <2>3
  <1> QED
    BY <1>1, <1>2, <1>3, <1>4, <1>5, <1>6 DEF IsRatio

LEMMA LeqIsTransitive ==
    ASSUME NEW a, NEW b, NEW c, IsRatio(a), IsRatio(b), IsRatio(c), Leq(a, b), Leq(b, c)
    PROVE  Leq(a, c)
  <1> DEFINE an == a.n
             ad == a.d
             bn == b.n
             bd == b.d
             cn == c.n
             cd == c.d
  <1>1. /\ an \in Nat /\ ad \in Nat \ {0} /\ bn \in Nat /\ bd \in Nat \ {0}
        /\ cn \in Nat /\ cd \in Nat \ {0}
    BY DEF IsRatio
  <1>2. an * bd <= bn * ad /\ bn * cd <= cn * bd
    BY DEF Leq
  <1> HIDE DEF an, ad, bn, bd, cn, cd
  <1>3. an * bd * cd <= bn * ad * cd /\ bn * cd * ad <= cn * bd * ad
    BY <1>1, <1>2
  <1>4. bd * (cn * ad - an * cd) >= 0
    BY <1>1, <1>3
  <1>5. cn * ad - an * cd >= 0
    BY <1>1, <1>4
  <1>6. an * cd <= cn * ad
    BY <1>1, <1>5
  <1> QED
    BY <1>6 DEF Leq, an, ad, cn, cd

\* Whatever the stops, the counts and the ideal cycle are, computeOEE() answers fractions
\* of 0 to 1; the time splits into downtime and operation and the pieces into good and
\* rejected; and the OEE is at most its availability, its performance and its quality.
THEOREM OeeIsRatio ==
    ASSUME NEW p \in OeeInput
    PROVE  LET r == computeOEE(p)
               performance == Performance(r.operating, p.ideal, p.total)
               quality == Quality(r.good, p.total)
           IN /\ IsRatio(r.oee) /\ IsRatio(r.availability)
              /\ IsRatio(performance) /\ IsRatio(quality)
              /\ Leq(r.oee, r.availability) /\ Leq(r.oee, performance) /\ Leq(r.oee, quality)
              /\ r.downtime \in Nat /\ r.operating \in Nat /\ r.downtime + r.operating = p.planned
              /\ r.good \in Nat /\ r.reject \in Nat /\ r.good + r.reject = p.total
  <1> DEFINE operating == computeOEE(p).operating
             good == computeOEE(p).good
             A == Availability(operating, p.planned)
             P == Performance(operating, p.ideal, p.total)
             Q == Quality(good, p.total)
  <1>1. /\ p.planned \in Nat /\ p.downtime \in Int /\ p.total \in Nat /\ p.good \in Int
        /\ p.ideal.n \in Nat /\ p.ideal.d \in Nat \ {0}
    BY DEF OeeInput
  <1>2. /\ operating \in 0 .. p.planned /\ good \in 0 .. p.total
        /\ computeOEE(p).downtime \in 0 .. p.planned
        /\ operating = p.planned - computeOEE(p).downtime
        /\ computeOEE(p).oee = Times(Times(A, P), Q)
    BY <1>1, OeeCounts
  <1>3. computeOEE(p).reject = p.total - good /\ computeOEE(p).availability = A
    BY DEF computeOEE
  <1> HIDE DEF operating, good
  <1>4. IsRatio(A) /\ IsRatio(Q)
    BY <1>1, <1>2 DEF Availability, Quality, Frac, IsRatio
  <1>5. IsRatio(P)
    <2> DEFINE made == p.ideal.n * p.total
               able == p.ideal.d * operating
    <2>1. made \in Nat /\ able \in Nat /\ (operating # 0 => able # 0)
      BY <1>1, <1>2
    <2>2. P = IF operating = 0 \/ p.ideal.n = 0 THEN Frac(0, 1)
              ELSE Frac(Min({made, able}), able)
      BY DEF Performance
    <2> HIDE DEF made, able, P
    <2> QED
      BY <2>1, <2>2, MinOfTwo DEF Frac, IsRatio
  <1> HIDE DEF A, P, Q
  <1>6. IsRatio(Times(A, P)) /\ Leq(Times(A, P), A) /\ Leq(Times(A, P), P)
    BY <1>4, <1>5, ProductOfRatios
  <1>7. /\ IsRatio(Times(Times(A, P), Q)) /\ Leq(Times(Times(A, P), Q), Times(A, P))
        /\ Leq(Times(Times(A, P), Q), Q)
    BY <1>4, <1>6, ProductOfRatios
  <1>8. Leq(Times(Times(A, P), Q), A) /\ Leq(Times(Times(A, P), Q), P)
    BY <1>4, <1>5, <1>6, <1>7, LeqIsTransitive
  <1> QED
    BY <1>1, <1>2, <1>3, <1>4, <1>5, <1>7, <1>8 DEF operating, good, A, P, Q

LEMMA OeeOfInput ==
    ASSUME NEW p \in OeeInput, p.planned > 0
    PROVE  LET r == computeOEE(p)
           IN IF p.ideal.n * p.total <= p.ideal.d * r.operating
              THEN Eq(r.oee, Frac(p.ideal.n * r.good, p.ideal.d * p.planned))
              ELSE Eq(r.oee, Frac(r.operating * r.good, p.planned * p.total))
  <1> DEFINE operating == computeOEE(p).operating
             good == computeOEE(p).good
             planned == p.planned
             total == p.total
             n == p.ideal.n
             d == p.ideal.d
             oee == computeOEE(p).oee
             performance == Performance(operating, p.ideal, total)
  <1>1. /\ planned \in Nat \ {0} /\ total \in Nat /\ n \in Nat /\ d \in Nat \ {0}
        /\ operating \in Nat /\ good \in Nat /\ good <= total
    BY OeeCounts DEF OeeInput
  <1>2. oee = Times(Times(Frac(operating, planned), performance), Quality(good, total))
    <2>1. oee = Times(Times(Availability(operating, planned), performance), Quality(good, total))
      BY OeeCounts DEF OeeInput
    <2> QED
      BY <1>1, <2>1 DEF Availability
  <1>3. performance = IF operating = 0 \/ n = 0 THEN Frac(0, 1)
                      ELSE Frac(IF n * total <= d * operating THEN n * total ELSE d * operating,
                                d * operating)
    <2>1. n * total \in Int /\ d * operating \in Int
      BY <1>1
    <2>2. Min({n * total, d * operating})
              = IF n * total <= d * operating THEN n * total ELSE d * operating
      BY <2>1, MinOfTwo
    <2> QED
      BY <2>2 DEF Performance
  <1>4. Quality(good, total) = IF total = 0 THEN Frac(0, 1) ELSE Frac(good, total)
    BY DEF Quality
  <1> SUFFICES IF n * total <= d * operating
               THEN Eq(oee, Frac(n * good, d * planned))
               ELSE Eq(oee, Frac(operating * good, planned * total))
    OBVIOUS
  <1> HIDE DEF operating, good, planned, total, n, d, oee, performance
  <1>5. CASE n * total <= d * operating
    <2>1. CASE operating = 0 \/ n = 0 \/ total = 0
      <3>1. n * good = 0
        <4>1. CASE n = 0
          BY <1>1, <4>1
        <4>2. CASE total = 0
          BY <1>1, <4>2
        <4>3. CASE operating = 0 /\ n # 0
          <5>1. n * total <= 0
            BY <1>1, <1>5, <4>3
          <5>2. total = 0
            BY <1>1, <4>3, <5>1
          <5> QED
            BY <1>1, <5>2
        <4> QED
          BY <2>1, <4>1, <4>2, <4>3
      <3>2. oee.n = 0
        BY <1>1, <1>2, <1>3, <1>4, <2>1 DEF Times, Frac
      <3>3. oee.d \in Int
        BY <1>1, <1>2, <1>3, <1>4 DEF Times, Frac
      <3> QED
        <4>1. Eq(oee, Frac(n * good, d * planned))
          BY <1>1, <3>1, <3>2, <3>3 DEF Eq, Frac
        <4> QED
          BY <1>5, <4>1
    <2>2. CASE ~(operating = 0 \/ n = 0 \/ total = 0)
      <3>1. oee = Frac((operating * (n * total)) * good, (planned * (d * operating)) * total)
        BY <1>2, <1>3, <1>4, <1>5, <2>2 DEF Times, Frac
      <3>2. ((operating * (n * total)) * good) * (d * planned)
                = (n * good) * ((planned * (d * operating)) * total)
        BY <1>1
      <3> QED
        BY <1>5, <3>1, <3>2 DEF Eq, Frac
    <2> QED
      BY <2>1, <2>2
  <1>6. CASE ~(n * total <= d * operating)
    <2>1. n # 0 /\ total # 0
      BY <1>1, <1>6
    <2>2. CASE operating = 0
      BY <1>1, <1>2, <1>3, <1>4, <2>2 DEF Times, Frac, Eq
    <2>3. CASE operating # 0
      <3>1. oee = Frac((operating * (d * operating)) * good, (planned * (d * operating)) * total)
        BY <1>2, <1>3, <1>4, <1>6, <2>1, <2>3 DEF Times, Frac
      <3>2. ((operating * (d * operating)) * good) * (planned * total)
                = (operating * good) * ((planned * (d * operating)) * total)
        BY <1>1
      <3> QED
        BY <1>6, <3>1, <3>2 DEF Eq, Frac
    <2> QED
      BY <2>2, <2>3
  <1> QED
    BY <1>5, <1>6

\* Below the cap of the performance the OEE is the time the good pieces should have
\* taken in the planned time; above it, the availability times the quality.
THEOREM OeeIsTimeOfGood == Spec => []OeeIsGoodTime
  <1>1. Init => OeeIsGoodTime
    BY DEF Init, OeeIsGoodTime, Asked
  <1>2. OeeIsGoodTime /\ [Next]_vars => OeeIsGoodTime'
    <2> SUFFICES ASSUME OeeIsGoodTime, [Next]_vars, Asked("machineOee")'
                 PROVE  OeeIsGoodTime'
      BY DEF OeeIsGoodTime
    <2>1. CASE UNCHANGED vars
      BY <2>1 DEF OeeIsGoodTime, vars, Asked, result, input
    <2>2. CASE GetMachineOee
      <3>1. PICK p \in OeeInputs : Answered("machineOee", p, computeOEE(p))
        BY <2>2 DEF GetMachineOee, New
      <3>2. result' = computeOEE(p) /\ input' = p
        BY <3>1 DEF Answered, result, input
      <3>3. p \in OeeInput
        BY OeeInputsAssumption DEF OeeInput
      <3> QED
        BY <3>2, <3>3, OeeOfInput DEF OeeIsGoodTime
    <2> QED
      BY <2>1, <2>2, CallsAreNamed DEF Next, Asked
  <1> QED
    BY <1>1, <1>2, PTL DEF Spec

-----------------------------------------------------------------------------
(* The OEE of a line or a facility.                                         *)

LEMMA PlannedType ==
    ASSUME NEW l \in GroupInputs, NEW x \in DOMAIN l.machines
    PROVE  Planned(l.shifts[l.machines[x].line], Now) \in Nat
  <1> DEFINE shifts == l.shifts[l.machines[x].line]
             counted == {s \in shifts : s.start < Now /\ s.end > Now - Day}
             lasts == [s \in counted |-> Min({s.end, Now}) - s.start]
  <1>0. IsFiniteSet(shifts) /\ \A s \in shifts : s.start \in Int /\ s.end \in Int /\ s.start < s.end
    BY GroupInputsAssumption
  <1> HIDE DEF shifts
  <1>1. IsFiniteSet(counted)
    BY <1>0, FS_Subset
  <1>2. lasts \in [counted -> Nat]
    <2>1. ASSUME NEW s \in counted
          PROVE  Min({s.end, Now}) - s.start \in Nat
      <3>1. s.start \in Int /\ s.end \in Int /\ s.start < s.end /\ s.start < Now /\ Now \in Int
        BY <1>0, NowAssumption
      <3>2. Min({s.end, Now}) = IF s.end <= Now THEN s.end ELSE Now
        BY <3>1, MinOfTwo
      <3> QED
        BY <3>1, <3>2
    <2> QED
      BY <2>1
  <1>3. SumFunction(lasts) \in Nat
    <2> HIDE DEF counted, lasts
    <2> QED
      BY <1>1, <1>2, SumOfNaturals
  <1> QED
    BY <1>3, OeeAssumption DEF Planned, shifts

LEMMA StoppedType ==
    ASSUME NEW l \in GroupInputs, NEW x \in DOMAIN l.machines
    PROVE  Stopped(l.machines[x].downtimes, Now) \in Int
  <1> DEFINE downtimes == l.machines[x].downtimes
             counted == {d \in downtimes : d.start > Now - Day /\ d.class \in {"unplanned", "none"}}
             lasts == [d \in counted |-> d.duration]
  <1>1. IsFiniteSet(counted)
    BY GroupInputsAssumption, FS_Subset
  <1>2. lasts \in [counted -> Int]
    BY GroupInputsAssumption
  <1>3. SumFunction(lasts) \in Int
    <2> HIDE DEF counted, lasts
    <2> QED
      BY <1>1, <1>2, SumType
  <1> QED
    BY <1>3 DEF Stopped

\* The items of a group, and the four sums of its aggregate
LEMMA GroupOfInput ==
    ASSUME NEW l \in GroupInputs
    PROVE  LET m == l.machines
               planned(x) == Planned(l.shifts[m[x].line], Now)
               up(x) == Max({0, planned(x) - Max({0, Stopped(m[x].downtimes, Now)})})
               r == groupOEE(m, l.shifts, Now)
           IN /\ r.aggregate.operating = SumFunction([x \in DOMAIN m |-> up(x)])
              /\ r.aggregate.planned = SumFunction([x \in DOMAIN m |-> planned(x)])
              /\ r.aggregate.good <= r.aggregate.total
  <1> DEFINE m == l.machines
             D == DOMAIN m
             planned(x) == Planned(l.shifts[m[x].line], Now)
             stopped(x) == Stopped(m[x].downtimes, Now)
             up(x) == Max({0, planned(x) - Max({0, stopped(x)})})
             items == [x \in D |-> machineOEE(m[x], l.shifts[m[x].line], Now)]
             of(field) == [x \in DOMAIN items |-> items[x][field]]
             group == [planned |-> SumOf(items, "planned"), downtime |-> SumOf(items, "downtime"),
                       ideal |-> IdealEstimate(items),
                       total |-> SumOf(items, "total"), good |-> SumOf(items, "good")]
  <1>1. IsFiniteSet(D) /\ \A x \in D : planned(x) \in Nat /\ stopped(x) \in Int
    BY PlannedType, StoppedType, GroupInputsAssumption
  <1>2. ASSUME NEW x \in D
        PROVE  /\ items[x].planned = planned(x)
               /\ items[x].downtime = Clamp(stopped(x), planned(x))
               /\ items[x].total \in Nat
               /\ items[x].good \in 0 .. items[x].total
    BY <1>1, OeeCounts, GroupInputsAssumption DEF machineOEE
  <1>3. DOMAIN items = D
    OBVIOUS
  <1> HIDE DEF items, planned, stopped
  <1>4. /\ of("planned") \in [D -> Nat] /\ of("downtime") \in [D -> Nat]
        /\ of("total") \in [D -> Nat] /\ of("good") \in [D -> Nat]
        /\ \A x \in D : of("downtime")[x] <= of("planned")[x]
    BY <1>1, <1>2, <1>3, ClampIsWithin
  <1>5. /\ SumOf(items, "planned") = SumFunction(of("planned"))
        /\ SumOf(items, "downtime") = SumFunction(of("downtime"))
        /\ SumOf(items, "total") = SumFunction(of("total"))
        /\ SumOf(items, "good") = SumFunction(of("good"))
    BY DEF SumOf
  <1>6. SumOf(items, "planned") = SumFunction([x \in D |-> planned(x)])
    <2>1. of("planned") = [x \in D |-> planned(x)]
      BY <1>2, <1>3
    <2> QED
      BY <1>5, <2>1
  <1>7. /\ SumOf(items, "planned") \in Nat /\ SumOf(items, "downtime") \in Nat
        /\ SumOf(items, "total") \in Nat /\ SumOf(items, "good") \in Nat
        /\ SumOf(items, "downtime") <= SumOf(items, "planned")
    <2> HIDE DEF of
    <2> QED
      BY <1>1, <1>4, <1>5, SumOfNaturals, SumIsMonotonic
  <1>8. SumFunction([x \in D |-> up(x)]) = SumOf(items, "planned") - SumOf(items, "downtime")
    <2> DEFINE p == of("planned")
               d == of("downtime")
    <2>1. ASSUME NEW x \in D
          PROVE  up(x) = 1 * p[x] + (-1) * d[x]
      <3>1. p[x] = planned(x) /\ d[x] = Clamp(stopped(x), planned(x))
        BY <1>2, <1>3
      <3>2. stopped(x) \in Int /\ planned(x) \in Nat
        BY <1>1
      <3>3. Max({0, stopped(x)}) = IF stopped(x) <= 0 THEN 0 ELSE stopped(x)
        BY <3>2, MaxOfTwo
      <3>4. up(x) = IF planned(x) <= Max({0, stopped(x)}) THEN 0 ELSE planned(x) - Max({0, stopped(x)})
        BY <3>2, <3>3, MaxOfTwo
      <3> QED
        BY <3>1, <3>2, <3>3, <3>4, ClampIsWithin
    <2>2. [x \in D |-> up(x)] = [x \in D |-> 1 * p[x] + (-1) * d[x]]
      BY <2>1
    <2>3. p \in [D -> Int] /\ d \in [D -> Int]
      BY <1>4
    <2> HIDE DEF p, d, up, of, group
    <2>4. SumFunction([x \in D |-> 1 * p[x] + (-1) * d[x]])
              = 1 * SumFunction(p) + (-1) * SumFunction(d)
      BY <1>1, <2>3, SumIsLinear
    <2>5. SumFunction(p) \in Int /\ SumFunction(d) \in Int
      BY <1>1, <2>3, SumType
    <2> QED
      BY <1>5, <2>2, <2>4, <2>5 DEF p, d
  <1>9. /\ computeOEE(group).operating = group.planned - group.downtime
        /\ computeOEE(group).planned = group.planned
        /\ computeOEE(group).good <= computeOEE(group).total
    BY <1>7, OeeCounts, ClampIsWithin
  <1> QED
    BY <1>6, <1>8, <1>9 DEF groupOEE, aggregateOEE, items, planned, stopped

\* A line or a facility has operated as long as its machines together, each within the
\* plan of its line.
THEOREM GroupKeepsTime == Spec => []GroupConservesTime
  <1>1. Init => GroupConservesTime
    BY DEF Init, GroupConservesTime, Asked
  <1>2. GroupConservesTime /\ [Next]_vars => GroupConservesTime'
    <2> SUFFICES ASSUME GroupConservesTime, [Next]_vars, Asked("groupOee")'
                 PROVE  GroupConservesTime'
      BY DEF GroupConservesTime
    <2>1. CASE UNCHANGED vars
      BY <2>1 DEF GroupConservesTime, vars, Asked, result, input
    <2>2. CASE GetGroupOee
      <3>1. PICK l \in GroupInputs :
                Answered("groupOee", l, groupOEE(l.machines, l.shifts, Now))
        BY <2>2 DEF GetGroupOee, New
      <3>2. result' = groupOEE(l.machines, l.shifts, Now) /\ input' = l
        BY <3>1 DEF Answered, result, input
      <3> QED
        BY <3>2, GroupOfInput DEF GroupConservesTime
    <2> QED
      BY <2>1, <2>2, CallsAreNamed DEF Next, Asked
  <1> QED
    BY <1>1, <1>2, PTL DEF Spec

-----------------------------------------------------------------------------
(* The statistical rules.                                                  *)

Sample == [ts : Int, value : Int]

\* The window a sample was pushed to ends with it.
LEMMA WindowEndsWithSample ==
    ASSUME NEW samples \in Seq(Sample), NEW sample \in Sample, NEW window \in Nat
    PROVE  LET w == pushSample(samples, window, sample)
           IN w \in Seq(Sample) /\ Len(w) > 0 /\ w[Len(w)] = sample
  <1> DEFINE all == Append(samples, sample)
             n == Len(all)
             cutoff == sample.ts - window
             kept == {i \in DOMAIN all : all[i].ts >= cutoff}
             w == SubSeq(all, Min(kept), n)
  <1>1. all \in Seq(Sample) /\ n \in Nat \ {0} /\ all[n] = sample /\ DOMAIN all = 1 .. n
    OBVIOUS
  <1>2. sample.ts >= cutoff
    BY DEF Sample
  <1>3. n \in kept /\ kept \in SUBSET (1 .. n)
    BY <1>1, <1>2
  <1>4. Min(kept) \in 1 .. n
    <2>1. kept \in SUBSET Nat /\ kept # {}
      BY <1>1, <1>3
    <2> HIDE DEF kept
    <2> QED
      BY <1>3, <2>1, LeastNatural
  <1>5. pushSample(samples, window, sample) = w
    BY <1>3 DEF pushSample, Recent
  <1>6. w \in Seq(Sample) /\ Len(w) = n - Min(kept) + 1 /\ w[n - Min(kept) + 1] = all[n]
    <2> HIDE DEF kept, all, n
    <2> QED
      BY <1>1, <1>4
  <1> HIDE DEF w, all, n, kept
  <1> QED
    BY <1>1, <1>4, <1>5, <1>6

\* Samuelson's inequality: of n values none is farther than (n - 1) / sqrt(n) sigma from
\* their mean.
LEMMA DistanceIsBounded ==
    ASSUME NEW w \in Seq(Sample), NEW j \in 1 .. Len(w)
    PROVE  LET s == statsFor(w)
               distance == s.n * w[j].value - s.sum
           IN /\ s.n = Len(w) /\ s.sum \in Int /\ s.spread \in Nat
              /\ distance * distance <= (s.n - 1) * s.spread
  <1> DEFINE D == DOMAIN w
             n == Len(w)
             f == [i \in D |-> w[i].value]
             sq == [i \in D |-> w[i].value * w[i].value]
             g == [i \in D |-> IF i = j THEN 0 ELSE f[i]]
             gg == [i \in D |-> g[i] * g[i]]
             v == w[j].value
             S == SumFunction(f)
             Q == SumFunction(sq)
             R == SumFunction(g)
             P == SumFunction(gg)
  <1>1. /\ n \in Nat \ {0} /\ D = 1 .. n /\ j \in D /\ v \in Int
        /\ f \in [D -> Int] /\ sq \in [D -> Int] /\ g \in [D -> Int] /\ gg \in [D -> Int]
    <2>1. n \in Nat \ {0} /\ D = 1 .. n /\ j \in D
      OBVIOUS
    <2>2. \A i \in D : w[i].value \in Int
      <3>1. \A i \in D : w[i] \in Sample
        BY <2>1
      <3> QED
        BY <3>1 DEF Sample
    <2>3. f \in [D -> Int] /\ sq \in [D -> Int]
      BY <2>2
    <2>4. g \in [D -> Int]
      BY <2>3
    <2>5. gg \in [D -> Int]
      BY <2>4
    <2> QED
      BY <2>1, <2>2, <2>3, <2>4, <2>5
  <1>2. IsFiniteSet(D) /\ Cardinality(D) = n
    <2>1. 1 \in Int /\ n \in Int
      BY <1>1
    <2>2. IsFiniteSet(1 .. n) /\ Cardinality(1 .. n) = IF 1 > n THEN 0 ELSE n - 1 + 1
      <3> HIDE DEF n
      <3> QED
        BY <2>1, FS_Interval
    <2> QED
      BY <1>1, <2>2
  <1>3. /\ IsFiniteSet(D \ {j}) /\ Cardinality(D \ {j}) = n - 1
    BY <1>1, <1>2, FS_RemoveElement
  <1>4. S = v + R
    <2>1. f[j] = v
      BY <1>1
    <2>2. S = f[j] + R
      <3>1. f \in [D -> Int] /\ j \in D /\ IsFiniteSet(D)
        BY <1>1, <1>2
      <3> HIDE DEF D, f
      <3> QED
        BY <3>1, SumWithout
    <2> QED
      BY <2>1, <2>2
  <1>5. Q = v * v + P
    <2>1. sq[j] = v * v
      BY <1>1
    <2>2. gg = [i \in D |-> IF i = j THEN 0 ELSE sq[i]]
      BY <1>1
    <2>3. Q = sq[j] + SumFunction([i \in D |-> IF i = j THEN 0 ELSE sq[i]])
      <3>1. sq \in [D -> Int] /\ j \in D /\ IsFiniteSet(D)
        BY <1>1, <1>2
      <3> HIDE DEF D, sq
      <3> QED
        BY <3>1, SumWithout
    <2> QED
      BY <2>1, <2>2, <2>3
  <1>6. R * R <= (n - 1) * P
    <2>1. D \ {j} \in SUBSET D /\ \A i \in D \ (D \ {j}) : g[i] = 0
      BY <1>1
    <2> HIDE DEF D, g
    <2> QED
      BY <1>1, <1>2, <1>3, <2>1, SquareOfSum
  <1>7. S * S <= n * Q
    <2>1. D \in SUBSET D /\ \A i \in D \ D : f[i] = 0
      OBVIOUS
    <2>2. sq = [i \in D |-> f[i] * f[i]]
      OBVIOUS
    <2> HIDE DEF D, f, sq
    <2> QED
      BY <1>1, <1>2, <2>1, <2>2, SquareOfSum
  <1>8. S \in Int /\ Q \in Int /\ R \in Int /\ P \in Int
    <2> HIDE DEF D, f, sq, g, gg
    <2> QED
      BY <1>1, <1>2, SumType
  <1>9. statsFor(w) = [n |-> n, sum |-> S, spread |-> n * Q - S * S]
    BY DEF statsFor
  <1> HIDE DEF D, n, v, S, Q, R, P
  <1>10. n * Q - S * S \in Nat
    BY <1>1, <1>7, <1>8
  <1>11. (n * v - S) * (n * v - S) <= (n - 1) * (n * Q - S * S)
    <2>1. (n - 1) * (n * Q - S * S) - (n * v - S) * (n * v - S) = n * ((n - 1) * P - R * R)
      BY <1>1, <1>4, <1>5, <1>8
    <2>2. n * ((n - 1) * P - R * R) >= 0
      BY <1>1, <1>6, <1>8
    <2> QED
      BY <1>1, <1>8, <2>1, <2>2
  <1> QED
    BY <1>8, <1>9, <1>10, <1>11 DEF n, v

LEMMA BreachNeedsSamples ==
    ASSUME NEW r \in RuleInputs, r.rule.kind = "statistical", r.rule.k >= 0,
           breached(r.rule, r.samples, r.sample)
    PROVE  LET n == Len(Recent(Append(r.samples, r.sample), r.sample.ts - r.rule.window))
               k == sigmas(r.rule.k)
           IN (n - 1) * (n - 1) > k * k * n
  <1> DEFINE w == pushSample(r.samples, r.rule.window, r.sample)
             n == Len(w)
             k == sigmas(r.rule.k)
             s == statsFor(w)
             distance == n * r.sample.value - s.sum
             d2 == distance * distance
             spread == s.spread
             k2 == k * k
  <1>1. /\ r.samples \in Seq(Sample) /\ r.sample \in Sample
        /\ r.rule.window \in Nat /\ k \in Nat /\ r.sample.value \in Int
    BY RuleInputsAssumption DEF Sample, sigmas
  <1>2. w \in Seq(Sample) /\ n \in Nat \ {0} /\ w[n] = r.sample
    BY <1>1, WindowEndsWithSample
  <1>3. /\ s.n = n /\ s.sum \in Int /\ spread \in Nat
        /\ d2 <= (n - 1) * spread
    <2> HIDE DEF w
    <2> QED
      BY <1>2, DistanceIsBounded
  <1>4. d2 * (n - 1) > k2 * n * spread
    <2>1. statisticalBreach(w, r.sample.value, k)
      BY DEF breached
    <2>2. ~(k < 0)
      BY <1>1
    <2> HIDE DEF w, k
    <2> QED
      BY <1>3, <2>1, <2>2 DEF statisticalBreach
  <1>5. d2 \in Int /\ k2 \in Int
    <2>1. distance \in Int
      <3> HIDE DEF n, s
      <3> QED
        BY <1>1, <1>2, <1>3
    <2> HIDE DEF distance
    <2> QED
      BY <1>1, <2>1
  <1> HIDE DEF n, d2, k2, spread
  <1>6. d2 * (n - 1) <= (n - 1) * spread * (n - 1)
    BY <1>2, <1>3, <1>5
  <1>7. spread * ((n - 1) * (n - 1) - k2 * n) > 0
    BY <1>2, <1>3, <1>4, <1>5, <1>6
  <1>8. (n - 1) * (n - 1) - k2 * n > 0
    BY <1>2, <1>3, <1>5, <1>7
  <1> QED
    BY <1>2, <1>5, <1>8 DEF n, k2, pushSample

\* A statistical rule alarms only in windows of so many samples that (n - 1)^2 > k^2 n,
\* whatever the values are, when its k is not negative.
THEOREM AlarmsNeedSamples == Spec => []StatisticalNeedsSamples
  <1>1. Init => StatisticalNeedsSamples
    BY DEF Init, StatisticalNeedsSamples, Asked
  <1>2. StatisticalNeedsSamples /\ [Next]_vars => StatisticalNeedsSamples'
    <2> SUFFICES ASSUME StatisticalNeedsSamples, [Next]_vars, Asked("evaluate")'
                 PROVE  StatisticalNeedsSamples'
      BY DEF StatisticalNeedsSamples
    <2>1. CASE UNCHANGED vars
      BY <2>1 DEF StatisticalNeedsSamples, vars, Asked, result, input
    <2>2. CASE Evaluate
      <3>1. PICK r \in RuleInputs :
                Answered("evaluate", r, /\ applies(r.rule, r.topic, r.metric)
                                        /\ breached(r.rule, r.samples, r.sample))
        BY <2>2 DEF Evaluate, New
      <3>2. /\ input' = r
            /\ result' = (applies(r.rule, r.topic, r.metric) /\ breached(r.rule, r.samples, r.sample))
        BY <3>1 DEF Answered, result, input
      <3> QED
        BY <3>2, BreachNeedsSamples DEF StatisticalNeedsSamples
    <2> QED
      BY <2>1, <2>2, CallsAreNamed DEF Next, Asked
  <1> QED
    BY <1>1, <1>2, PTL DEF Spec

\* The answers of InfluxDB have finitely many rows, of the instants asked for.
LEMMA RowsAreFinite ==
    ASSUME NEW points \in PointSets, NEW rows \in FluxRows(points, 0, Now)
    PROVE  \E n \in Nat : DOMAIN rows = 1 .. n /\ \A i \in 1 .. n : rows[i].ts \in 0 .. Now - 1
  <1> DEFINE chosen == {p \in points : p.ts >= 0 /\ p.ts < Now}
  <1>1. IsFiniteSet(chosen) /\ \A p \in chosen : p.ts \in 0 .. Now - 1
    <2>1. chosen \in SUBSET points
      OBVIOUS
    <2>2. IsFiniteSet(points) /\ \A p \in points : p.ts \in Int
      BY PointSetsAssumption
    <2>3. \A p \in chosen : p.ts \in 0 .. Now - 1
      BY <2>2, NowAssumption
    <2> HIDE DEF chosen
    <2> QED
      BY <2>1, <2>2, <2>3, FS_Subset
  <1>2. rows \in [1 .. Cardinality(chosen) -> chosen]
    BY DEF FluxRows, SetToSeqs
  <1>3. Cardinality(chosen) \in Nat
    <2> HIDE DEF chosen
    <2> QED
      BY <1>1, FS_CardinalityType
  <1> HIDE DEF chosen
  <1> QED
    BY <1>1, <1>2, <1>3

\* The instant a row of the Pareto lasts until, unless it is earlier than the row
Until(rows, i) == IF After(rows, i) = {} THEN Now ELSE rows[Min(After(rows, i))].ts

LEMMA UntilType ==
    ASSUME NEW n \in Nat, NEW rows, DOMAIN rows = 1 .. n,
           \A i \in 1 .. n : rows[i].ts \in 0 .. Now - 1, NEW i \in 1 .. n
    PROVE  Until(rows, i) \in 0 .. Now
  <1>1. After(rows, i) \in SUBSET (1 .. n)
    BY DEF After
  <1>2. CASE After(rows, i) = {}
    BY <1>2, NowAssumption DEF Until
  <1>3. CASE After(rows, i) # {}
    <2>1. Min(After(rows, i)) \in 1 .. n
      <3>1. After(rows, i) \in SUBSET Nat
        BY <1>1
      <3> QED
        BY <1>1, <1>3, <3>1, LeastNatural
    <2>2. Until(rows, i) = rows[Min(After(rows, i))].ts
      BY <1>3 DEF Until
    <2> QED
      BY <2>1, <2>2, NowAssumption
  <1> QED
    BY <1>2, <1>3

\* The instants counted for the row i
Counted(rows, i) == {i} \X (rows[i].ts .. Until(rows, i) - 1)

LEMMA SecondsAreCounted ==
    ASSUME NEW n \in Nat, NEW rows, DOMAIN rows = 1 .. n,
           \A i \in 1 .. n : rows[i].ts \in 0 .. Now - 1, NEW i \in 1 .. n
    PROVE  /\ Seconds(rows, i, Now) = Cardinality(Counted(rows, i))
           /\ IsFiniteSet(Counted(rows, i))
  <1> DEFINE from == rows[i].ts
             to == Until(rows, i)
  <1>1. from \in Int /\ to \in Int
    BY UntilType
  <1>2. Seconds(rows, i, Now) = Max({0, to - from})
    BY DEF Seconds, Until
  <1>3. Counted(rows, i) = {i} \X (from .. to - 1)
    BY DEF Counted
  <1> HIDE DEF from, to
  <1>4. Max({0, to - from}) = IF from > to - 1 THEN 0 ELSE to - 1 - from + 1
    <2> DEFINE length == to - from
    <2>1. length \in Int
      BY <1>1
    <2> HIDE DEF length
    <2>2. Max({0, length}) = IF 0 >= length THEN 0 ELSE length
      BY <2>1, MaxOfTwo
    <2> QED
      BY <1>1, <2>2 DEF length
  <1>5. /\ IsFiniteSet(from .. to - 1)
        /\ Cardinality(from .. to - 1) = IF from > to - 1 THEN 0 ELSE to - 1 - from + 1
    BY <1>1, FS_Interval
  <1>6. IsFiniteSet({i}) /\ Cardinality({i}) = 1
    BY FS_Singleton
  <1>7. /\ IsFiniteSet({i} \X (from .. to - 1))
        /\ Cardinality({i} \X (from .. to - 1)) = 1 * Cardinality(from .. to - 1)
    BY <1>5, <1>6, FS_Product
  <1> QED
    BY <1>1, <1>2, <1>3, <1>4, <1>5, <1>7

\* No instant of a machine is counted for two of its stops: the rows between them in the
\* answer belong to the same table, in the order of their times.
LEMMA CountedOnce ==
    ASSUME NEW n \in Nat, NEW rows, DOMAIN rows = 1 .. n,
           \A i \in 1 .. n : rows[i].ts \in 0 .. Now - 1,
           NEW points, NEW start, NEW stop, rows \in FluxRows(points, start, stop),
           NEW i \in DownRows(rows), NEW j \in DownRows(rows),
           i < j, rows[i].machine = rows[j].machine
    PROVE  Until(rows, i) <= rows[j].ts
  <1>1. i \in 1 .. n /\ j \in 1 .. n /\ Table(rows[i]) = Table(rows[j])
    BY DEF DownRows, Table
  <1>2. \A a, b \in 1 .. n :
            a < b /\ Table(rows[a]) = Table(rows[b]) =>
                /\ rows[a].ts <= rows[b].ts
                /\ \A k \in a .. b : Table(rows[k]) = Table(rows[a])
    BY DEF FluxRows
  <1>3. j \in After(rows, i) /\ After(rows, i) \in SUBSET Nat
    BY <1>1 DEF After
  <1> DEFINE m == Min(After(rows, i))
  <1>4. m \in After(rows, i) /\ m <= j
    BY <1>3, LeastNatural
  <1>5. Until(rows, i) = rows[m].ts
    BY <1>3 DEF Until
  <1> HIDE DEF m
  <1>6. m \in 1 .. n /\ i < m
    BY <1>4 DEF After
  <1>7. Table(rows[m]) = Table(rows[j])
    <2>1. m \in i .. j
      BY <1>1, <1>4, <1>6
    <2> QED
      BY <1>1, <1>2, <2>1
  <1>8. CASE m = j
    BY <1>1, <1>5, <1>8
  <1>9. CASE m < j
    BY <1>1, <1>2, <1>5, <1>6, <1>7, <1>9
  <1> QED
    BY <1>1, <1>4, <1>6, <1>8, <1>9

\* The stops of a machine have no more instants than have passed since the first of them.
LEMMA CountedFit ==
    ASSUME NEW n \in Nat, NEW rows, DOMAIN rows = 1 .. n,
           \A i \in 1 .. n : rows[i].ts \in 0 .. Now - 1,
           NEW points, rows \in FluxRows(points, 0, Now)
    PROVE  LET counted == {p \in DownRows(rows) \X (0 .. Now - 1) : p \in Counted(rows, p[1])}
               instants == {p \in {rows[i].machine : i \in DownRows(rows)} \X (0 .. Now - 1) :
                               \E i \in DownRows(rows) :
                                   rows[i].machine = p[1] /\ rows[i].ts <= p[2]}
           IN IsFiniteSet(counted) /\ Cardinality(counted) <= Cardinality(instants)
  <1> DEFINE D == DownRows(rows)
             E == 0 .. Now - 1
             machines == {rows[i].machine : i \in D}
             counted == {p \in D \X E : p \in Counted(rows, p[1])}
             instants == {p \in machines \X E :
                             \E i \in D : rows[i].machine = p[1] /\ rows[i].ts <= p[2]}
             at == [p \in counted |-> <<rows[p[1]].machine, p[2]>>]
  <1>1. D \in SUBSET (1 .. n) /\ IsFiniteSet(D) /\ IsFiniteSet(E)
    <2>1. D \in SUBSET (1 .. n)
      BY DEF DownRows
    <2>2. IsFiniteSet(1 .. n) /\ IsFiniteSet(E)
      BY NowAssumption, FS_Interval
    <2> QED
      BY <2>1, <2>2, FS_Subset
  <1>2. IsFiniteSet(instants)
    <2> DEFINE named == [i \in D |-> rows[i].machine]
    <2>1. named \in Surjection(D, machines)
      <3>1. named \in [D -> machines] /\ \A t \in machines : \E i \in D : named[i] = t
        OBVIOUS
      <3> QED
        BY <3>1 DEF Surjection
    <2> HIDE DEF D, E, machines, named
    <2>2. IsFiniteSet(machines)
      BY <1>1, <2>1, FS_Surjection
    <2>3. IsFiniteSet(machines \X E)
      BY <1>1, <2>2, FS_Product
    <2> QED
      BY <2>3, FS_Subset
  <1>3. ASSUME NEW p \in counted
        PROVE  /\ p[1] \in D /\ p[2] \in E /\ p = <<p[1], p[2]>>
               /\ rows[p[1]].ts <= p[2] /\ p[2] < Until(rows, p[1])
    <2>1. p[1] \in D /\ p[2] \in E /\ p = <<p[1], p[2]>> /\ p \in Counted(rows, p[1])
      OBVIOUS
    <2>2. p[2] \in rows[p[1]].ts .. Until(rows, p[1]) - 1
      BY <2>1 DEF Counted
    <2>3. rows[p[1]].ts \in Int /\ Until(rows, p[1]) \in Int
      BY <1>1, <2>1, UntilType
    <2> QED
      BY <2>1, <2>2, <2>3
  <1>4. at \in [counted -> instants]
    <2> SUFFICES ASSUME NEW p \in counted
                 PROVE  <<rows[p[1]].machine, p[2]>> \in instants
      OBVIOUS
    <2> HIDE DEF counted, D, E
    <2> QED
      BY <1>3
  <1>5. ASSUME NEW p \in counted, NEW q \in counted, at[p] = at[q]
        PROVE  p = q
    <2>1. rows[p[1]].machine = rows[q[1]].machine /\ p[2] = q[2]
      BY <1>5
    <2>2. /\ p[1] \in D /\ p[2] \in E /\ p = <<p[1], p[2]>>
          /\ rows[p[1]].ts <= p[2] /\ p[2] < Until(rows, p[1])
      BY <1>3
    <2>3. /\ q[1] \in D /\ q[2] \in E /\ q = <<q[1], q[2]>>
          /\ rows[q[1]].ts <= q[2] /\ q[2] < Until(rows, q[1])
      BY <1>3
    <2> HIDE DEF counted, at, D, E
    <2>4. p[1] \in 1 .. n /\ q[1] \in 1 .. n
      BY <1>1, <2>2, <2>3
    <2>5. /\ p[2] \in Int /\ rows[p[1]].ts \in Int /\ rows[q[1]].ts \in Int
          /\ Until(rows, p[1]) \in Int /\ Until(rows, q[1]) \in Int
      BY <2>2, <2>4, UntilType DEF E
    <2>6. ~(p[1] < q[1])
      <3> SUFFICES ASSUME p[1] < q[1]
                   PROVE  FALSE
        OBVIOUS
      <3>1. Until(rows, p[1]) <= rows[q[1]].ts
        BY <2>1, <2>2, <2>3, CountedOnce DEF D
      <3> QED
        BY <2>1, <2>2, <2>3, <2>5, <3>1
    <2>7. ~(q[1] < p[1])
      <3> SUFFICES ASSUME q[1] < p[1]
                   PROVE  FALSE
        OBVIOUS
      <3>1. Until(rows, q[1]) <= rows[p[1]].ts
        BY <2>1, <2>2, <2>3, CountedOnce DEF D
      <3> QED
        BY <2>1, <2>2, <2>3, <2>5, <3>1
    <2>8. p[1] = q[1]
      BY <2>4, <2>6, <2>7
    <2> QED
      BY <2>1, <2>2, <2>3, <2>8
  <1>6. at \in Injection(counted, instants)
    <2> HIDE DEF counted, instants, at
    <2> QED
      BY <1>4, <1>5 DEF Injection, IsInjective
  <1>7. IsFiniteSet(counted) /\ Cardinality(counted) <= Cardinality(instants)
    <2> HIDE DEF counted, instants, at
    <2> QED
      BY <1>2, <1>6, FS_Injection
  <1> QED
    BY <1>7

\* Summing the seconds of the Pareto is counting those pairs of a row and an instant.
LEMMA ParetoCounts ==
    ASSUME NEW n \in Nat, NEW rows, DOMAIN rows = 1 .. n,
           \A i \in 1 .. n : rows[i].ts \in 0 .. Now - 1,
           NEW counted, IsFiniteSet(counted),
           \A p : p \in counted
                      <=> p \in DownRows(rows) \X (0 .. Now - 1) /\ p \in Counted(rows, p[1])
    PROVE  LET pareto == Pareto(rows, Now)
           IN SumFunction([reason \in DOMAIN pareto |-> pareto[reason].seconds])
                  = Cardinality(counted)
  <1> DEFINE D == DownRows(rows)
             W == {rows[i].reason : i \in D}
             of(reason) == {i \in D : rows[i].reason = reason}
             part(reason) == {p \in counted : rows[p[1]].reason = reason}
             pareto == Pareto(rows, Now)
             because == [p \in counted |-> rows[p[1]].reason]
  <1>1. D \in SUBSET (1 .. n) /\ IsFiniteSet(D)
    <2>1. D \in SUBSET (1 .. n)
      BY DEF DownRows
    <2>2. IsFiniteSet(1 .. n)
      BY FS_Interval
    <2> QED
      BY <2>1, <2>2, FS_Subset
  <1>2. \A i \in D : /\ Counted(rows, i) = {p \in counted : p[1] = i}
                     /\ Seconds(rows, i, Now) = Cardinality(Counted(rows, i))
    <2> SUFFICES ASSUME NEW i \in D
                 PROVE  /\ Counted(rows, i) = {p \in counted : p[1] = i}
                        /\ Seconds(rows, i, Now) = Cardinality(Counted(rows, i))
      OBVIOUS
    <2>1. rows[i].ts \in 0 .. Now - 1 /\ Until(rows, i) \in 0 .. Now
      BY <1>1, UntilType
    <2>2. \A p \in Counted(rows, i) : p \in D \X (0 .. Now - 1) /\ p[1] = i
      BY <2>1, NowAssumption DEF Counted
    <2>3. Counted(rows, i) \subseteq {p \in counted : p[1] = i}
      BY <2>2
    <2>4. {p \in counted : p[1] = i} \subseteq Counted(rows, i)
      OBVIOUS
    <2> QED
      BY <1>1, <2>3, <2>4, SecondsAreCounted
  <1>3. \A p \in counted : p[1] \in D
    OBVIOUS
  <1>4. pareto = [reason \in W |->
                     [seconds |-> SumFunction([i \in of(reason) |-> Seconds(rows, i, Now)]),
                      occurrences |-> Cardinality(of(reason))]]
    BY DEF Pareto
  <1> HIDE DEF D, pareto
  <1>5. ASSUME NEW reason \in W
        PROVE  pareto[reason].seconds = Cardinality(part(reason))
    <2> DEFINE O == of(reason)
               P == part(reason)
               row == [p \in P |-> p[1]]
    <2>1. IsFiniteSet(O) /\ IsFiniteSet(P)
      BY <1>1, FS_Subset
    <2>2. row \in [P -> O]
      BY <1>3
    <2>3. \A i \in O : {p \in P : row[p] = i} = Counted(rows, i)
      <3> SUFFICES ASSUME NEW i \in O
                   PROVE  {p \in P : row[p] = i} = Counted(rows, i)
        OBVIOUS
      <3>1. {p \in P : row[p] = i} = {p \in counted : p[1] = i}
        OBVIOUS
      <3> QED
        BY <1>2, <3>1
    <2>4. \A i \in O : Seconds(rows, i, Now) = Cardinality({p \in P : row[p] = i})
      BY <1>2, <2>3
    <2>5. pareto[reason].seconds = SumFunction([i \in O |-> Seconds(rows, i, Now)])
      BY <1>4
    <2> HIDE DEF O, P, row
    <2>6. [i \in O |-> Seconds(rows, i, Now)] = [i \in O |-> Cardinality({p \in P : row[p] = i})]
      BY <2>4
    <2>7. SumFunction([i \in O |-> Cardinality({p \in P : row[p] = i})]) = Cardinality(P)
      BY <2>1, <2>2, SumOfFibres
    <2> QED
      BY <2>5, <2>6, <2>7 DEF P
  <1>6. DOMAIN pareto = W
    BY <1>4
  <1>7. [reason \in W |-> pareto[reason].seconds]
            = [reason \in W |-> Cardinality({p \in counted : because[p] = reason})]
    <2>1. \A reason \in W : {p \in counted : because[p] = reason} = part(reason)
      OBVIOUS
    <2> HIDE DEF W, part, because
    <2> QED
      BY <1>5, <2>1
  <1>8. IsFiniteSet(W) /\ because \in [counted -> W]
    <2> DEFINE told == [i \in D |-> rows[i].reason]
    <2>1. told \in Surjection(D, W)
      <3>1. told \in [D -> W] /\ \A t \in W : \E i \in D : told[i] = t
        OBVIOUS
      <3> QED
        BY <3>1 DEF Surjection
    <2>2. because \in [counted -> W]
      BY <1>3
    <2> HIDE DEF W, told, because
    <2> QED
      BY <1>1, <2>1, <2>2, FS_Surjection
  <1> HIDE DEF W, because
  <1>9. SumFunction([reason \in W |-> Cardinality({p \in counted : because[p] = reason})])
            = Cardinality(counted)
    <2>1. IsFiniteSet(W) /\ IsFiniteSet(counted) /\ because \in [counted -> W]
      BY <1>8
    <2> QED
      BY <2>1, SumOfFibres
  <1> QED
    BY <1>6, <1>7, <1>9 DEF pareto

\* All the reasons of the Pareto together have no more time than has passed since the
\* first stops of the machines, in whatever order the tables of the answer come.
THEOREM DowntimesFit == Spec => []DowntimeWithinRange
  <1>1. Init => DowntimeWithinRange
    BY DEF Init, DowntimeWithinRange, Asked
  <1>2. DowntimeWithinRange /\ [Next]_vars => DowntimeWithinRange'
    <2> SUFFICES ASSUME DowntimeWithinRange, [Next]_vars, Asked("downtimes")'
                 PROVE  DowntimeWithinRange'
      BY DEF DowntimeWithinRange
    <2>1. CASE UNCHANGED vars
      BY <2>1 DEF DowntimeWithinRange, vars, Asked, result, input
    <2>2. CASE GetDowntimes
      <3>0. PICK points \in PointSets :
                \E rows \in FluxRows(points, 0, Now) :
                    Answered("downtimes", rows, Pareto(rows, Now))
        BY <2>2 DEF GetDowntimes, New
      <3>1. PICK rows \in FluxRows(points, 0, Now) :
                Answered("downtimes", rows, Pareto(rows, Now))
        BY <3>0
      <3>2. input' = rows /\ result' = Pareto(rows, Now)
        BY <3>1 DEF Answered, result, input
      <3>3. PICK n \in Nat :
                DOMAIN rows = 1 .. n /\ \A i \in 1 .. n : rows[i].ts \in 0 .. Now - 1
        BY RowsAreFinite
      <3> DEFINE counted == {p \in DownRows(rows) \X (0 .. Now - 1) : p \in Counted(rows, p[1])}
      <3>4. /\ IsFiniteSet(counted)
            /\ Cardinality(counted)
                   <= Cardinality({p \in {rows[i].machine : i \in DownRows(rows)} \X (0 .. Now - 1) :
                                      \E i \in DownRows(rows) :
                                          rows[i].machine = p[1] /\ rows[i].ts <= p[2]})
        BY <3>3, CountedFit
      <3> DEFINE pareto == Pareto(rows, Now)
      <3>5. SumFunction([reason \in DOMAIN pareto |-> pareto[reason].seconds])
                = Cardinality(counted)
        <4> HIDE DEF pareto
        <4> QED
          BY <3>3, <3>4, ParetoCounts DEF pareto
      <3> QED
        BY <3>2, <3>4, <3>5 DEF DowntimeWithinRange
    <2> QED
      BY <2>1, <2>2, CallsAreNamed DEF Next, Asked
  <1> QED
    BY <1>1, <1>2, PTL DEF Spec

===============================================================================
