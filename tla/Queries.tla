------------------------------- MODULE Queries -------------------------------
(***************************************************************************)
(* The requests whose answer depends on nothing but what they are given:   *)
(* the OEE, the downtimes, the guards in front of every handler, the       *)
(* answers about an attestation, and the test of a sample against a rule.  *)
(* Each is one call with its answer; the inputs are sets of the model.     *)
(***************************************************************************)
EXTENDS Oee, Downtimes, Topics, Pipeline, Piano4, Samples

CONSTANTS OeeInputs, GroupInputs, PointSets, Patterns, TopicsSeen, Requests, Forms,
          Askings, IssuedRows, RuleInputs,  \* what the requests are given
          Now                               \* when they are made

\* computeOEE() takes whole counts and times that are not negative; the stops of the
\* database and the good pieces of the counters may be anything.
ASSUME OeeInputsAssumption ==
    OeeInputs \subseteq [planned : Nat, downtime : Int, ideal : [n : Nat, d : Nat \ {0}],
                         total : Nat, good : Int]

\* CHECK (end_at > start_at) of shifts; duration_sec may be any integer.
ASSUME GroupInputsAssumption ==
    \A l \in GroupInputs :
        /\ IsFiniteSet(DOMAIN l.machines)
        /\ \A line \in DOMAIN l.shifts :
               /\ IsFiniteSet(l.shifts[line])
               /\ \A s \in l.shifts[line] :
                      s.start \in Int /\ s.end \in Int /\ s.start < s.end
        /\ \A x \in DOMAIN l.machines :
               /\ l.machines[x].line \in DOMAIN l.shifts
               /\ IsFiniteSet(l.machines[x].downtimes)
               /\ \A d \in l.machines[x].downtimes : d.start \in Int /\ d.duration \in Int
               /\ l.machines[x].ideal \in Nat
               /\ l.machines[x].total \in Nat
               /\ l.machines[x].good \in Int

\* Only the last level of a pattern is a #.
ASSUME PatternsAssumption ==
    /\ \A p \in Patterns : /\ p \in Seq(STRING) /\ p # <<>>
                           /\ \A i \in 1 .. Len(p) - 1 : p[i] # "#"
    /\ TopicsSeen \subseteq Seq(STRING)

\* A handler that changes something belongs to a route with other methods than GET.
ASSUME RequestsAssumption ==
    \A req \in Requests :
        /\ req.route \in DOMAIN Guards
        /\ req.method \in SAFE_METHODS \cup {"POST", "PUT", "PATCH", "DELETE"}
        /\ req.method \notin SAFE_METHODS =>
               req.route \in BOOTSTRAP_POSTS
                             \cup {"logout", "me", "users", "devices", "issue", "revoke", "unknown"}

ASSUME PointSetsAssumption ==
    \A points \in PointSets : IsFiniteSet(points) /\ \A p \in points : p.ts \in Int

\* A window looks back; values are whole here.
ASSUME RuleInputsAssumption ==
    \A r \in RuleInputs :
        r.rule.kind = "statistical" =>
            /\ r.samples \in Seq([ts : Int, value : Int])
            /\ r.sample \in [ts : Int, value : Int]
            /\ r.rule.window \in Nat
            /\ r.rule.k \in Int

ASSUME NowAssumption == Now \in Nat

VARIABLES call, answer  \* <<>> before the call; then <<name, input>> and <<result>>

vars == <<call, answer>>

Init == call = <<>> /\ answer = <<>>

\* There is one call: it takes one of the inputs.
New(inputs) == IF call = <<>> THEN inputs ELSE {}

Answered(name, in, out) == call' = <<name, in>> /\ answer' = <<out>>

GetMachineOee == \E p \in New(OeeInputs) : Answered("machineOee", p, computeOEE(p))

GetGroupOee ==
    \E l \in New(GroupInputs) : Answered("groupOee", l, groupOEE(l.machines, l.shifts, Now))

GetDowntimes ==
    \E points \in New(PointSets) : \E rows \in FluxRows(points, 0, Now) :
        Answered("downtimes", rows, Pareto(rows, Now))

Match ==
    \E pattern \in New(Patterns), topic \in TopicsSeen :
        Answered("matches", <<pattern, topic>>, matches(pattern, topic))

Request == \E req \in New(Requests) : Answered("request", req, Serve(req))

\* The form reaches its handler only behind the guards of its route.
Contact ==
    \E req \in New(Requests), form \in Forms :
        /\ req.route = "contact"
        /\ Serve(req).reached
        /\ Answered("contact", form, contact(form))

Preview == \E asking \in New(Askings) : Answered("preview", asking, preview(asking))

Verify == \E row \in New(IssuedRows) : Answered("verify", row, verify(row))

Download ==
    \E row \in New(IssuedRows), counted \in BOOLEAN : Answered("pdf", row, pdf(row, counted))

Metadata == \E row \in New(IssuedRows) : Answered("metadata", row, metadata(row))

Evaluate ==
    \E r \in New(RuleInputs) :
        Answered("evaluate", r, /\ applies(r.rule, r.topic, r.metric)
                                /\ breached(r.rule, r.samples, r.sample))

Next == \/ GetMachineOee \/ GetGroupOee \/ GetDowntimes \/ Match \/ Request \/ Contact
        \/ Preview \/ Verify \/ Download \/ Metadata \/ Evaluate

Spec == Init /\ [][Next]_vars

-----------------------------------------------------------------------------
(* Properties.                                                             *)

Asked(name) == call # <<>> /\ call[1] = name

input  == call[2]
result == answer[1]

\* computeOEE multiplies three ratios, two of which cancel: below the cap of the
\* performance the OEE is the time the good pieces should have taken in the planned
\* time; above it, the availability times the quality.
OeeIsGoodTime ==
    Asked("machineOee") /\ input.planned > 0 =>
        IF input.ideal.n * input.total <= input.ideal.d * result.operating
        THEN Eq(result.oee, Frac(input.ideal.n * result.good, input.ideal.d * input.planned))
        ELSE Eq(result.oee, Frac(result.operating * result.good, input.planned * input.total))

\* A machine stopped longer than its shifts does not consume its neighbours' time, and
\* stops of negative length give them none: a line, or a facility of several with shifts of
\* their own, has operated as long as its machines together, each at least 0 and at most
\* the plan of its line.
GroupConservesTime ==
    Asked("groupOee") =>
        LET m == input.machines
            planned(x) == Planned(input.shifts[m[x].line], Now)
            up(x) == Max({0, planned(x) - Max({0, Stopped(m[x].downtimes, Now)})})
        IN /\ result.aggregate.operating = SumFunction([x \in DOMAIN m |-> up(x)])
           /\ result.aggregate.planned = SumFunction([x \in DOMAIN m |-> planned(x)])
           /\ result.aggregate.good <= result.aggregate.total

\* However the tables of the answer follow each other, no instant of a machine is counted
\* twice, and none before its first stop: all the reasons of the Pareto together have no
\* more time than that.
DowntimeWithinRange ==
    Asked("downtimes") =>
        SumFunction([reason \in DOMAIN result |-> result[reason].seconds])
            <= Cardinality({p \in {input[i].machine : i \in DownRows(input)} \X (0 .. Now - 1) :
                               \E i \in DownRows(input) :
                                   input[i].machine = p[1] /\ input[i].ts <= p[2]})

\* For the patterns MQTT allows and canonical topics, the filter of the WebSocket
\* fan-out selects what a broker would.
MatchesIsMqtt == Asked("matches") => result = mqttMatches(input[1], input[2])

\* A handler that changes something for the user of a session cookie runs only if the
\* request repeats the CSRF cookie: no other header opens that way.
CookieActsWithMirror ==
    Asked("request") /\ result.reached /\ result.source = "cookie" =>
        \/ input.method \in SAFE_METHODS
        \/ input.route \in BOOTSTRAP_POSTS
        \/ input.mirror

\* Every change that succeeds leaves an audit row, or at least the INSERT of one that
\* failed: the response does not wait for it (audit.js). Not covered are the routes that
\* record their own (login, refresh, logout), the contact form, and the revocation of an
\* attestation.
ChangesAreAudited ==
    Asked("request") /\ result.reached /\ input.method \notin SAFE_METHODS
        /\ result.status < 400 /\ input.route \notin BOOTSTRAP_POSTS \cup {"logout", "revoke"}
    => result.audited \/ ~input.insert

\* The two-out-of-three clause never decides: a machine with every characteristic also
\* satisfies I1 and I2, from the same evidence.
InterconnectionNeverDecides ==
    Asked("preview") /\ result.status = 200 => result.attestazione.reason # "interconnection"

\* A sample is in the window it is compared with: k sigma need so many samples that
\* (n - 1)^2 > k^2 n, whatever the values, and MinSamples alone does not suffice. (Below 0
\* a k asks for nothing.)
StatisticalNeedsSamples ==
    Asked("evaluate") /\ input.rule.kind = "statistical" /\ input.rule.k >= 0 /\ result =>
        LET n == Len(Recent(Append(input.samples, input.sample),
                            input.sample.ts - input.rule.window))
            k == sigmas(input.rule.k)
        IN (n - 1) * (n - 1) > k * k * n

\* The rows of machines that are down for a reason at an instant: the state of a machine is
\* that of its last row until then.
DownFor(rows, reason, at) ==
    {i \in DOMAIN rows :
        /\ rows[i].state = "DOWN" /\ rows[i].reason = reason /\ rows[i].ts <= at
        /\ ~\E j \in DOMAIN rows : /\ rows[j].machine = rows[i].machine
                                  /\ rows[i].ts < rows[j].ts /\ rows[j].ts <= at}

\* routes/metrics.js:55-57: the status events are ordered by machine and time, and a DOWN
\* lasts until the next record of state. So the Pareto would count for a reason the
\* instants at which a machine was down for it.
ParetoIsDowntime ==
    Asked("downtimes") =>
        \A reason \in DOMAIN result :
            result[reason].seconds =
                SumFunction([at \in 0 .. Now - 1 |-> Cardinality(DownFor(input, reason, at))])

\* routes/contact.js:2 calls the form of the landing page a public endpoint: who has no
\* token is not asked for one.
ContactIsPublic ==
    Asked("request") /\ input.route = "contact" /\ result.source = "none" =>
        result.status # 401

\* piano4-attestazione-pdf.js:239 dates the document so that /verify recomputes the hash
\* it carries: a document nobody touched is valid.
GenuineVerifies == Asked("verify") /\ ~input.revoked => result.verdict = "valid"
===============================================================================
