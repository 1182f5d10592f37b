# FactoryMind in TLA+

A verification development of the FactoryMind backend (`src/backend/src`): TLA+ modules translated
from its code, TLC configurations that check them on small instances, and theorems about them that
TLAPS checks for every value of their constants.

1. [The system](#1-the-system): what it consists of and what makes it correct
2. [The modules](#2-the-modules): how state and actions correspond to the code
3. [The runs](#3-the-runs): what is model-checked, under which bounds
4. [The proofs](#4-the-proofs)
5. [Where code and documents disagree](#5-where-code-and-documents-disagree)
6. [What is not modelled](#6-what-is-not-modelled)
7. [Plan](#7-plan)

To run: `tlc -config <run>.cfg <MC module>.tla` and `tlapm <module>Proofs.tla`.

## 1. The system

FactoryMind is a Node.js process between machines and people of a plant. Machines publish telemetry
over MQTT (or are polled by the OPC UA and Modbus bridges, which publish it for them); the backend
writes it to InfluxDB, evaluates alert rules on it and forwards it to browsers over WebSocket. A REST
API over PostgreSQL holds the plant's master data, the users and their sessions, and the register of
fiscal attestations (Piano 4.0 / 5.0). One event loop runs everything: a handler is interrupted at
its `await`s and nowhere else, and there is no lock. Several replicas may run (`k8s/hpa.yaml`), and
PostgreSQL is what they share.

```
 machine --MQTT--> mqtt-handler --+--> influx-writer --> InfluxDB --> oee-calculator
 OPC UA / Modbus bridges --MQTT-^ +--> alert-engine  --> PostgreSQL (alerts) and MQTT (alarms)
                                  +--> ws/server     --> dashboards
 browser --HTTP--> auth, lockout, csrf, audit --> routes --> PostgreSQL
 timers: alert pruning (60 min), oee_sustained and escalation, housekeeping (daily)
```

| Component | State | Operations | Hard behaviour | What makes it correct |
|---|---|---|---|---|
| **Fiscal register** `routes/attestazione.js`, migrations 004/007/008 | table `attestazioni`, partial unique index | emit PDF, force a re-emission, revoke, verify | check-then-insert races, two-statement replacement, failures after each statement, retries | one current attestation per (device, year, plan); what is served is what is registered; rows are never rewritten, but for the name of a deleted user |
| **Attestation content** `services/piano4-*.js` | none | compute, render, hash, verify | hashing by a key whitelist, clocks of two machines | equal hash means equal content; an intact row verifies |
| **Alert engine** `services/alert-engine.js` | `ruleState` (bounded map), rules cache | evaluate a sample, prune, load rules | evaluations overlap at each `await`, eviction, restart | alarms are spaced, come from enough breaches and from unbroken ones; the map is bounded; rules are recent |
| **Alert life cycle** `routes/alerts.js`, escalation loop | table `alerts` | fire, acknowledge, resolve, escalate, delete the rule | loops of several replicas against each other and the operators, passes that fail | only open alerts escalate, a tier at a time, and those nobody takes in charge do |
| **Sessions** `services/auth-tokens.js`, `routes/users.js` | table `refresh_tokens` | login, rotate, logout, revoke | four statements without a transaction per rotation, lost answers, retries | one unconsumed token per family; a session that was ended stays over |
| **Lockout** `middleware/lockout.js` | three columns of `users` | check, fail, succeed | read before the password comparison, written after it in two statements | past the threshold the account is locked after every failure that was counted |
| **Users and GDPR** `services/gdpr.js`, `admin-bootstrap.js`, scripts | `users`, `audit_log` | create, erase, finalise, restore, export, bootstrap | two erasures at once, deletion long after the request, restart in between | a request takes effect after its grace and not before, once, and unless reversed; who is deleted is the actor of no audit row |
| **Audit log** `middleware/audit.js` | table `audit_log` | record | written after the answer, a failed `INSERT` is logged and swallowed | a mutation that succeeded is recorded, or its `INSERT` failed |
| **MQTT ingest** `services/mqtt-handler.js` | connection, subscription | connect, subscribe, receive, close | clean session, lost connections, exceptions in a listener | the status that is retained is stored in the end |
| **InfluxDB writer** `services/influx-writer.js` | write and retry buffer, requests under way, tasks | write, send, retry, give up, flush, close, ensure tasks | batches that are given up, points that arrive while `flush()` and `close()` are awaited, list-then-create on two replicas | a clean exit leaves no buffered point behind unless a write failed; a task of each name, and at most one per replica |
| **OEE** `services/oee-calculator.js`, `routes/oee.js` | none | compute, aggregate | zero denominators, clamping, open shifts | the OEE is the good time over the planned one; a line or a facility conserves the time of its machines; no instant of a machine is counted twice |
| **Bridges** `services/opcua-bridge.js`, `modbus-bridge.js` | client, timers, subscription | start, poll, stop | retry after a partial start, overlapping polls | one client at most, none after stop |
| **Live feed** `ws/server.js`, `useRealtime.ts` | clients, subscriptions; socket, timer | upgrade, subscribe, fan out, ping; connect, retry | dead connections, changes of topics while one is closing | a page that asks for topics comes to get those |
| **Dashboard** `RequireAuth.tsx`, `api/client.ts` | page, tokens, checks under way | login, navigate, check, redirect | answers out of order, cancelled checks | the latest check decides what is shown |
| **Request filters** `index.js`, `auth.js`, `csrf.js`, `audit.js`, `errorHandler.js` | none | let pass, refuse, record | the order they are mounted in | a cookie acts only with its mirror; changes are audited |
| **Boot and shutdown** `index.js` | process phase, closers | boot, drain, exit | closers that run together, one that hangs | a drain ends, and a clean one loses nothing that `flush()` found or `close()` could still take |
| **Housekeeping** `services/housekeeping.js`, migration 005 | daily timer | purge, anonymise the audit log, delete accounts | two replicas, a failing run, writes between its statements | every due account goes in the end, and nothing else does |
| Master data, Sparkplug, GreenMetrics, predictive maintenance, deployment | | | see section 6 | |

`PROJECT.json` lists all components with their files, and under "hazards" every place found where
this code is hard to test, at its line, with the properties that cover it.

## 2. The modules

| Module | Models |
|---|---|
| `AttestazioneRegistry` | abstract: the register as a function from keys to the current number |
| `Attestazione` | the emission handler and the revocation, statement by statement, and the deletion of a user |
| `AlertEngine` | `evaluate()`, `touchState()`, `pruneStaleState()` |
| `AlertRulesCache` | `loadRules()` |
| `AlertTicket` | abstract: what an alert promises to whoever works on it |
| `AlertLifecycle` | the rows of `alerts`: `fireAlert()`, the operators, the escalation loop of every replica |
| `AuthSessions` | `auth-tokens.js` and its callers |
| `Lockout` | `lockout.js` under logins that overlap |
| `UserLifecycle` | the accounts: `gdpr.js`, the erasure script, the housekeeping function, `ensureAdmin()` |
| `WriteApi` | the write API of `@influxdata/influxdb-client`, as `influx-writer.js` configures it, and InfluxDB |
| `Ingest` | the broker, the MQTT client and the points made of messages |
| `Service` | the process around them: boot, drain, deadline, restart |
| `Tasks` | `bootstrapTasks()` of every replica |
| `Realtime` | `useRealtime.ts` and `ws/server.js` |
| `Dashboard` | `RequireAuth.tsx` and the interceptors of `api/client.ts` |
| `Oee`, `Downtimes`, `Topics`, `Pipeline`, `Piano4`, `Samples` | the parts that keep no state, as operators |
| `Queries` | the requests that call those operators, one to a behaviour |
| `…Proofs` | the theorems about a module; `PartsProofs` is about four components of `MCParts`, `LiveProofs` about `Service` and two more of `MCLive` |
| `SumsProofs` | lemmas on minima and on sums over finite sets, for the proofs about `Oee`, `Downtimes`, `Samples` and `Lockout` |
| `MC…` | the instances TLC checks |

`Service` extends `Ingest` and `Ingest` extends `WriteApi`; `Queries` extends the six modules of
operators. `MCParts` holds six components that share no state, and `MCLive` four: a behaviour is one
of one component, chosen initially, while the others stay where they start, so that a run checks each
of them and not their product.

All of them use one reading of the code: **an action is what runs between two `await`s**, with the
SQL statement it ends in. PostgreSQL executes a statement atomically; a transaction is one action at
its commit and a stutter when it is rolled back. A statement may fail, and then the `catch` block of
the code is what happens. A definition called *Variant* is a plausible bug - a dropped guard, a late
increment - that no specification uses; substituting it for the definition it follows must break the
property `PROJECT.json` names with it.

### Attestazione

`rows` is the table as a function from the numbers it holds (its domain grows) to rows; `motivo`
joins `revocata_il` and `motivo_revoca`; `emessaDa` and `revocataDa` are the request of the user, or
`None`. Each request is a process whose `pc` names the statement its
handler runs next, with the locals `existing` and `numero`; `ask` is its input, fixed from the start.

| Code | Actions |
|---|---|
| lookup and decision | `LookupMiss`, `LookupForce`, `LookupHit` (same content), `LookupConflict` (409), `LookupLegacy`, `LookupFail` (caught: goes on as if nothing was found) |
| automatic revocation of a row older than migration 008 | `AutoRevoke`, `AutoRevokeFail` |
| rendering, which draws 32 random bits | `Render`, `RenderFail` |
| `INSERT` | `Insert`, `InsertDuplicate` (23505), `WriteFail` |
| the loser of a race reads the winner | `RecoverHit`, `RecoverConflict` |
| `BEGIN … COMMIT` of a forced re-emission | `ForceCommit`, `ForceRollback` |
| sending, crash, revocation by an administrator | `Send`, `Crash`, `Revoke` |
| the hard deletion of a user, whose rows get NULL for the emitter and the revoker (`ON DELETE SET NULL`, `004:32,37`) | `ForgetUser` |

A number may be drawn twice: `Numeri` is small and `Render` draws freely. Two numbers of different
keys colliding is a unique violation the handler takes for a lost race, and that path is in the
model. Contents are compared and never looked into. `faults[r]` counts the errors request r has met,
both to bound them and because two properties only promise something to a request without any.

`AttestazioneRegistry` says what the register promises to somebody who sees neither requests nor SQL:
issue, withdraw, replace in one step, no number twice. `Attestazione` implements it under the mapping
`current[k]` = the active row of k, `withdrawn` = the revoked ones.

### AlertEngine and AlertRulesCache

`onMessage` does not await `evaluate()`, so each sample is a process. It gives way while it loads the
rules and while an alarm is being sent (`loading`, `firing`); at `running` it has the event loop to
itself (`Turn`). One action evaluates one rule: `Clean`, `Arm` (the first breach of a debounced rule
opens its window), `Hold` (a breach that only counts), `Fire`; each ends in `Touch`, which stores the
entry and evicts the least recently touched one. Around them are `Prune`, `Restart` and `Tick`. What
breaches a rule is data: a sample carries the set of rules it breaches, which covers thresholds,
hysteresis and the statistical kind alike.

History variables (`lastFired`, `lastClean`, `run`, `forgotten`) record what the properties speak of;
no guard reads them. `Epoch` is the clock when the engine starts: real clocks are far from 0 and
entries start with the time 0, so it is not smaller than any debounce of the instances.

The rules an evaluation works with come out of `loadRules()`. `AlertRulesCache` models that: loads
overlap, query, are answered and store in any order. The contents of the table are a number that
grows at each edit. `AlertEngine` uses the worst of it: an evaluation gets any settings for the rules
in `edited`, and what the table holds for the others.

### AuthSessions

A refresh token is a row of `refresh_tokens`, named by the value it was minted with; a family is
named by the token its login minted. A rotation is `RefreshRead`, `Consume`, `CheckUser`, `Mint`,
`Reply` - five steps, no transaction - or ends early in `RefreshRefused` or in `RefreshReused`,
`RevokeFamily`. `Consume` updates by id and looks at nothing else, as the code does. `Fail` is an
error at any statement or an answer that is lost. Sessions are ended by `Logout`, by `Erase` and
`EraseRevoke` (the revocation after the transaction of `eraseSubject()`, whose failure is ignored),
and `Restart` activates the configured administrator. `held` are the tokens that reached a client:
only those are presented again. `raced`, `closed` and `barred` are history.

A login takes the steps its two `await`s need; whether the password matches is decided before it.

### UserLifecycle

`users` is the table as a function from the ids it holds. `named` are the ids that some row of
`audit_log` has in `actor_user_id`; `hidden[s]` are those whose rows run `s` of the housekeeping has
rewritten in a transaction that did not commit yet, so a row written in between (`Record`) takes an id
out of `hidden` again. `mentioned` are the ids the log mentions in another way: in the `resource_id` of
the row about an erasure (`gdpr.js:129`), or in the `actor_email` and `resource_id` of a row that has no
actor, as a refused login leaves it (`audit.js:106`). No statement takes an id out of it. `at[s]` is the
`NOW()` of that transaction, the time it began.

| Code | Actions |
|---|---|
| `POST /users`; login or refresh; a login that is refused; a request that is audited; the DBA's reversal | `CreateUser`, `Login`, `LoginRefused`, `Act`, `Restore` |
| `DELETE /me`: password checked by id, address of the token handed on | `BeginSelf`, `FindSelf` |
| `erase-subject.sh` | `FindScript`; `Finish`, or `Finalize` with `--finalize` |
| `eraseSubject()`: lookup, transaction, rollback | `Lookup`, `Schedule`, `ScheduleRefused`; `Answer` is the audit row of `DELETE /me`, `Fail` an error anywhere |
| `factorymind_housekeeping()` | `SweepAnonymise`, `SweepDelete` (which evaluates its `WHERE` again and commits), `SweepFail` |
| `ensureAdmin()` | `BootRead`, `BootInsert`, `BootUpdate`, `BootFail` |

One reading of time carries the properties: a unit of the clock is longer than an erasure call takes, so
a call spans one `Tick` and not two (`late` are the calls that span one already), an access token lives
at least a unit less than the grace (`TimeAssumption`: 15 minutes and a call against 30 days), and a
housekeeping transaction may span any number of units. A login is one step. `Act` needs a token that has
not expired and no account: `requireAuth()` does not look at the table. `Finalize` deletes without the
anonymisation the housekeeping does first, which is why `SweptIsNoActor` speaks of the housekeeping's
deletions; that it speaks of the actor alone is what the code does, and `SweptIsNotMentioned`, which
migration 005 promises, is refuted (section 5). `restored`, `swept` and `revived` are history.

`ensureAdmin()` sends `BEGIN`, its statements and `COMMIT` through the pool, so its statements are
steps of their own here. The account with the seed address, which it deactivates, is left out, and
so are refresh tokens, which are `AuthSessions`: the two modules share `active` and the erasure,
each with the detail its properties need.

### AlertTicket and AlertLifecycle

An alert is `new` until an evaluation fires it, `publishing` between the two sinks of `fireAlert()`
(what the broker makes of the alarm decides nothing), and then a row or, when the `INSERT` fails,
`gone`. The alerts are those of one rule, whose deletion cascades. Each replica has a `timer`
(`setInterval`, which does not wait for the pass before) and may be in `passing`: its `UPDATE` is
sent and runs later, in one statement for all rows that are `Due`. Ages are times since `fired_at`
and `escalated_at`, capped where the `WHERE` clause stops telling them apart.

`AlertTicket` is what the lot promises: status only forward, severity up by one tier, only while
nobody has taken the alert in charge. `AlertLifecycle` implements it with `absent` for what is no row.

### Lockout, Tasks, Dashboard

A login is `Gate` (`isLocked()`), `Compare`, and then `Count` and `Lengthen`, the two `UPDATE`s of
`recordFailure()`, or `Succeed`. `locked_until` is the time it has left. Any number of logins has
passed the gate before the first of them is counted, and a short lock may be written over a long one;
that the account is locked *at all* after its last counted failure is what the first `UPDATE` is for.

`Tasks` knows a downsampling task by how many carry its name. A boot of a replica lists once (`List`)
and walks the names (`Create`, `Skip`); it may die, and an operator deletes. Two replicas are what the
deployment runs at least (`k8s/deployment.yaml:23`, `hpa.yaml:25`), and when both list before either
creates, both create: `TasksPerReplica` says that this is as bad as it gets.

`Dashboard` is the gate of every page: `Navigate`, `Login` and `Reload` send `GET /users/me`, `Respond`
is the backend, `Deliver` and `Deliver401` the order in which answers arrive, which is any. `stage` and
`code` tell how far each check is; `check` is the one the mounted effect waits for; the interceptor acts
on every 401, cancelled or not.

### WriteApi, Ingest and Service

A machine publishes changes of status with QoS 1, retained, and everything else. The changes are
numbered and stand for their points. `wire` is what the broker sent and the client has not handled;
the session is clean, so a lost connection takes the wire with it, and `Subscribe` is answered with
the retained change. A telemetry value that is no number (`Throws`) leaves the listener as an
exception and reaches `uncaughtException`, which drains.

`WriteApi` follows a point from `writePoint()` to InfluxDB. It waits in `buffer`, leaves in a request
(`Send`; `flight` are the requests nobody awaits), and lands or fails. What becomes of a request that
fails is the client's choice (`Requeued`): the points go to `retries`, or are given up - after three
retries, for an answer below 429, when the retry buffer is full - and then they are `dropped`, which is
what `writeFailed` in `influx-writer.js` only logs. The states of `api` are those of
`influx.flush().then(() => influx.close())`: `FlushLands` empties the retry buffer batch by batch,
`Closing` takes what has arrived meanwhile into one last request, and while that is awaited points are
still accepted into a buffer nobody sends. `Closed` drops what the retry buffer holds.

`Service` adds the process. `Boot` opens the port and begins to connect; `Signal`, or an exception,
calls the closers together (`ToDrain`), which begins with the flush. `mqtt` and the others settle on
their own (`Settle…`), the write API by its answers; `Exit` waits for all, `Deadline` for 15 seconds,
and `Kill` for nothing. The client still receives while the rest is closing: `Handle` until the write
API is closed, `HandleLate` after it. `owed` are the points a clean exit answers for: those in a buffer
when the drain began and those written before `close()` was called, until a write fails.

### Realtime

One page and the WebSocket server. A connection is a slot with two ends: `end` is what the browser
knows of it, `clients` what the server knows, and they learn of each other's end late, or, when the
cable is pulled (`cut`), only from the heartbeat. `Retopic` is a change of topics while the socket of
the effect before may be connecting, open or closing; `socket` is the one of the effect that is not
cancelled. A connection without a subscribe frame gets everything (`"all"`).

### Queries and the operators it calls

`Queries` makes one call with one of the inputs of the instance and keeps its answer.

| Module | Operators |
|---|---|
| `Oee` | `computeOEE`, `aggregateOEE` over exact fractions, the inputs `GET /oee` collects for a machine, and for a line or a facility of several lines with shifts of their own (`groupOEE`) |
| `Downtimes` | `GET /metrics/downtimes`: the answers the Flux query may give, `Seconds` from a row to the one `After` it, `Pareto` |
| `Topics` | `build`, `validate`, `parse`, `matches` against the filters of the MQTT standard |
| `Pipeline` | a request through CORS, body, rate limit, CSRF, the guards of its router in mounting order, handler, error handler and audit, whose `INSERT` may fail (`insert`); `contact` |
| `Piano4` | eligibility, the document, `hashPayload`, `verify`, `pdf`, `metadata` |
| `Samples` | `applies`, `evaluateThreshold`, windows and statistics of the alert rules, `k_sigma` with its default and its sign |

A character, a level of a topic, an identifier are one value each; money, wording and PDF do not occur.
`FluxRows` is the set of answers the query may give to a set of points: one table for each machine
and state, the tables one after the other in any order, the rows of each in time order. A machine that
goes down, runs and goes down again is among them, and its DOWN rows follow each other.

What the inputs may be is assumed by name, so that the theorems speak of every such input.
`OeeInputsAssumption`: counts and planned time are not negative, stops and good pieces are any integers.
`GroupInputsAssumption`: a machine is of one of the lines, shifts end after they start (`CHECK (end_at >
start_at)`); the stops of a machine have a `duration_sec` the schema does not constrain, so negative
ones are included. `PatternsAssumption`: a `#` is the last level only, which is what MQTT allows.
`RequestsAssumption`: a request has a route that is mounted, and the routes whose handlers only read
take no other method. `PointSetsAssumption` and `RuleInputsAssumption`: points are finitely many, times,
values and k sigma are whole, of either sign (the statistics are compared as squares when k is not
negative), and windows look back.

## 3. The runs

| Run | Instance | Shows |
|---|---|---|
| `attestazione` | 2 requests, 2 keys, 2 contents, 3 numbers, 1 fault each | emissions, forced ones, revocations and deleted users over an old row or none, with errors and crashes at any statement: one active attestation, registered numbers, rows never rewritten but for the name of a deleted user, refinement of the register |
| `alert_engine` | 2 rules and 3 samples, or 1 edited rule and 4; room for 1 entry, 3 instants | eviction, pruning, restarts and edits under overlapping evaluations: alarms are spaced, counted and of unbroken breaches |
| `parts` | the inputs of `MCQueries`; rules: 3 loads, 2 edits, time to live 2; lockout: 2 logins, threshold 2, 5 failures; tasks: 2 replicas, 4 boots; dashboard: 4 checks; service: 2 changes, 2 messages on the wire, one closer besides | the operators against what they should amount to; rules are recent, a lock outlasts the last failure, tasks are no more than replicas, the latest check decides, a clean exit leaves no buffered point behind |
| `live` | service: 1 change, 2 messages on the wire; alerts: 1 alert, 2 replicas, interval 2, 2 stops; live feed: 2 slots, 2 topics; accounts: 2 ids, 1 address, 1 erasure, 2 housekeeping runs, grace 1, clock to 3; under fairness | the status catches up and a drain ends; alerts are tickets, two tiers take an interval, an open alert escalates; a page gets its topics; an erasure that is not reversed takes effect |
| `auth_sessions` | 3 requests, 3 tokens, 2 users, time to live 1, clock to 2 | rotation, reuse, logout, erasure, restart |
| `user_lifecycle` | 2 ids, 2 addresses, 2 erasures, 2 housekeeping runs, grace 1, clock to 3 | what is swept is the actor of nothing, what is restored keeps its grace, deadlines do not move |

Six violation runs check one claim each that a comment makes and the code does not keep; see section 5.

**Bounds.** Two requests for one key are what it takes to lose a race, and the administrator's
revocation is the third party that takes the winner's row away in between; two keys are what it
takes for numbers of different keys to collide. Three numbers serve two requests beside an old row,
and still collide. One fault per request reaches every `catch`, and two requests together reach two.
One entry for two rules makes every store an eviction candidate, and four breaching samples are two
alarms of a rule that counts to two. A debounce of two ticks leaves a tick inside the window; the
clock runs as long. Three tokens are a login and two rotations, or two sessions and a rotation;
three requests are a login, a rotation and a retry that overlaps it. Two ids and two erasures are
two accounts erased at once, or one account twice; an id deleted is not drawn again, so both are
also one account and its successor. With a grace of one unit and a token that lives zero, three
units reach a request, a run that begins when it is due, and one that began before.

In `parts`, two logins overlap and five failures reach locks of two, four and five seconds, the last by
the cap; three loads are two that overlap and one that finds what they left; four boots of the tasks'
three names, by two replicas, contain two that overlap and a boot after a partial one; four checks are
two that overlap, before and after a visit to the login page; two changes are one that waits in a
buffer, in a request or for a retry while the next is handled. In `live`, one change suffices for what
is retained, lost and sent again; two messages on the wire are a retained one and what follows it. One
alert is enough: the `UPDATE` treats rows alike; two replicas escalate together, and an interval of two
separates their passes. Two slots are the connection that closes and the one that opens. The one address
is the administrator's, whose account does what every other does and is revived by boots besides; two
ids are that account and its successor. Of the queries, planned times reach below and above the stops,
one of which lasts less than nothing; machines are one or two, of one line or of two; of the points up
to three are of one machine, which stops for two reasons and runs in between, and two of the other; and
patterns have up to six levels, one more than a topic has; statistical windows are of up to six samples,
where the bound of the property lies for one and two sigma; k is also 0, which is the default, and
negative.

Symmetry is declared for requests, contents, numbers, tokens, ids, erasures and housekeeping runs,
whose values no definition tells apart, never for users and addresses (one is the administrator's)
or rules (their settings differ), and in no run with a liveness property. The bounds `Max…`,
`Changes` and `WireBound` are guards of the modules; the proofs hold for every value of them.

`CHECK_DEADLOCK FALSE` is set everywhere because every instance ends or may rest: requests are
finite, clocks stop, and a component whose part was not chosen does nothing.

**Fairness.** `live` assumes four sets, each of which constrains its own component.
*Accounts* (`UsersFairness`, the `Fairness` of `UserLifecycle`): time passes (`Tick`), a handler that
has begun ends, by failing if need be, the timer of each replica comes back (`SweepAnonymise`;
`setInterval` in `housekeeping.js`, started by `main()` at every boot), and a run that is begun
again and again succeeds at some point (strong fairness of `SweepDelete`). Without the last nothing
is promised by the code either: `runOnce()` logs a failure and waits a day. Nothing is assumed of
operators, users or restarts.

*Service*: the deadline of the drain is a timer; Docker starts what ended (`restart: unless-stopped`),
the MQTT client tries again every `reconnectPeriod`, subscribes on every `connect` and handles what it
gets; the timers of the two buffers send, and a request is answered; the broker comes back; and the
trouble from outside (`Trouble`: lost connections, writes that fail, kills) stops in the end - without
which nothing need ever be stored. A batch that was given up stays given up: `StatusCatchesUp` names it
as an exception. No closer is assumed to settle. *Alerts*: time passes, the timer of a running replica
fires, a replica that was stopped is started again, and of infinitely many `UPDATE`s of a replica
infinitely many succeed (strong fairness of `Escalate`); otherwise a database that always fails at that
moment keeps every alert as it is. *Live feed*: both ends act on what reaches them, the heartbeat is a
timer, and refusals, lost servers and changes of the page come to an end. A connection cut without a
word is *not* excluded: the property has it as an exception, since the hook has no heartbeat of its own.

## 4. The proofs

| Module | Theorem | For every value of the constants |
|---|---|---|
| `AttestazioneProofs` | `TypeCorrect`, `OneActive`, `ServedRegistered`, `IdempotentEmission`, `ForcedReplacement` | the invariants of the passing run |
| | `AppendOnly` | rows stay with key and content; who emitted or revoked one is replaced by nobody but by NULL |
| | `Refinement` | `Spec => Registry!Spec` |
| `AlertEngineProofs` | `TypeCorrect`, `Bounded`, `Spaced`, `Unbroken`, `Enough` | |
| `AuthSessionsProofs` | `TypeCorrect`, `OneToken`, `Closed`, `Erased` | |
| `UserLifecycleProofs` | `TypeCorrect`, `NoActor`, `RestoredSafe`, `DeadlineKept` | |
| `PartsProofs` | `Recent`, `LockHolds`, `LatestDecides` | any number of loads, logins and checks |
| | `TasksAreBounded` | any number of replicas: as many tasks of a name at most |
| | `LocksGrow` | the backoff never falls and is capped |
| `LiveProofs` | `ZeroLosesNothing` | any closers, messages and failing writes |
| | `StatusIsKept` | what is published with retention is on its way, with the write API, stored, or in a batch that was given up |
| | `TwoTiers` | any number of alerts and replicas |
| | `Refinement` | `AlertsSpec => Ticket!Spec` |
| | `HookGoesOn`, `OpenPageIsServed` | a page has one connection or makes one, and an open one gets its topics |
| `QueriesProofs` | `OeeIsTimeOfGood`, `GroupKeepsTime`, `DowntimesFit`, `FilterOfBrowsersIsMqtt`, `CookieNeedsMirror`, `ChangesLeaveARow`, `TwoOfThreeIsImplied`, `AlarmsNeedSamples` | the invariants of `parts` about the queries, for every input |
| | `OeeIsRatio` | the OEE and its factors lie within 0..1, and times and pieces add up |

The assumptions are the named ASSUMEs of the modules: `NoneAssumption` and `LegacyAssumption` (the
absent value is none of the present ones), `FaultAssumption`, `RulesAssumption`, `TimeAssumption`,
`UsersAssumption`, `LoopAssumption`, `BootsAssumption`, `ReplicasAssumption`, `ChecksAssumption`,
`NowAssumption` (types of the bounds; the replicas are finitely many), `EmailAssumption` (`Lower` leaves
the administrator's address alone), the `TimeAssumption` of `UserLifecycle` (a token and a call are
shorter than the grace), `ConfsAssumption` (a rule counts to at least one), `LockoutAssumption` (a lock
may last two seconds; `config/index.js` asks for 30), `ClosersAssumption` (the other closers are other
ones), `RealtimeAssumption` of `MCLive` (the absent connection and the absent frame are none of the
present ones), `OeeAssumption` (the default plan, a day and the unit of a cycle are positive), and those
on the inputs of `Queries` (section 2). `Bounded` does not assume `Rules` finite: that `known` is finite
is part of its induction.

**Register.** `AtMostOneActive` is inductive almost by itself: an `INSERT` must pass `Insertable`. The
others are not. `ServedIsRegistered` needs that a handler at `send` that met no fault and does not force
has *its own* row in the table (`SendsRegistered`): such a handler never comes from `WriteFail` or
`ForceRollback`, which is where the two premises are used. `ForceHasReplacement` needs that the row
about to be revoked is of the key asked for (`ExistingKnown`, `ForceHasPrior`), that the force path is
only entered by a request that forces, and a witness that survives every later step. That witness is
what `TableStep` is for: a step keeps the table, revokes one row, adds one, or forgets a user
(`ForgottenRow`), and under each of them every row stays with its key and content. The refinement maps
`TableStep` to a stutter, `Withdraw`, `Issue` or `Reissue`.

**Alert engine.** What an entry remembers is less than what the properties ask, so the invariant
links the entries to history: `FireRemembered` (an entry that was not dropped knows the last alarm),
`CountsRun` (it never counts more breaches than there were), `IdleUnarmed` and `ArmedSince` (an
entry that is armed has a window that opened no earlier than the last clean sample and the last
alarm). `FiresSpaced` then has two cases. If the entry was never dropped the engine compares with
the time of the last alarm itself. If it was, the entry is new, so its first breach armed it after
that alarm, and the window is a debounce long - which is why dropping an entry is safe, and why a
rule edited after it was dropped escapes.

**Rules cache.** The cache is dated with the start of the load that filled it, and that load read the
table later: `CacheInForce` says its contents were still in force after its date, and a hit is less
than a time to live after that. A load that started earlier may overwrite newer rules, but it dates
them with its own start.

**Sessions.** `OneTokenPerFamily` needs where the other tokens are: outside `raced` families a token
is in at most one rotation (`ReadOnce`); when a rotation is past `Consume` its family has no
unconsumed token left (`NoneLeft`) and at most one request is to mint into it (`OneMinting`).
`ClosedForGood` needs that a closed family has no rotation under way (`ClosedQuiet`; it can start
none, all its tokens being revoked), `ErasedGetsNoToken` that a barred user is inactive and nobody
is about to mint for them (`BarredOut`).

**Users.** That nobody writes an audit row for an account once it is due is not visible in any one
statement: it holds because everything that could write one is older than the grace. `Dated` says so
of tokens and calls in terms of the clock, `PendingQuiet` of a pending account (its token expires,
and a call for it ends, within a token's life of the request), and `OverdueQuiet` adds the two up
against `TimeAssumption`: an account past its grace is `Silent`. `DueHidden` and `SweptQuiet` carry
that through the transaction - an id due at its start stays hidden until the commit - and
`GoneForGood` past the deletion. `RestoredSafe` needs that the pending request of an account is no
older than its last restoration (`Dated`); `DeadlineKept` follows from what each statement does to
`deletion_requested_at`.

**Alerts.** `TwoTiersTakeAnInterval` is not inductive: the second tier must know how old the first
is. `EscalatedAfterFired` says that an alert of the first tier was escalated after it fired, so that
the interval since `escalated_at` the `WHERE` clause asks for is one since `fired_at` too;
`RowlessIsMild` that what is no row has no severity, which is also why `Store` maps to `Open` with
the lowest tier and `deleteRule` to `Withdraw`. `Escalate` maps to the escalation of those of the
due rows that are not critical yet.

**Service.** A clean exit finds every closer settled, so the write API is closed (`OpenUntilDrained`: it
is open exactly as long as nothing drains), and the invariant follows what is owed there: `OwedIsKept`
has it anywhere between buffer and store while `flush()` lasts, in the request of `close()` or of a
timer once the flush has emptied the retry buffer, and in none that anybody awaits at the end. That is
also as much as holds: a point handled while `close()` is awaited lands in a buffer nobody sends, and a
timer's request may be under way when the process exits (section 5).

`StatusIsKept` is the half of `StatusCatchesUp` that is not about fairness: while the process serves and
is subscribed, the retained status is on the wire, with the write API or stored, or in a batch that was
given up (`Kept`). It needs the types of the wire (`IngestTypeOK`) and the invariant above, for the
drain is what empties the buffers. The subscription puts the retained message on the wire again,
`Handle` moves the head of the wire into the buffer, and each step of the write API takes a point from
one place to the next; what a lost connection or a dead process takes, the premise takes with it.

**Live feed.** `HookGoesOn` and `OpenPageIsServed` share an invariant, because each connection has two
ends. `SocketIsOfEffect` keeps the connection of the current effect apart from those on their way
out, so that a frame of a cancelled effect cannot decide what the page gets; `OpenOfClient` says that
an end that is open, and a frame, belong to a connection the server still holds. `OpenAsks` is then
the safety half of `FollowsTopics`.

**Small parts.** `LockOutlastsLastFailure` holds although either `UPDATE` may be lost or overtaken,
because whatever writes a lock writes two seconds or more (`LockLasts`). `TasksAreBounded` rests on
`RoomForAll`: what a name has, and the replicas whose listing did not show it and whose loop has still
to reach it (`ToCreate`), are together no more than there are replicas, as long as the task is there.
When it is not, everybody may create it. The page of the dashboard never waits for a check that is new
(`PageHasAsked`).

`LocksGrow` is about the operators alone: a power of two is at least the one before, and cutting both at
the cap keeps their order.

**Sums over finite sets.** `Oee`, `Downtimes` and `Samples` add things up with a fold, and the induction
theorems of the library take an operator, which none of the provers instantiates. `SumsProofs` inducts
over *sets* instead: the natural numbers at which something fails would have a least one
(`LeastNatural`), so a set of subsets of a finite D that has the empty set and, with what is left of a
subset once an element is taken, the subset, has all (`SubsetInduction`). From there a sum exists, and
is linear (`SumIsLinear`), monotonic (`SumIsMonotonic`), that of an indicator is a cardinality
(`SumOfIndicator`), the pairs of a relation may be counted from either side (`CountedTwice`,
`SumOfFibres`), and the square of a sum is bounded as Cauchy and Schwarz have it (`SquareOfSum`).

**OEE.** `OeeIsRatio` takes `computeOEE()` factor by factor: what is clamped lies within what it is
clamped to (`ClampIsWithin`), so each factor is a ratio, and a product of ratios is one and at most each
(`ProductOfRatios`). `OeeIsTimeOfGood` cancels the operating time and the pieces; that needs the case in
which one of them is zero, where code and property both say 0. `GroupKeepsTime` is an exchange of sums:
`aggregateOEE()` adds the times its parts operated, each clamped by itself and against the plan of its
own line, so that linearity gives the plan of the group.

**Downtimes.** `DowntimesFit` counts pairs. Take the pairs of a DOWN row and an instant it is counted
for. Forget the row and keep its machine: no two pairs become one (`CountedOnce`), because two DOWN rows
of one machine are of one table, whose rows follow each other in the order of time, so that the earlier
ends at the latest where the later begins. So there are no more pairs than instants since a machine's
first stop (`CountedFit`), and summed per row and per reason (`SumOfFibres`) they are the seconds of the
Pareto (`ParetoCounts`). That those seconds are the time a machine was *down* does not hold: the next
row of a DOWN row may be the next DOWN of the same table (run `downtimes`).

**Filters, eligibility, statistics.** The patterns are of any length: a `#` is last, so that it is the
first level to decide exactly when each level before it is a `+` or equal. `CookieNeedsMirror` and
`ChangesLeaveARow` follow a request through the pipeline; the second needs that a request that reaches
its handler has met every guard of its router (`Met`), and that each router with mutations has the
audit among them or, mounted nowhere, answers 404. It has the failed `INSERT` as its exception, since
`writeAuditRow()` swallows it. `TwoOfThreeIsImplied` goes through the cases of the
eligibility. `AlarmsNeedSamples` is Samuelson's inequality (`DistanceIsBounded`): Cauchy and Schwarz
bound the square of the sum of the n - 1 other values, and with it the distance of the last from the
mean of all. It is stated for k that are not negative; a negative one asks for nothing (section 5).

**Only model-checked.** The violation runs, and the liveness properties `PendingIsErased`,
`StatusCatchesUp`, `ShutdownEnds`, `OpenEscalates` and `FollowsTopics`; of `StatusCatchesUp` and
`FollowsTopics` the safety half is proved (`StatusIsKept`, `OpenPageIsServed`).
**Out of this prover's reach**: liveness under fairness and ENABLED; RECURSIVE operators, which no
module here declares; the induction theorems of the library, which take an operator as a parameter and
are replaced by the induction over sets above.

## 5. Where code and documents disagree

| Run | Says | Does |
|---|---|---|
| `auth_reuse` | header of `auth-tokens.js`: a consumed token presented again revokes the entire family | a rotation between its `UPDATE` and its `INSERT` mints a token the family's revocation missed |
| `user_finalize` | `erase-subject.sh`: `--finalize` sweeps all expired soft-deletes | it passes a time 31 days ahead, so accounts of other people still within their grace go too |
| `user_mentioned` | migration 005:43: audit rows stay "rimuovendo i riferimenti personali (email, IP)" | it rewrites the rows whose actor the account is: the row of the erasure keeps its id in `resource_id`, a login its address, and a refused login has no actor and keeps `actor_email` |
| `attestazione_verify` | `piano4-attestazione-pdf.js:239`: `emessa_il` is embedded so that `/verify` recomputes the hash | the renderer hashes its own clock and the row gets the `NOW()` of its `INSERT`: an attestation nobody touched is a `hash_mismatch` |
| `contact` | `contact.js:2`: the public endpoint of the landing page's form | the router of the attestations, mounted at `/api` before it, asks for a user: 401 in production |
| `downtimes` | `metrics.js:55-57`: the status events are ordered by machine and time, a DOWN lasts until the next record of state | they are ordered within a machine *and state*: a machine that goes down, runs and goes down again is down until the second DOWN |

Also met while modelling, without a run of their own.

*Attestations and accounts*

- A forced re-emission whose transaction is rolled back sends its PDF all the same; migration 004 says a
  row is inserted every time a PDF is generated.
- The automatic revocation of a row older than migration 008 is committed before the rendering and the
  `INSERT`: when one of them fails, nothing replaced the row its reason says was replaced
  (`attestazione.js:212`).
- `DELETE /me` checks the password by id and erases by address without case (`users.js:326`,
  `gdpr.js:56`), which two accounts may share.
- `--finalize` on an account that is already scheduled exits with 0 and deletes nothing
  (`erase-subject.sh:137-140`), although its usage text offers it for that case (line 62).
- Migration 004 calls the register a non-repudiable archive (`004:51`); a hard deletion of a user sets
  `emessa_da` and `revocata_da` to NULL (`004:32,37`), so it forgets who emitted and who revoked.
- `finalizeErasures()` deletes accounts without anonymising their rows of `audit_log`, and no later
  housekeeping run finds those rows.
- A restart activates the configured administrator and leaves `deletion_requested_at`: the account works
  until the housekeeping deletes it.
- `docs/HANDOFF.md:794` describes a 7-day quiescence after `DELETE /me`; the code knows 30 days only.
- `docs/AUDIT.md:2344` and the header of `auth-tokens.js` speak of an absolute cap of 12 hours;
  `mintRefreshToken()` starts the 12 hours again at every rotation.
- The header of `audit.js` promises a row for every state-changing request; the revocation of an
  attestation leaves none, its router being mounted without the middleware, and a request
  `requireAuth()` refuses never reaches the middleware, whose code records 401s. An `INSERT` that fails
  is logged and the row is gone; the flag `FAIL_CLOSED` that would answer 503 instead (`audit.js:12-14`)
  is read nowhere.
- A device with attestations cannot be deleted (`ON DELETE RESTRICT`) and the request is answered 500.
- An account locks at the failure after the threshold, and failures that overlap may shorten a lock.

*Alerts*

- The header of `alert-engine.js` says "for N consecutive samples"; a sample whose evaluation has to
  query the rules is evaluated after a later one that finds them cached.
- The comment at `alert-engine.js:340` has escalated alerts re-notified: only the row changes. The first
  tier does not wait (`escalated_at IS NULL`), and with the strict `<` a pass that comes exactly an
  interval later skips.
- A statistical rule compares a sample with a window that holds it (`StatisticalNeedsSamples`). The
  schema does not constrain `k_sigma`: a negative one fires at every sample of a window that varies, and
  0 means 2.
- The schema takes the protocols `modbus_rtu` and `sparkplug`, which are never eligible.

*Processes*

- Two replicas on two pods both run as `factorymind-backend-<pid>`, with equal pids in equal images
  (`config/index.js:182`, `k8s/deployment.yaml:23`): the broker disconnects one whenever the other
  connects. If they differ, both store every alert.
- `bootstrapTasks()` is called idempotent (`influx-writer.js:208`). Two replicas, the least the
  deployment runs, that boot together both miss the tasks and create them, and nothing removes the
  duplicates.
- A batch is given up after three retries, for an answer below 429, or when the retry buffer is full
  (`influx-writer.js:26-40`), and only logged. A status in it is made up for by the next connection,
  when the broker sends what it retains, and not before: an outage of InfluxDB alone leaves the old
  status.
- A subscription that is refused is never tried again, and `/ready` reports the broker as connected all
  the same. Its latch of dependencies seen healthy decides nothing: they must be healthy now too.
- A telemetry value that is no finite number leaves the MQTT listener as an exception, and the process
  drains and exits with 0.
- `docs/HANDOFF.md:753` describes a drain in order; the closers are called together. Points handled
  while `influx.close()` is awaited wait in a buffer nobody sends, later ones meet a write API that
  throws, and the requests its timers sent are not awaited: a process that exits with 0 may have lost
  them.
- `AlertEngine.stop()` does not unsubscribe from the MQTT client, and `housekeeping.stop()` does not
  clear the first timeout.
- The bridges are started with no mappings. Were there any: a retry of the OPC UA bridge leaks the
  client before, though `opcua-bridge.js:23` calls the lifecycle correct, a Modbus connection that fails
  is not tried again, and polls overlap.

*OEE, downtimes, dashboard*

- A stop of the Pareto that is open counts until now rather than until the end that was asked for.
- The aggregate OEE estimates the ideal cycle from the actual ones, so its performance is about 1;
  `oee.js:89` speaks of the shifts within the interval asked for, the query takes the last 24 hours.
- `writeCounters()` and `setOeeSnapshot()` have no caller.
- The error handler answers with the status an error carries: a 401 of InfluxDB logs the page out.
- The API client never refreshes a token; `baseURL` is `/api` while some calls begin with `/api` too.
- A topic of a subscribe frame that is no string makes `matches()` throw, which ends the fan-out of
  that message for the clients after it (`ws/server.js:157`).

## 6. What is not modelled

- **Bridges** (`opcua-bridge.js`, `modbus-bridge.js`, the endpoint validator): `main()` starts them
  with an empty list of mappings, from which they return at once. A model of their retries would
  have no reachable state.
- **Sustained-OEE rules** (`evaluateSustained()`): their input is fed by nobody.
- **Probes** (`ready.js`, `health.js`): they ask the dependencies and answer; the latch of `ready.js`
  never decides.
- **Master data** (`devices.js`, `facilities.js`, `lines.js`, `models/index.js`): a statement per
  request over constraints of the database; their guards are in `Pipeline`.
- **Sparkplug**, **GreenMetrics**, **predictive maintenance**: an opt-in skeleton, a client of
  another service, a placeholder.
- **Purges** of old refresh tokens and audit rows by the housekeeping: no modelled behaviour reads
  what they delete. The export of a subject only reads.
- **Contents**: the layout of the PDF, password policy, configuration, logging, the wording of
  messages, the random walk of the simulator, the series of `GET /metrics`, deployment files.

Within the modelled parts: `Attestazione` has what changes the register, while download, metadata and
verify are operators of `Piano4`; `UserLifecycle` leaves out the seed account that `ensureAdmin()`
deactivates, and refresh tokens, which are `AuthSessions`; audit rows are modelled as far as they have
an account for their actor or mention it in `resource_id` or `actor_email`, and not by their payloads.
Replicas share the register, the sessions, the accounts and the alerts, and the models interleave
requests without saying which replica runs them, and so do the boots of `Tasks`, but `AlertEngine` and
`Service` are one process: `ruleState` and the buffers are not shared. `Dashboard` and `Realtime` are
one page.

## 7. Plan

What is left, in this order.

1. An abstract specification of a session, refined by `AuthSessions` up to `raced` families; the type
   invariants of `AlertLifecycle` and `Service` as theorems of their own; what bounds the wait of each
   liveness property by a safety property, as `StatusIsKept` does.
2. `Service` with two replicas on one broker, whose client identifiers may be equal.
3. The purges of the housekeeping beside a rotation of `AuthSessions`: a token deleted between its
   reading and its consumption.
4. The bridges, should `main()` come to give them mappings.
