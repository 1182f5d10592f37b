---------------------------- MODULE Attestazione ----------------------------
(***************************************************************************)
(* POST /api/devices/:id/attestazione/pdf and the admin revocation, as     *)
(* implemented in routes/attestazione.js over the table attestazioni       *)
(* (migrations 004, 007, 008).                                             *)
(*                                                                         *)
(* Every request is a process.  Its handler runs without interruption from *)
(* one await to the next, so each action below is the code between two     *)
(* awaits together with the statement the database executes for it.  A     *)
(* statement may fail; the handler's catch blocks decide what happens      *)
(* then.  A transaction appears at its commit point: until then its writes *)
(* are invisible, and an unacknowledged commit answers like an             *)
(* acknowledged one.                                                       *)
(***************************************************************************)
EXTENDS Naturals

CONSTANTS Requests,   \* emission requests
          Keys,       \* (device_id, anno_fiscale, plan)
          Contents,   \* content_sha256 values
          Numeri,     \* the numbers generaNumeroUnivoco may draw
          None,       \* no row / no number
          Legacy,     \* content_sha256 NULL: a row older than migration 008
          MaxFaults   \* database errors and crashes one request may meet

ASSUME NoneAssumption   == None \notin Numeri
ASSUME LegacyAssumption == Legacy \notin Contents
ASSUME FaultAssumption  == MaxFaults \in Nat

VARIABLES rows,      \* the table: a function from the numbers it holds to rows
          pc,        \* where each request's handler is
          existing,  \* the handler's local `existing` (its number)
          numero,    \* the handler's local `numero`
          reply,     \* what the client is sent
          faults,    \* errors each request has met
          ask        \* what each request asks for; never changes

vars == <<rows, pc, existing, numero, reply, faults, ask>>

\* revocata_il/motivo_revoca: "valid" stands for revocata_il IS NULL.  emessa_da and
\* revocata_da name a user by its request; None is NULL, and an administrator of Revoke.
Motives == {"valid", "admin", "legacy", "force"}

Row == [key : Keys, content : Contents \cup {Legacy}, motivo : Motives,
        emessaDa : Requests \cup {None}, revocataDa : Requests \cup {None}]

InFlight == {"lookup", "autorevoke", "render", "insert", "recover", "force", "send"}

Served == {"cached", "recovered", "fresh"}

\* force: ?force=true sent by an administrator (from anybody else it is refused).
Ask == [key : Keys, content : Contents, force : BOOLEAN]

Reply == [kind : Served \cup {"none", "conflict", "refused", "error", "lost"},
          numero : Numeri \cup {None}]

Nothing == [kind |-> "none", numero |-> None]

-----------------------------------------------------------------------------
(* The table.                                                              *)

\* The rows of k that the partial unique index uq_attestazioni_idempotency
\* covers, which are also the rows the idempotency SELECT can return.
Active(k) == {n \in DOMAIN rows : rows[n].key = k /\ rows[n].motivo = "valid"}

\* Variant: the UPDATE without its WHERE revocata_il IS NULL.
RevokedAgain(table, n, m, who) ==
    [i \in DOMAIN table |->
        IF i = n THEN [table[i] EXCEPT !.motivo = m, !.revocataDa = who] ELSE table[i]]

\* UPDATE ... SET revocata_il, revocata_da, motivo WHERE numero = n AND revocata_il IS NULL
Revoked(table, n, m, who) ==
    [i \in DOMAIN table |->
        IF i = n /\ table[i].motivo = "valid"
        THEN [table[i] EXCEPT !.motivo = m, !.revocataDa = who]
        ELSE table[i]]

\* INSERT INTO attestazioni of the PDF request r rendered
Inserted(table, r) ==
    [i \in DOMAIN table \cup {numero[r]} |->
        IF i = numero[r]
        THEN [key |-> ask[r].key, content |-> ask[r].content, motivo |-> "valid",
              emessaDa |-> r, revocataDa |-> None]
        ELSE table[i]]

LegacyRow(k) == [key |-> k, content |-> Legacy, motivo |-> "valid",
                 emessaDa |-> None, revocataDa |-> None]

\* The unique index exists, so a key starts with one active row at most.
Init ==
    /\ \E S \in SUBSET Numeri : \E owner \in [S -> Keys] :
          /\ \A i, j \in S : owner[i] = owner[j] => i = j
          /\ rows = [n \in S |-> LegacyRow(owner[n])]
    /\ pc = [r \in Requests |-> "lookup"]
    /\ existing = [r \in Requests |-> None]
    /\ numero = [r \in Requests |-> None]
    /\ reply = [r \in Requests |-> Nothing]
    /\ faults = [r \in Requests |-> 0]
    /\ ask \in [Requests -> Ask]

-----------------------------------------------------------------------------
(* Moving a handler along.                                                 *)

Goto(r, l) == pc' = [pc EXCEPT ![r] = l]

\* res.send: the answer leaves and the handler is over.
Answer(r, kind, n) ==
    /\ Goto(r, "done")
    /\ reply' = [reply EXCEPT ![r] = [kind |-> kind, numero |-> n]]

\* A statement of r's handler fails.
Fault(r) ==
    /\ faults[r] < MaxFaults
    /\ faults' = [faults EXCEPT ![r] = @ + 1]

\* force=true without the admin role, an unknown device or an invalid body.
Refuse(r) ==
    /\ pc[r] = "lookup"
    /\ Answer(r, "refused", None)
    /\ UNCHANGED <<rows, existing, numero, faults, ask>>

-----------------------------------------------------------------------------
(* The idempotency lookup and the decision taken on its result.            *)

\* No active row: a fresh emission.
LookupMiss(r) ==
    /\ pc[r] = "lookup"
    /\ Active(ask[r].key) = {}
    /\ Goto(r, "render")
    /\ UNCHANGED <<rows, existing, numero, reply, faults, ask>>

\* An administrator forces: whatever the row holds, it will be replaced.
LookupForce(r) ==
    /\ pc[r] = "lookup"
    /\ ask[r].force
    /\ \E n \in Active(ask[r].key) : existing' = [existing EXCEPT ![r] = n]
    /\ Goto(r, "render")
    /\ UNCHANGED <<rows, numero, reply, faults, ask>>

\* Same content: the stored bytes are sent again.
LookupHit(r) ==
    /\ pc[r] = "lookup"
    /\ ~ask[r].force
    /\ \E n \in Active(ask[r].key) :
          /\ rows[n].content = ask[r].content
          /\ Answer(r, "cached", n)
    /\ UNCHANGED <<rows, existing, numero, faults, ask>>

\* Another content: 409, an administrator has to force.
LookupConflict(r) ==
    /\ pc[r] = "lookup"
    /\ ~ask[r].force
    /\ \E n \in Active(ask[r].key) :
          /\ rows[n].content \notin {Legacy, ask[r].content}
          /\ Answer(r, "conflict", n)
    /\ UNCHANGED <<rows, existing, numero, faults, ask>>

\* A row older than migration 008: it is to be revoked before the INSERT.
LookupLegacy(r) ==
    /\ pc[r] = "lookup"
    /\ ~ask[r].force
    /\ \E n \in Active(ask[r].key) :
          /\ rows[n].content = Legacy
          /\ existing' = [existing EXCEPT ![r] = n]
    /\ Goto(r, "autorevoke")
    /\ UNCHANGED <<rows, numero, reply, faults, ask>>

\* The SELECT fails: logged, and the handler goes on as if there were no row.
LookupFail(r) ==
    /\ pc[r] = "lookup"
    /\ Fault(r)
    /\ Goto(r, "render")
    /\ UNCHANGED <<rows, existing, numero, reply, ask>>

\* The legacy row is revoked by a statement of its own, outside a transaction.
AutoRevoke(r) ==
    /\ pc[r] = "autorevoke"
    /\ rows' = Revoked(rows, existing[r], "legacy", r)
    /\ Goto(r, "render")
    /\ UNCHANGED <<existing, numero, reply, faults, ask>>

AutoRevokeFail(r) ==
    /\ pc[r] = "autorevoke"
    /\ Fault(r)
    /\ Goto(r, "render")
    /\ UNCHANGED <<rows, existing, numero, reply, ask>>

-----------------------------------------------------------------------------
(* Rendering, and the two ways of writing the row.                         *)

\* Variant: `if (force)` in place of `if (existing && force)`.
RenderForced(r) ==
    /\ pc[r] = "render"
    /\ \E n \in Numeri : numero' = [numero EXCEPT ![r] = n]
    /\ Goto(r, IF ask[r].force THEN "force" ELSE "insert")
    /\ UNCHANGED <<rows, existing, reply, faults, ask>>

\* The number is 32 random bits: nothing keeps it from being drawn again.
Render(r) ==
    /\ pc[r] = "render"
    /\ \E n \in Numeri : numero' = [numero EXCEPT ![r] = n]
    /\ Goto(r, IF existing[r] # None /\ ask[r].force THEN "force" ELSE "insert")
    /\ UNCHANGED <<rows, existing, reply, faults, ask>>

\* The renderer throws, or a pool without a free client makes connect() throw.
RenderFail(r) ==
    /\ pc[r] \in {"render", "force"}
    /\ Fault(r)
    /\ Answer(r, "error", None)
    /\ UNCHANGED <<rows, existing, numero, ask>>

\* Variants: without the partial index, and without UNIQUE (numero).
InsertableTwice(r, leaving) == numero[r] \notin DOMAIN rows
InsertableOver(r, leaving)  == Active(ask[r].key) \subseteq leaving

\* Neither UNIQUE (numero) nor the partial index is violated, once the rows in
\* `leaving` are revoked.
Insertable(r, leaving) ==
    /\ numero[r] \notin DOMAIN rows
    /\ Active(ask[r].key) \subseteq leaving

\* The rendered PDF is about to be sent, with X-Attestazione-Cached: false.
SendOwn(r) == Goto(r, "send")

Insert(r) ==
    /\ pc[r] = "insert"
    /\ Insertable(r, {})
    /\ rows' = Inserted(rows, r)
    /\ SendOwn(r)
    /\ UNCHANGED <<existing, numero, reply, faults, ask>>

\* Variant: 23505 handled like any other error.
InsertIgnored(r) ==
    /\ pc[r] = "insert"
    /\ ~Insertable(r, {})
    /\ SendOwn(r)
    /\ UNCHANGED <<rows, existing, numero, reply, faults, ask>>

\* 23505 unique_violation: the winner of the race is to be read.
InsertDuplicate(r) ==
    /\ pc[r] = "insert"
    /\ ~Insertable(r, {})
    /\ Goto(r, "recover")
    /\ UNCHANGED <<rows, existing, numero, reply, faults, ask>>

\* Any other error, of the INSERT or of the winner's SELECT: the PDF is sent anyway.
WriteFail(r) ==
    /\ pc[r] \in {"insert", "recover", "force"}
    /\ Fault(r)
    /\ SendOwn(r)
    /\ UNCHANGED <<rows, existing, numero, reply, ask>>

\* Variant: the winner's PDF under the loser's number.
RecoverOwn(r) ==
    /\ pc[r] = "recover"
    /\ \E n \in Active(ask[r].key) :
          /\ rows[n].content = ask[r].content
          /\ Answer(r, "recovered", numero[r])
    /\ UNCHANGED <<rows, existing, numero, faults, ask>>

RecoverHit(r) ==
    /\ pc[r] = "recover"
    /\ \E n \in Active(ask[r].key) :
          /\ rows[n].content = ask[r].content
          /\ Answer(r, "recovered", n)
    /\ UNCHANGED <<rows, existing, numero, faults, ask>>

\* A winner with other content, or no winner at all.
RecoverConflict(r) ==
    /\ pc[r] = "recover"
    /\ \/ \E n \in Active(ask[r].key) :
             /\ rows[n].content # ask[r].content
             /\ Answer(r, "conflict", n)
       \/ /\ Active(ask[r].key) = {}
          /\ Answer(r, "conflict", None)
    /\ UNCHANGED <<rows, existing, numero, faults, ask>>

\* BEGIN; revoke the prior row; INSERT the new one; COMMIT.
ForceCommit(r) ==
    /\ pc[r] = "force"
    /\ Insertable(r, {existing[r]})
    /\ rows' = Inserted(Revoked(rows, existing[r], "force", r), r)
    /\ SendOwn(r)
    /\ UNCHANGED <<existing, numero, reply, faults, ask>>

\* Variant: no transaction, so the revocation stays when the INSERT fails.
ForceHalf(r) ==
    /\ pc[r] = "force"
    /\ ~Insertable(r, {existing[r]})
    /\ rows' = Revoked(rows, existing[r], "force", r)
    /\ SendOwn(r)
    /\ UNCHANGED <<existing, numero, reply, faults, ask>>

\* A unique violation inside the transaction: ROLLBACK, and the PDF is sent anyway.
ForceRollback(r) ==
    /\ pc[r] = "force"
    /\ ~Insertable(r, {existing[r]})
    /\ SendOwn(r)
    /\ UNCHANGED <<rows, existing, numero, reply, faults, ask>>

Send(r) ==
    /\ pc[r] = "send"
    /\ Answer(r, "fresh", numero[r])
    /\ UNCHANGED <<rows, existing, numero, faults, ask>>

\* The process dies under the request; an open transaction is rolled back.
Crash(r) ==
    /\ pc[r] \in InFlight
    /\ Fault(r)
    /\ Answer(r, "lost", None)
    /\ UNCHANGED <<rows, existing, numero, ask>>

\* POST /api/attestazione/:numero/revoke by an administrator; one statement.
Revoke(n) ==
    /\ n \in DOMAIN rows
    /\ rows[n].motivo = "valid"
    /\ rows' = Revoked(rows, n, "admin", None)
    /\ UNCHANGED <<pc, existing, numero, reply, faults, ask>>

\* ON DELETE SET NULL of emessa_da and revocata_da.
Forgotten(who) ==
    LET Known(user) == IF user = who THEN None ELSE user
    IN  [i \in DOMAIN rows |->
            [rows[i] EXCEPT !.emessaDa = Known(@), !.revocataDa = Known(@)]]

\* The account behind r is hard-deleted, thirty days after its last request.
ForgetUser(r) ==
    /\ pc[r] = "done"
    /\ \E n \in DOMAIN rows : r \in {rows[n].emessaDa, rows[n].revocataDa}
    /\ rows' = Forgotten(r)
    /\ UNCHANGED <<pc, existing, numero, reply, faults, ask>>

Handle(r) ==
    \/ Refuse(r)
    \/ LookupMiss(r) \/ LookupForce(r) \/ LookupHit(r)
    \/ LookupConflict(r) \/ LookupLegacy(r) \/ LookupFail(r)
    \/ AutoRevoke(r) \/ AutoRevokeFail(r)
    \/ Render(r) \/ RenderFail(r)
    \/ Insert(r) \/ InsertDuplicate(r) \/ WriteFail(r)
    \/ RecoverHit(r) \/ RecoverConflict(r)
    \/ ForceCommit(r) \/ ForceRollback(r)
    \/ Send(r)

Next == \/ \E r \in Requests : Handle(r) \/ Crash(r) \/ ForgetUser(r)
        \/ \E n \in Numeri : Revoke(n)

Spec == Init /\ [][Next]_vars

-----------------------------------------------------------------------------
(* Properties.                                                             *)

Types ==
    /\ \E S \in SUBSET Numeri : rows \in [S -> Row]
    /\ pc \in [Requests -> InFlight \cup {"done"}]
    /\ existing \in [Requests -> Numeri \cup {None}]
    /\ numero \in [Requests -> Numeri \cup {None}]
    /\ reply \in [Requests -> Reply]
    /\ faults \in [Requests -> Nat]
    /\ ask \in [Requests -> Ask]

\* Types, and a handler has the locals its next statement reads: the row to revoke
\* where it revokes one, the number drawn where it writes or sends the PDF.
TypeOK ==
    /\ Types
    /\ \A r \in Requests :
          /\ pc[r] \in {"autorevoke", "force"} => existing[r] # None
          /\ pc[r] \in {"insert", "recover", "force", "send"} => numero[r] # None

\* Migration 008, "Invariante target": whatever emissions, forced re-emissions,
\* revocations and faults are interleaved, a (device, year, plan) never has two
\* attestations that are not revoked.
AtMostOneActive == \A k \in Keys : \A m, n \in Active(k) : m = n

\* A request that met no fault and does not force, and any request answered from
\* the archive, is given the number of a row of the register that is about its
\* own device, year and plan and about the very content it asked for.
ServedIsRegistered ==
    \A r \in Requests :
        LET n == reply[r].numero IN
        \/ reply[r].kind \in {"cached", "recovered"}
        \/ reply[r].kind = "fresh" /\ ~ask[r].force /\ faults[r] = 0
        => /\ n \in DOMAIN rows
           /\ rows[n].key = ask[r].key
           /\ rows[n].content = ask[r].content

\* "gli stessi byte": two PDFs sent for one content of one key, to requests that
\* neither force nor meet a fault, carry the same number unless one of the two
\* numbers has been revoked in the meantime.
Idempotent ==
    \A q, r \in Requests :
        LET Clean(x) == reply[x].kind \in Served /\ ~ask[x].force /\ faults[x] = 0
            Gone(n)  == n \in DOMAIN rows /\ rows[n].motivo # "valid"
        IN  Clean(q) /\ Clean(r) /\ ask[q] = ask[r]
            => \/ reply[q].numero = reply[r].numero
               \/ Gone(reply[q].numero) \/ Gone(reply[r].numero)

\* The transaction of a forced re-emission: a row revoked because it was replaced
\* always has the row that replaced it, for the same key and in the name of the same
\* user (or of nobody, once that account is deleted), even when the INSERT fails or
\* the process dies half-way.
ForceHasReplacement ==
    \A n \in DOMAIN rows :
        rows[n].motivo = "force" =>
            \E m \in DOMAIN rows \ {n} :
                /\ rows[m].emessaDa = rows[n].revocataDa
                /\ rows[m].key = rows[n].key

\* "Archivio non ripudiabile" (migration 004): a row stays for ever, what it attests
\* never changes, and the reason of a revocation is never overwritten by a later one.
\* Who emitted or revoked it is never replaced by somebody else: the deletion of the
\* account leaves NULL there (ON DELETE SET NULL).
RegisterIsAppendOnly ==
    [][\A n \in DOMAIN rows :
          /\ n \in DOMAIN rows'
          /\ rows'[n].key = rows[n].key
          /\ rows'[n].content = rows[n].content
          /\ rows'[n].emessaDa \in {rows[n].emessaDa, None}
          /\ rows[n].motivo # "valid" =>
                /\ rows'[n].motivo = rows[n].motivo
                /\ rows'[n].revocataDa \in {rows[n].revocataDa, None}]_vars

\* The register the requests manipulate statement by statement is the abstract one.
CurrentOf(k) == IF Active(k) = {} THEN None ELSE CHOOSE n \in Numeri : n \in Active(k)

Withdrawn == {n \in DOMAIN rows : rows[n].motivo # "valid"}

Registry == INSTANCE AttestazioneRegistry
                WITH current <- [k \in Keys |-> CurrentOf(k)], withdrawn <- Withdrawn

\* Every step of a handler leaves the register alone or is one indivisible issue,
\* withdrawal or replacement of the abstract register.
ImplementsRegistry == Registry!Spec
=============================================================================
