-------------------------------- MODULE Piano4 --------------------------------
(* services/piano4-attestazione.js, and what routes/attestazione.js and the   *)
(* renderer make of its result: the eligibility of a machine, the document,   *)
(* and the answers about an issued one.                                       *)
(* An asking is [found, valid, protocol, commands, integrations, predictive]: *)
(* whether the device exists and the body is valid, its protocol, and how     *)
(* many events of each kind the body lists (alarms decide nothing).           *)
EXTENDS Naturals

Protocols == {"opcua", "modbus_tcp", "modbus", "mqtt", "profinet", "ethernet_ip"}

CHARACTERISTICS(ctx) ==
    [C1_CNC_PLC |-> ctx.protocol \in Protocols,
     C2_INTERCONNECTION_REMOTE_PROGRAM_LOAD |-> ctx.commands > 0,
     C3_FACTORY_SYSTEM_INTEGRATION |-> ctx.integrations > 0,
     C4_HMI |-> TRUE,
     C5_SAFETY |-> TRUE]

\* Variant: the second clause asks for two commands.
INTERCONNECTION_TWO(ctx) ==
    [I1_STANDARD_PROTOCOL |-> ctx.protocol \in Protocols,
     I2_REMOTE_PROGRAM_LOAD |-> ctx.commands > 1,
     I3_PREDICTIVE_MAINTENANCE |-> ctx.predictive > 0]

INTERCONNECTION(ctx) ==
    [I1_STANDARD_PROTOCOL |-> ctx.protocol \in Protocols,
     I2_REMOTE_PROGRAM_LOAD |-> ctx.commands > 0,
     I3_PREDICTIVE_MAINTENANCE |-> ctx.predictive > 0]

Mandatory == {"I1_STANDARD_PROTOCOL"}

generateAttestazione(ctx) ==
    LET characteristics == CHARACTERISTICS(ctx)
        interconnection == INTERCONNECTION(ctx)
        allChars == \A c \in DOMAIN characteristics : characteristics[c]
        interconnectOk ==
            /\ \A i \in Mandatory : interconnection[i]
            /\ \E i \in DOMAIN interconnection \ Mandatory : interconnection[i]
    IN [eligible |-> allChars /\ interconnectOk,
        reason |-> CASE allChars /\ interconnectOk -> "all"
                     [] ~allChars                  -> "characteristics"
                     [] OTHER                      -> "interconnection"]

\* buildAttestazione, and POST .../preview
preview(asking) ==
    CASE ~asking.found -> [status |-> 404]
      [] ~asking.valid -> [status |-> 400]
      [] OTHER         -> [status |-> 200, attestazione |-> generateAttestazione(asking)]

-----------------------------------------------------------------------------
(* An issued document: JSON.stringify with an array of keys writes those keys *)
(* at every depth, and neither the recipient nor the report has one of them.  *)
hashPayload(payload) == [numero |-> payload.numero, emessa_il |-> payload.emessa_il,
                         destinatario |-> "{}", report |-> "{}"]

Document(numero, at, content) ==
    [numero |-> numero, emessa_il |-> at, destinatario |-> content, report |-> content]

\* renderAttestazionePDF hashes its own clock; the row gets NOW() of its INSERT.
Issued(numero, rendered, inserted, content, archived) ==
    [payload  |-> Document(numero, inserted, content),
     pdf_hash |-> hashPayload(Document(numero, rendered, content)),
     archived |-> archived, revoked |-> FALSE, scaricata_count |-> 0]

\* GET /attestazione/:numero/verify of a row
verify(row) ==
    IF row.revoked THEN [status |-> 409, verdict |-> "revoked"]
    ELSE [status |-> 200,
          verdict |-> IF hashPayload(row.payload) = row.pdf_hash THEN "valid"
                      ELSE "hash_mismatch"]

\* GET /attestazione/:numero/pdf: the answer, and the row; counting may fail.
pdf(row, counted) ==
    IF row.revoked \/ ~row.archived THEN [status |-> 410, row |-> row]
    ELSE [status |-> 200,
          row |-> IF counted THEN [row EXCEPT !.scaricata_count = @ + 1] ELSE row]

\* GET /attestazione/:numero
metadata(row) == [status |-> 200, revoked |-> row.revoked, pdf_hash |-> row.pdf_hash]
=============================================================================
