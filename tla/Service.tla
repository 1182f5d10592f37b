------------------------------- MODULE Service -------------------------------
(***************************************************************************)
(* The process of the backend (main() of index.js) around the ingestion:   *)
(* it boots, connects, drains within 15 seconds of a signal or of an       *)
(* exception nobody caught, and is restarted by Docker.                    *)
(***************************************************************************)
EXTENDS Ingest

CONSTANT Closers  \* the other closers shutdown() waits for: pg, opcua, modbus

ASSUME ClosersAssumption == "mqtt" \notin Closers

VARIABLES proc,       \* created, down, serving or draining
          exitCode,   \* 0, 1, 10, 11, 137 when it was killed, -1 while it runs
          unsettled   \* the closers that have not settled; api tells of the write API

process == <<proc, exitCode, unsettled>>
serviceVars == <<ingest, process>>

ServiceInit ==
    /\ IngestInit
    /\ proc = "created" /\ exitCode = 0 /\ unsettled = {}

\* docker compose up, of the whole stack
Start ==
    /\ proc = "created"
    /\ proc' = "down"
    /\ UNCHANGED <<ingest, exitCode, unsettled>>

\* ensureAdmin() fails, or production still has the administrator of the seed.
BootRefused ==
    /\ proc = "down"
    /\ exitCode' \in {10, 11}
    /\ UNCHANGED <<ingest, proc, unsettled>>

\* The port is open before mqtt.connect() has begun to connect.
Boot ==
    /\ proc = "down"
    /\ proc' = "serving"
    /\ exitCode' = -1
    /\ client' = "connecting"
    /\ UNCHANGED <<plant, wire, store, unsettled>>

\* shutdown(): mqtt.close(), influx.flush() and the others are called together.
ToDrain(points) ==
    /\ proc' = "draining"
    /\ unsettled' = {"mqtt"} \cup Closers
    /\ Flushing(points)
    /\ UNCHANGED exitCode

\* SIGINT, SIGTERM
Signal ==
    /\ proc = "serving"
    /\ ToDrain(buffer)
    /\ UNCHANGED <<plant, client, wire, retries, flight, stored>>

\* A message, also while the process drains
Handle ==
    /\ Receive
    /\ IF Throws(Head(wire)) /\ proc = "serving"
       THEN ToDrain(buffer) /\ UNCHANGED <<retries, flight, stored>>
       ELSE Written(Points(Head(wire))) /\ UNCHANGED process

\* After influx.close() the write API throws, out of a process that already ends.
HandleLate ==
    /\ api = "closed"
    /\ client = "subscribed" /\ wire # <<>>
    /\ wire' = Tail(wire)
    /\ UNCHANGED <<plant, client, store, process>>

SettleMqtt ==
    /\ "mqtt" \in unsettled
    /\ client' = "none" /\ wire' = <<>>
    /\ unsettled' = unsettled \ {"mqtt"}
    /\ UNCHANGED <<plant, store, proc, exitCode>>

SettleOther ==
    /\ \E c \in Closers \cap unsettled : unsettled' = unsettled \ {c}
    /\ UNCHANGED <<ingest, proc, exitCode>>

\* A write that fails
WriteFails ==
    /\ RequestFails \/ FlushFails \/ CloseFails
    /\ UNCHANGED <<plant, client, wire, process>>

\* The process is gone: its connection, its buffers and its closers with it.
Gone(code) ==
    /\ proc' = "down"
    /\ exitCode' = code
    /\ client' = "none" /\ wire' = <<>>
    /\ Vanished
    /\ unsettled' = {}
    /\ UNCHANGED plant

\* Promise.allSettled
Exit == proc = "draining" /\ unsettled = {} /\ api = "closed" /\ Gone(0)

\* Variant: the deadline starts when the closers have settled.
DeadlineLate == proc = "draining" /\ unsettled = {} /\ Gone(1)

\* A closer hangs for 15 seconds.
Deadline == proc = "draining" /\ Gone(1)

Kill == proc \in {"serving", "draining"} /\ Gone(137)

\* The write API, and InfluxDB
Write ==
    /\ Send \/ Retry \/ FlushLands \/ CloseLands \/ \E n \in flight : Land(n)
    /\ UNCHANGED <<plant, client, wire>>

\* The rest of the stack, once it is up
Environment ==
    /\ proc # "created"
    /\ \/ Publish \/ Pass \/ BrokerDown \/ BrokerUp \/ Disconnect
       \/ Connect \/ Subscribe \/ SubscribeRefused

ServiceNext ==
    \/ (Environment \/ Write) /\ UNCHANGED process
    \/ WriteFails
    \/ Start \/ BootRefused \/ Boot \/ Signal \/ Handle \/ HandleLate
    \/ SettleMqtt \/ SettleOther
    \/ Exit \/ Deadline \/ Kill

ServiceSpec == ServiceInit /\ [][ServiceNext]_serviceVars

\* What the outside does to the backend, or an unsound message makes of it
Trouble ==
    \/ BrokerDown \/ Disconnect \/ WriteFails \/ BootRefused \/ Kill
    \/ proc = "serving" /\ proc' # "serving"

\* The deadline is a timer, like those of the two buffers. The broker comes back, Docker
\* restarts what ended, the client connects again, a request is answered, and in the end the
\* trouble stops for as long as that takes.
Fairness ==
    /\ WF_serviceVars(Deadline) /\ WF_serviceVars(Boot) /\ WF_serviceVars(Handle)
    /\ WF_serviceVars(BrokerUp /\ UNCHANGED process)
    /\ WF_serviceVars(Connect /\ UNCHANGED process) /\ WF_serviceVars(Subscribe /\ UNCHANGED process)
    /\ WF_serviceVars(Send /\ UNCHANGED <<plant, client, wire, process>>)
    /\ WF_serviceVars(Retry /\ UNCHANGED <<plant, client, wire, process>>)
    /\ \A n \in 1 .. Changes :
         WF_serviceVars(Land(n) /\ UNCHANGED <<plant, client, wire, process>>)
    /\ <>[][~Trouble]_serviceVars

ServiceFairSpec == ServiceSpec /\ Fairness

-----------------------------------------------------------------------------
(* Properties.                                                             *)

\* The status the broker retains is stored in the end, whatever connections, requests and
\* processes are lost meanwhile, unless the next change replaces it. Two exceptions: a
\* subscription that was refused is not tried again, and a batch the client gave up - after
\* three retries of influx-writer.js - is only made up for by the next connection.
StatusCatchesUp ==
    \A n \in 1 .. Changes :
        retained = n ~> (n \in stored \cup dropped \/ retained # n \/ client = "refused")

\* A drain ends, although a closer may never settle.
ShutdownEnds == proc = "draining" ~> proc = "down"

\* A process that ends with 0 leaves no point behind that waited in a buffer when the
\* drain began, or that it handled before it called influx.close(), unless a write failed
\* during the drain: it is stored, or in a request a timer sent, which nobody awaits.
ExitZeroLosesNothing ==
    [][proc = "draining" /\ proc' = "down" /\ exitCode' = 0 =>
          owed \subseteq stored \cup flight]_serviceVars
==============================================================================
