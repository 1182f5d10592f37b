------------------------------- MODULE Ingest -------------------------------
(***************************************************************************)
(* What becomes of the messages of the plant: the broker, the MQTT client  *)
(* of the backend (services/mqtt-handler.js) and the points it makes of    *)
(* them.                                                                   *)
(*                                                                         *)
(* A machine publishes each change of status with QoS 1 and retained; the  *)
(* changes are numbered, and stand for their points, which InfluxDB orders *)
(* by the time they carry.  The session is clean: what a client misses is  *)
(* gone, but for the retained status its next subscription is answered     *)
(* with.  The other messages are known by what the handler makes of them.  *)
(***************************************************************************)
EXTENDS WriteApi, Sequences

CONSTANTS Changes,    \* bound of the model: changes of status
          WireBound   \* bound of the model: messages on their way to the backend

VARIABLES broker,    \* whether Mosquitto is up
          retained,  \* the last change it got, 0 before the first
          client,    \* none, connecting, connected, subscribed or refused
          wire       \* the messages on their way

plant == <<broker, retained>>
ingest == <<plant, client, wire, store>>

IngestInit ==
    /\ broker = TRUE /\ retained = 0
    /\ client = "none" /\ wire = <<>>
    /\ WriteApiInit

Status(n) == [status |-> n, sound |-> TRUE]

\* Everything else carries no change: telemetry, alarms, counters, what is no JSON - and
\* telemetry with a value that is no number.
Others == {[status |-> 0, sound |-> TRUE], [status |-> 0, sound |-> FALSE]}

connected == client \in {"connected", "subscribed", "refused"}

\* The broker, to a client whose subscription it granted
Sent(message) == IF client = "subscribed" THEN Append(wire, message) ELSE wire

Publish ==
    /\ broker /\ retained < Changes /\ Len(wire) < WireBound
    /\ retained' = retained + 1
    /\ wire' = Sent(Status(retained'))
    /\ UNCHANGED <<broker, client, store>>

\* Anything else, and a change again: QoS 1 delivers at least once.
Pass ==
    /\ broker /\ client = "subscribed" /\ Len(wire) < WireBound
    /\ \E message \in Others \cup {Status(n) : n \in 1 .. retained} : wire' = Sent(message)
    /\ UNCHANGED <<plant, client, store>>

\* The connection is lost, and what was on it.
Lost == (IF client = "none" THEN "none" ELSE "connecting")

\* Mosquitto saves its retained messages from time to time: a crash goes back.
BrokerDown ==
    /\ broker
    /\ broker' = FALSE
    /\ retained' \in {retained, retained - 1} \ {-1}
    /\ client' = Lost /\ wire' = <<>>
    /\ UNCHANGED store

BrokerUp ==
    /\ ~broker
    /\ broker' = TRUE
    /\ UNCHANGED <<retained, client, wire, store>>

\* 'offline', 'close': the client tries again every reconnectPeriod.
Disconnect ==
    /\ connected
    /\ client' = "connecting" /\ wire' = <<>>
    /\ UNCHANGED <<plant, store>>

\* 'connect'
Connect ==
    /\ client = "connecting" /\ broker
    /\ client' = "connected"
    /\ UNCHANGED <<plant, wire, store>>

\* Variant: the retained messages are not asked for.
SubscribeSilently ==
    /\ client = "connected"
    /\ client' = "subscribed"
    /\ UNCHANGED <<plant, wire, store>>

\* The subscription of every connection: the retained status comes first.
Subscribe ==
    /\ client = "connected"
    /\ client' = "subscribed"
    /\ wire' = IF retained = 0 THEN <<>> ELSE <<Status(retained)>>
    /\ UNCHANGED <<plant, store>>

\* A refusal is logged; the client stays connected, and nothing asks again.
SubscribeRefused ==
    /\ client = "connected"
    /\ client' = "refused"
    /\ UNCHANGED <<plant, wire, store>>

\* handleTelemetry, handleStatus, handleAlarm: the changes a message has points of
Points(message) == {message.status} \ {0}

\* floatField() throws, out of the listener and of the client: the samples after it and
\* the other listeners never see the message.
Throws(message) == ~message.sound

\* 'message', with a write API that is not closed
Receive ==
    /\ client = "subscribed" /\ wire # <<>> /\ api # "closed"
    /\ wire' = Tail(wire)
    /\ UNCHANGED <<plant, client>>
=============================================================================
