------------------------------ MODULE LiveProofs ------------------------------
(* Proofs about Service, AlertLifecycle and Realtime, which share nothing,   *)
(* for any bounds, closers, alerts, replicas, interval, slots and topics.    *)
EXTENDS MCLive, SumsProofs

-----------------------------------------------------------------------------
(* The process around the ingestion.                                       *)

\* Only a drain has closers to wait for.
OnlyDrainsWait == unsettled # {} => proc = "draining"

\* The write API is open until the drain begins.
OpenUntilDrained == api = "open" <=> proc # "draining"

\* What is owed is on its way to InfluxDB: anywhere while the flush lasts, then in the
\* request of close() or of a timer, at last in none that anybody awaits.
OwedIsKept ==
    /\ api = "open" => owed = {}
    /\ api = "flushing" => owed \subseteq stored \cup flight \cup awaited \cup buffer \cup retries
    /\ api = "closing" => owed \subseteq stored \cup flight \cup awaited
    /\ api = "closed" => owed \subseteq stored \cup flight

Inv == OnlyDrainsWait /\ OpenUntilDrained /\ OwedIsKept

LEMMA InitInv == ServiceInit => Inv
  BY DEF ServiceInit, IngestInit, WriteApiInit, Inv, OnlyDrainsWait, OpenUntilDrained, OwedIsKept

\* Requests, answered or not, take a point from one place to the next.
LEMMA WriteKeeps ==
    ASSUME OwedIsKept,
           Send \/ Retry \/ FlushLands \/ CloseLands \/ \E n \in flight : Land(n)
    PROVE  OwedIsKept' /\ (api' = "open" <=> api = "open")
  <1>1. CASE Send
    BY <1>1 DEF Send, OwedIsKept
  <1>2. CASE Retry
    BY <1>2 DEF Retry, OwedIsKept
  <1>3. CASE FlushLands
    BY <1>3 DEF FlushLands, Closing, OwedIsKept
  <1>4. CASE CloseLands
    BY <1>4 DEF CloseLands, Closed, OwedIsKept
  <1>5. CASE \E n \in flight : Land(n)
    BY <1>5 DEF Land, OwedIsKept
  <1> QED
    BY <1>1, <1>2, <1>3, <1>4, <1>5

LEMMA WriteInv ==
    ASSUME Inv, \/ Write /\ UNCHANGED process
                \/ WriteFails
    PROVE  Inv'
  <1>1. CASE Write /\ UNCHANGED process
    BY <1>1, WriteKeeps DEF Write, process, Inv, OnlyDrainsWait, OpenUntilDrained
  <1>2. CASE WriteFails
    <2>1. owed' = {} /\ (api' = "open" <=> api = "open")
      BY <1>2 DEF WriteFails, RequestFails, FlushFails, CloseFails, Closing, Closed
    <2> QED
      BY <1>2, <2>1 DEF WriteFails, process, Inv, OnlyDrainsWait, OpenUntilDrained, OwedIsKept
  <1> QED
    BY <1>1, <1>2

\* The stack around the process, which leaves the write API alone
LEMMA EnvironmentInv ==
    ASSUME Inv, Environment, UNCHANGED process
    PROVE  Inv'
  <1>1. UNCHANGED store
    BY DEF Environment, Publish, Pass, BrokerDown, BrokerUp, Disconnect, Connect, Subscribe,
           SubscribeRefused
  <1> QED
    BY <1>1 DEF store, process, Inv, OnlyDrainsWait, OpenUntilDrained, OwedIsKept

\* A flush begins with everything that waits in a buffer.
LEMMA DrainInv ==
    ASSUME ToDrain(buffer), UNCHANGED <<retries, flight, stored>>
    PROVE  Inv'
  BY DEF ToDrain, Flushing, Inv, OnlyDrainsWait, OpenUntilDrained, OwedIsKept

\* Outside of a drain
LEMMA ServingInv ==
    ASSUME Inv, Start \/ BootRefused \/ Boot \/ Signal
    PROVE  Inv'
  <1>1. CASE Signal
    BY <1>1, DrainInv DEF Signal
  <1>2. CASE Start \/ BootRefused \/ Boot
    BY <1>2 DEF Start, BootRefused, Boot, ingest, store, Inv, OnlyDrainsWait, OpenUntilDrained,
                OwedIsKept
  <1> QED
    BY <1>1, <1>2

\* A message is owed only where the flush still finds it.
LEMMA MessageInv ==
    ASSUME Inv, Handle \/ HandleLate
    PROVE  Inv'
  <1>1. CASE Handle
    <2>1. CASE ToDrain(buffer) /\ UNCHANGED <<retries, flight, stored>>
      BY <2>1, DrainInv
    <2>2. CASE Written(Points(Head(wire))) /\ UNCHANGED process
      BY <2>2 DEF Written, process, Inv, OnlyDrainsWait, OpenUntilDrained, OwedIsKept
    <2> QED
      BY <1>1, <2>1, <2>2 DEF Handle
  <1>2. CASE HandleLate
    BY <1>2 DEF HandleLate, process, store, Inv, OnlyDrainsWait, OpenUntilDrained, OwedIsKept
  <1> QED
    BY <1>1, <1>2

LEMMA SettleInv ==
    ASSUME Inv, SettleMqtt \/ SettleOther
    PROVE  Inv'
  <1> USE DEF Inv, OnlyDrainsWait, OpenUntilDrained, OwedIsKept
  <1>1. CASE SettleMqtt
    BY <1>1 DEF SettleMqtt, store
  <1>2. CASE SettleOther
    BY <1>2 DEF SettleOther, ingest, store
  <1> QED
    BY <1>1, <1>2

LEMMA EndInv ==
    ASSUME Inv, Exit \/ Deadline \/ Kill
    PROVE  Inv'
  BY DEF Exit, Deadline, Kill, Gone, Vanished, Inv, OnlyDrainsWait, OpenUntilDrained, OwedIsKept

LEMMA Inductive == Inv /\ [ServiceNext]_serviceVars => Inv'
  <1>1. Inv /\ UNCHANGED serviceVars => Inv'
    BY DEF serviceVars, ingest, store, process, Inv, OnlyDrainsWait, OpenUntilDrained, OwedIsKept
  <1> QED
    BY <1>1, EnvironmentInv, WriteInv, ServingInv, MessageInv, SettleInv, EndInv DEF ServiceNext

\* A process that ends with 0 leaves nothing behind of what waited in a buffer when the
\* drain began, or was handled before close(), unless a write failed meanwhile: flush(true)
\* of influx-writer.js empties the retry buffer before close() empties the other.
THEOREM ZeroLosesNothing == ServiceSpec => ExitZeroLosesNothing
  <1> DEFINE Ends == proc = "draining" /\ proc' = "down" /\ exitCode' = 0
  <1>1. Inv /\ [ServiceNext]_serviceVars => [Ends => owed \subseteq stored \cup flight]_serviceVars
    <2> SUFFICES ASSUME Inv, ServiceNext, Ends PROVE owed \subseteq stored \cup flight
      BY DEF serviceVars
    <2>1. CASE Exit
      BY <2>1 DEF Exit, Inv, OwedIsKept
    <2>2. CASE Deadline \/ Kill
      BY <2>2 DEF Deadline, Kill, Gone
    <2>3. CASE ((Environment \/ Write) /\ UNCHANGED process) \/ WriteFails
      BY <2>3 DEF WriteFails, process
    <2>4. CASE Start \/ BootRefused \/ Boot \/ Signal
      BY <2>4 DEF Start, BootRefused, Boot, Signal
    <2>5. CASE Handle \/ HandleLate
      BY <2>5 DEF Handle, HandleLate, ToDrain, process
    <2>6. CASE SettleMqtt \/ SettleOther
      BY <2>6 DEF SettleMqtt, SettleOther
    <2> QED
      BY <2>1, <2>2, <2>3, <2>4, <2>5, <2>6 DEF ServiceNext
  <1> QED
    BY <1>1, InitInv, Inductive, PTL DEF ServiceSpec, ExitZeroLosesNothing

-----------------------------------------------------------------------------
(* The status of a machine on its way to InfluxDB.                         *)

Messages == [status : Nat, sound : BOOLEAN]

IngestTypeOK ==
    /\ retained \in Nat /\ wire \in Seq(Messages)
    /\ client \in {"none", "connecting", "connected", "subscribed", "refused"}

\* Where the write API has the change n, or had it until it gave it up.
Kept(n) == n \in buffer \cup retries \cup flight \cup stored \cup dropped

\* The safety half of StatusCatchesUp: while a process that serves is subscribed, the
\* status the broker retains is on its way, in a buffer, in a request or stored, unless
\* the client gave up the batch it was in.
SubscribedHasStatus ==
    proc = "serving" /\ client = "subscribed" /\ retained # 0 =>
        (\E i \in DOMAIN wire : wire[i] = Status(retained)) \/ Kept(retained)

HasInv == Inv /\ IngestTypeOK /\ SubscribedHasStatus

LEMMA InitHas == ServiceInit => HasInv
  BY InitInv DEF HasInv, ServiceInit, IngestInit, IngestTypeOK, SubscribedHasStatus

LEMMA MessageType == /\ \A n \in Nat : Status(n) \in Messages
                      /\ \A message \in Others : message \in Messages
  <1>1. \A n \in Nat, sound \in BOOLEAN : [status |-> n, sound |-> sound] \in Messages
    BY DEF Messages
  <1>2. \A n \in Nat : Status(n) \in Messages
    BY <1>1 DEF Status
  <1>3. /\ [status |-> 0, sound |-> TRUE] \in Messages
        /\ [status |-> 0, sound |-> FALSE] \in Messages
    BY <1>1
  <1>4. \A message \in Others : message \in Messages
    BY <1>3, Zenon DEF Others
  <1> QED
    BY <1>2, <1>4

\* What the broker sends comes last, and leaves the rest where it was.
LEMMA SentLast ==
    ASSUME IngestTypeOK, NEW message \in Messages
    PROVE  /\ Sent(message) \in Seq(Messages)
           /\ \A i \in DOMAIN wire : i \in DOMAIN Sent(message) /\ Sent(message)[i] = wire[i]
           /\ client = "subscribed" =>
                  \E i \in DOMAIN Sent(message) : Sent(message)[i] = message
  <1>1. CASE client = "subscribed"
    <2>1. wire \in Seq(Messages) /\ Sent(message) = Append(wire, message)
      BY <1>1 DEF Sent, IngestTypeOK
    <2>2. Len(wire) + 1 \in DOMAIN Sent(message) /\ Sent(message)[Len(wire) + 1] = message
      BY <2>1
    <2> QED
      BY <2>1, <2>2
  <1>2. CASE client # "subscribed"
    BY <1>2 DEF Sent, IngestTypeOK
  <1> QED
    BY <1>1, <1>2

LEMMA BrokerHas ==
    ASSUME HasInv, Publish \/ Pass \/ BrokerDown \/ BrokerUp, UNCHANGED process
    PROVE  IngestTypeOK' /\ SubscribedHasStatus'
  <1> USE DEF HasInv, process, store, Kept
  <1>1. CASE Publish
    <2>1. retained' \in Nat /\ wire' = Sent(Status(retained'))
      BY <1>1 DEF Publish, IngestTypeOK
    <2>2. client' = client /\ UNCHANGED store
      BY <1>1 DEF Publish
    <2>3. Status(retained') \in Messages
      BY <2>1, MessageType
    <2>4. /\ wire' \in Seq(Messages)
          /\ client = "subscribed" => \E i \in DOMAIN wire' : wire'[i] = Status(retained')
      BY <2>1, <2>3, SentLast
    <2> QED
      BY <2>1, <2>2, <2>4 DEF IngestTypeOK, SubscribedHasStatus, Status
  <1>2. CASE Pass
    <2>1. UNCHANGED <<retained, client>> /\ UNCHANGED store
      BY <1>2 DEF Pass, plant
    <2>2. PICK message \in Others \cup {Status(n) : n \in 1 .. retained} : wire' = Sent(message)
      BY <1>2 DEF Pass
    <2>3. message \in Messages
      <3>1. CASE message \in Others
        BY <3>1, MessageType
      <3>2. CASE message \in {Status(n) : n \in 1 .. retained}
        BY <3>2, MessageType DEF IngestTypeOK
      <3> QED
        BY <2>2, <3>1, <3>2
    <2>4. /\ wire' \in Seq(Messages)
          /\ \A i \in DOMAIN wire : i \in DOMAIN wire' /\ wire'[i] = wire[i]
      BY <2>2, <2>3, SentLast
    <2> QED
      BY <2>1, <2>4 DEF IngestTypeOK, SubscribedHasStatus, Status
  <1>3. CASE BrokerDown
    BY <1>3 DEF BrokerDown, Lost, IngestTypeOK, SubscribedHasStatus
  <1>4. CASE BrokerUp
    BY <1>4 DEF BrokerUp, IngestTypeOK, SubscribedHasStatus, Status
  <1> QED
    BY <1>1, <1>2, <1>3, <1>4

LEMMA ClientHas ==
    ASSUME HasInv, Disconnect \/ Connect \/ Subscribe \/ SubscribeRefused, UNCHANGED process
    PROVE  IngestTypeOK' /\ SubscribedHasStatus'
  <1> USE DEF HasInv, process, store, Kept
  <1>1. CASE Disconnect
    BY <1>1 DEF Disconnect, plant, IngestTypeOK, SubscribedHasStatus
  <1>2. CASE Connect \/ SubscribeRefused
    BY <1>2 DEF Connect, SubscribeRefused, plant, IngestTypeOK, SubscribedHasStatus
  <1>3. CASE Subscribe
    <2>1. retained' = retained /\ retained \in Nat /\ client' = "subscribed"
      BY <1>3 DEF Subscribe, plant, IngestTypeOK
    <2>2. CASE retained = 0
      BY <1>3, <2>1, <2>2 DEF Subscribe, IngestTypeOK, SubscribedHasStatus
    <2>3. CASE retained # 0
      <3>1. wire' = <<Status(retained)>> /\ Status(retained) \in Messages
        BY <1>3, <2>1, <2>3, MessageType DEF Subscribe
      <3>2. wire' \in Seq(Messages) /\ 1 \in DOMAIN wire' /\ wire'[1] = Status(retained)
        BY <3>1
      <3> QED
        BY <2>1, <3>2 DEF IngestTypeOK, SubscribedHasStatus, Status
    <2> QED
      BY <2>2, <2>3
  <1> QED
    BY <1>1, <1>2, <1>3

\* What the write API of a process that serves has, it keeps or gives up.
LEMMA StoreHas ==
    ASSUME HasInv, \/ Write /\ UNCHANGED process
                   \/ WriteFails
    PROVE  IngestTypeOK' /\ SubscribedHasStatus'
  <1>1. UNCHANGED <<plant, client, wire, process>>
    BY DEF Write, WriteFails
  <1>2. ASSUME proc = "serving", NEW n, Kept(n)
        PROVE  Kept(n)'
    <2>1. api = "open"
      BY <1>2 DEF HasInv, Inv, OpenUntilDrained
    <2>2. CASE Write
      BY <1>2, <2>1, <2>2 DEF Write, Send, Retry, Land, FlushLands, CloseLands, Closed, Kept
    <2>3. CASE WriteFails
      BY <1>2, <2>1, <2>3 DEF WriteFails, RequestFails, Requeued, FlushFails, CloseFails, Closed, Kept
    <2> QED
      BY <2>2, <2>3
  <1> QED
    BY <1>1, <1>2 DEF HasInv, plant, process, IngestTypeOK, SubscribedHasStatus, Status

\* A message that carries the status puts it into the buffer.
LEMMA MessageHas ==
    ASSUME HasInv, Handle
    PROVE  IngestTypeOK' /\ SubscribedHasStatus'
  <1> USE DEF HasInv
  <1>0. CASE proc' # "serving"
    <2>1. /\ wire \in Seq(Messages) /\ wire # <<>> /\ wire' = Tail(wire)
          /\ UNCHANGED <<retained, client>>
      BY DEF Handle, Receive, plant, IngestTypeOK
    <2>2. wire' \in Seq(Messages)
      BY <2>1
    <2> QED
      BY <1>0, <2>1, <2>2 DEF IngestTypeOK, SubscribedHasStatus
  <1> SUFFICES ASSUME proc' = "serving"
               PROVE  IngestTypeOK' /\ SubscribedHasStatus'
    BY <1>0
  <1>1. /\ wire \in Seq(Messages) /\ wire # <<>> /\ wire' = Tail(wire)
        /\ Written(Points(Head(wire)))
        /\ UNCHANGED <<retained, client>>
    BY DEF Handle, Receive, ToDrain, plant, IngestTypeOK
  <1>2. wire' \in Seq(Messages)
    BY <1>1
  <1>3. /\ proc = "serving"
        /\ buffer' = buffer \cup Points(Head(wire)) /\ dropped' = dropped \ Points(Head(wire))
        /\ UNCHANGED <<retries, flight, stored>>
    BY <1>1 DEF Handle, ToDrain, process, Written
  <1>4. ASSUME NEW i \in DOMAIN wire, wire[i] = Status(retained), retained # 0
        PROVE  \/ \E j \in DOMAIN wire' : wire'[j] = Status(retained)
               \/ retained \in buffer'
    <2>1. CASE i = 1
      <3>1. Head(wire) = Status(retained)
        BY <1>1, <1>4, <2>1
      <3> QED
        BY <1>3, <1>4, <3>1 DEF Points, Status, IngestTypeOK
    <2>2. CASE i # 1
      <3>1. i - 1 \in DOMAIN wire' /\ wire'[i - 1] = wire[i]
        BY <1>1, <1>4, <2>2
      <3> QED
        BY <1>4, <3>1
    <2> QED
      BY <2>1, <2>2
  <1> QED
    BY <1>1, <1>2, <1>3, <1>4 DEF IngestTypeOK, SubscribedHasStatus, Status, Kept

\* The process, which loses its connection and its buffer when it ends
LEMMA ProcessHas ==
    ASSUME HasInv, \/ Start \/ BootRefused \/ Boot \/ Signal \/ HandleLate
                   \/ SettleMqtt \/ SettleOther
                   \/ Exit \/ Deadline \/ Kill
    PROVE  IngestTypeOK' /\ SubscribedHasStatus'
  <1>0. <<>> \in Seq(Messages)
    OBVIOUS
  <1> USE DEF HasInv, IngestTypeOK, SubscribedHasStatus, Kept
  <1>1. CASE Start \/ BootRefused
    BY <1>1 DEF Start, BootRefused, ingest, plant, store, Status
  <1>2. CASE Boot \/ Signal
    BY <1>2 DEF Boot, Signal, ToDrain, ingest, plant, store
  <1>3. CASE HandleLate
    <2>1. proc = "draining" /\ UNCHANGED <<proc, retained, client>>
      BY <1>3 DEF HandleLate, process, plant, Inv, OpenUntilDrained
    <2>2. wire \in Seq(Messages) /\ wire # <<>> /\ wire' = Tail(wire)
      BY <1>3 DEF HandleLate
    <2>3. wire' \in Seq(Messages)
      BY <2>2
    <2> QED
      BY <2>1, <2>3
  <1>4. CASE SettleMqtt \/ SettleOther
    <2>1. proc = "draining" /\ proc' = proc
      BY <1>4 DEF Inv, OnlyDrainsWait, SettleMqtt, SettleOther
    <2>2. CASE SettleMqtt
      BY <1>0, <2>1, <2>2 DEF SettleMqtt, plant
    <2>3. CASE SettleOther
      BY <2>1, <2>3 DEF SettleOther, ingest, plant
    <2> QED
      BY <1>4, <2>2, <2>3
  <1>5. CASE Exit \/ Deadline \/ Kill
    <2>1. /\ proc' = "down" /\ client' = "none" /\ wire' = <<>>
          /\ retained' = retained
      BY <1>5 DEF Exit, Deadline, Kill, Gone, plant
    <2> QED
      BY <1>0, <2>1
  <1> QED
    BY <1>1, <1>2, <1>3, <1>4, <1>5

\* Between the broker and InfluxDB the status of a machine is never lost by a process
\* that serves and is subscribed (mqtt-handler.js, influx-writer.js), but where the client
\* of InfluxDB gives up a batch: the subscription of each connection asks for it, messages
\* pass in order, and a request that fails is tried again.
THEOREM StatusIsKept == ServiceSpec => []SubscribedHasStatus
  <1>1. HasInv /\ UNCHANGED serviceVars => (IngestTypeOK /\ SubscribedHasStatus)'
    BY DEF serviceVars, ingest, plant, store, process, HasInv, IngestTypeOK, SubscribedHasStatus, Status,
           Kept
  <1>2. HasInv /\ [ServiceNext]_serviceVars => HasInv'
    <2> SUFFICES ASSUME HasInv, [ServiceNext]_serviceVars PROVE (IngestTypeOK /\ SubscribedHasStatus)'
      BY Inductive DEF HasInv
    <2>1. CASE Environment /\ UNCHANGED process
      BY <2>1, BrokerHas, ClientHas DEF Environment, process
    <2> QED
      BY <1>1, <2>1, StoreHas, MessageHas, ProcessHas DEF ServiceNext
  <1>3. HasInv => SubscribedHasStatus
    BY DEF HasInv
  <1> QED
    BY <1>2, <1>3, InitHas, PTL DEF ServiceSpec

-----------------------------------------------------------------------------
(* The rows of the alerts.                                                 *)

USE LoopAssumption

\* Ages stop at Never.
Ages == 0 .. Never

LEMMA Older ==
    ASSUME NEW t \in Ages
    PROVE  Min({Never, t + 1}) = IF t = Never THEN Never ELSE t + 1
  BY MinOfTwo DEF Ages, Never

LEMMA NextTier ==
    ASSUME NEW tier \in 0 .. 2
    PROVE  Min({2, tier + 1}) = IF tier = 2 THEN 2 ELSE tier + 1
  BY MinOfTwo

AlertsTypeOK ==
    /\ rule \in BOOLEAN
    /\ status \in [Alerts -> {"new", "publishing", "open", "acknowledged", "resolved", "gone"}]
    /\ severity \in [Alerts -> 0 .. 2]
    /\ age \in [Alerts -> Ages] /\ escalated \in [Alerts -> Ages]
    /\ timer \in [Engines -> -1 .. Interval]
    /\ passing \subseteq Engines
    /\ stops \in Nat

\* An alarm that is no row, or not yet, has no severity ...
RowlessIsMild ==
    \A a \in Alerts : status[a] \in {"new", "publishing", "gone"} => severity[a] = 0

\* ... and the first tier is younger than the alert.
EscalatedAfterFired == \A a \in Alerts : severity[a] = 1 => escalated[a] <= age[a]

AlertsInv == AlertsTypeOK /\ RowlessIsMild /\ EscalatedAfterFired /\ TwoTiersTakeAnInterval

LEMMA AlertsInitInv == AlertsInit => AlertsInv
  BY DEF AlertsInit, AlertsInv, AlertsTypeOK, RowlessIsMild, EscalatedAfterFired, TwoTiersTakeAnInterval,
         Ages, Never

-----------------------------------------------------------------------------

\* fireAlert(), the operators and the deletion of the rule
LEMMA RowInv ==
    ASSUME AlertsInv, NEW a \in Alerts,
           fireAlert(a) \/ Store(a) \/ StoreFail(a) \/ acknowledge(a) \/ resolve(a)
    PROVE  AlertsInv'
  <1> USE DEF AlertsInv, AlertsTypeOK, RowlessIsMild, EscalatedAfterFired, TwoTiersTakeAnInterval, loop
  <1>1. CASE fireAlert(a)
    BY <1>1 DEF fireAlert
  <1>2. CASE Store(a)
    <2>1. severity[a] = 0
      BY <1>2 DEF Store
    <2> QED
      BY <1>2, <2>1 DEF Store, Ages, Never
  <1>3. CASE StoreFail(a)
    BY <1>3 DEF StoreFail
  <1>4. CASE acknowledge(a)
    BY <1>4 DEF acknowledge
  <1>5. CASE resolve(a)
    BY <1>5 DEF resolve
  <1> QED
    BY <1>1, <1>2, <1>3, <1>4, <1>5

LEMMA DeleteInv ==
    ASSUME AlertsInv, deleteRule
    PROVE  AlertsInv'
  <1>1. severity' = [a \in Alerts |-> 0] /\ UNCHANGED <<age, escalated, loop>>
    BY DEF deleteRule
  <1>2. status' \in [Alerts -> {"new", "publishing", "open", "acknowledged", "resolved", "gone"}]
    BY DEF AlertsInv, AlertsTypeOK, deleteRule
  <1>3. rule' \in BOOLEAN
    BY DEF deleteRule
  <1>4. severity' \in [Alerts -> 0 .. 2]
    BY <1>1
  <1>5. AlertsTypeOK'
    BY <1>1, <1>2, <1>3, <1>4 DEF AlertsInv, AlertsTypeOK, loop
  <1> QED
    BY <1>1, <1>5 DEF AlertsInv, RowlessIsMild, EscalatedAfterFired, TwoTiersTakeAnInterval

\* The UPDATE: a row that is due was escalated, if it was, more than an interval ago.
LEMMA EscalateInv ==
    ASSUME AlertsInv, NEW e \in Engines, Escalate(e)
    PROVE  AlertsInv'
  <1>1. \A a \in Alerts : /\ severity'[a] = IF a \in Due /\ severity[a] < 2 THEN severity[a] + 1
                                            ELSE severity[a]
                          /\ escalated'[a] = IF a \in Due THEN 0 ELSE escalated[a]
    BY NextTier DEF AlertsInv, AlertsTypeOK, Escalate
  <1>2. severity' \in [Alerts -> 0 .. 2] /\ escalated' \in [Alerts -> Ages]
    <2>1. \A tier \in 0 .. 2 : Min({2, tier + 1}) \in 0 .. 2
      BY NextTier
    <2> QED
      BY <2>1 DEF AlertsInv, AlertsTypeOK, Escalate, Ages, Never
  <1>3. AlertsTypeOK'
    BY <1>2 DEF AlertsInv, AlertsTypeOK, Escalate
  <1>4. RowlessIsMild'
    BY <1>1 DEF AlertsInv, RowlessIsMild, Escalate, Due
  <1>5. EscalatedAfterFired'
    BY <1>1 DEF AlertsInv, AlertsTypeOK, EscalatedAfterFired, Escalate, Ages, Never
  <1>6. TwoTiersTakeAnInterval'
    BY <1>1 DEF AlertsInv, AlertsTypeOK, EscalatedAfterFired, TwoTiersTakeAnInterval, Escalate, Due, Ages, Never
  <1> QED
    BY <1>3, <1>4, <1>5, <1>6 DEF AlertsInv

LEMMA LoopInv ==
    ASSUME AlertsInv, NEW e \in Engines, TimerFires(e) \/ EscalateFail(e) \/ stop(e) \/ start(e)
    PROVE  AlertsInv'
  BY DEF TimerFires, EscalateFail, stop, start, AlertsInv, AlertsTypeOK, RowlessIsMild,
         EscalatedAfterFired, TwoTiersTakeAnInterval, row

LEMMA TickInv ==
    ASSUME AlertsInv, Tick
    PROVE  AlertsInv'
  <1>1. \A a \in Alerts : /\ age'[a] = IF age[a] = Never THEN Never ELSE age[a] + 1
                          /\ escalated'[a] = IF escalated[a] = Never THEN Never ELSE escalated[a] + 1
    BY Older DEF AlertsInv, AlertsTypeOK, Tick
  <1>2. age' \in [Alerts -> Ages] /\ escalated' \in [Alerts -> Ages]
    <2>1. \A t \in Ages : Min({Never, t + 1}) \in Ages
      BY Older DEF Ages, Never
    <2> QED
      BY <2>1 DEF AlertsInv, AlertsTypeOK, Tick
  <1>3. AlertsTypeOK'
    BY <1>2 DEF AlertsInv, AlertsTypeOK, Tick
  <1>4. (RowlessIsMild /\ EscalatedAfterFired)'
    BY <1>1 DEF AlertsInv, AlertsTypeOK, RowlessIsMild, EscalatedAfterFired, Tick, Ages, Never
  <1>5. TwoTiersTakeAnInterval'
    <2>1. \A a \in Alerts : age[a] > Interval => age'[a] > Interval
      BY <1>1 DEF AlertsInv, AlertsTypeOK, Ages, Never
    <2> QED
      BY <2>1 DEF AlertsInv, TwoTiersTakeAnInterval, Tick
  <1> QED
    BY <1>3, <1>4, <1>5 DEF AlertsInv

LEMMA AlertsStutterInv ==
    ASSUME AlertsInv, UNCHANGED alertsVars
    PROVE  AlertsInv'
  BY DEF alertsVars, row, loop, AlertsInv, AlertsTypeOK, RowlessIsMild, EscalatedAfterFired,
         TwoTiersTakeAnInterval

LEMMA AlertsInductive == AlertsSpec => []AlertsInv
  <1>1. AlertsInv /\ [AlertsNext]_alertsVars => AlertsInv'
    BY RowInv, DeleteInv, EscalateInv, LoopInv, TickInv, AlertsStutterInv DEF AlertsNext
  <1> QED
    BY <1>1, AlertsInitInv, PTL DEF AlertsSpec

\* An alert that fired as a warning is critical only after an interval, however many
\* replicas run the escalation of alert-engine.js over the same rows.
THEOREM TwoTiers == AlertsSpec => []TwoTiersTakeAnInterval
  <1>1. AlertsInv => TwoTiersTakeAnInterval
    BY DEF AlertsInv
  <1> QED
    BY <1>1, AlertsInductive, PTL

-----------------------------------------------------------------------------
(* The rows are tickets.                                                   *)

\* The status a ticket shows
Shown == [a \in Alerts |-> IF status[a] \in {"new", "publishing", "gone"} THEN "absent"
                           ELSE status[a]]

LEMMA InitTicket == AlertsInit => Ticket!Init
  BY DEF AlertsInit, Ticket!Init

LEMMA RowTicket ==
    ASSUME AlertsInv, NEW a \in Alerts,
           fireAlert(a) \/ Store(a) \/ StoreFail(a) \/ acknowledge(a) \/ resolve(a)
    PROVE  Ticket!Next \/ UNCHANGED <<Shown, severity>>
  <1> USE DEF AlertsInv, AlertsTypeOK
  <1>1. CASE fireAlert(a) \/ StoreFail(a)
    BY <1>1 DEF fireAlert, StoreFail, Shown
  <1>2. CASE Store(a)
    <2>1. severity[a] = 0 /\ severity' = severity
      BY <1>2 DEF Store, RowlessIsMild
    <2>2. severity' = [severity EXCEPT ![a] = 0]
      BY <2>1
    <2>3. Shown[a] = "absent" /\ Shown' = [Shown EXCEPT ![a] = "open"]
      BY <1>2 DEF Store, Shown
    <2>4. Ticket!Open(a)
      BY <2>2, <2>3 DEF Ticket!Open, Shown
    <2> QED
      BY <2>4 DEF Ticket!Next
  <1>3. CASE acknowledge(a) \/ resolve(a)
    <2>1. PICK next \in {"acknowledged", "resolved"} :
             /\ status[a] \in {"open", "acknowledged"} /\ (next = "acknowledged" => status[a] = "open")
             /\ status' = [status EXCEPT ![a] = next]
             /\ severity' = severity
      BY <1>3 DEF acknowledge, resolve
    <2>2. Shown[a] = status[a] /\ Shown' = [Shown EXCEPT ![a] = next]
      BY <2>1 DEF Shown
    <2>3. Ticket!Advance(a)
      BY <2>1, <2>2 DEF Ticket!Advance, Shown
    <2> QED
      BY <2>3 DEF Ticket!Next
  <1> QED
    BY <1>1, <1>2, <1>3

LEMMA DeleteTicket ==
    ASSUME AlertsInv, deleteRule
    PROVE  Ticket!Next
  BY DEF deleteRule, Ticket!Next, Ticket!Withdraw

LEMMA EscalateTicket ==
    ASSUME AlertsInv, NEW e \in Engines, Escalate(e)
    PROVE  Ticket!Next
  <1> DEFINE risen == {a \in Due : severity[a] < 2}
  <1>1. risen \in SUBSET {a \in Alerts : Shown[a] = "open" /\ severity[a] < 2}
    BY DEF Due, Shown
  <1>2. severity' = [a \in Alerts |-> IF a \in risen THEN severity[a] + 1 ELSE severity[a]]
    <2>1. \A a \in Alerts : (IF a \in Due THEN Min({2, severity[a] + 1}) ELSE severity[a])
                            = IF a \in risen THEN severity[a] + 1 ELSE severity[a]
      <3> SUFFICES ASSUME NEW a \in Alerts
                   PROVE  (IF a \in Due THEN Min({2, severity[a] + 1}) ELSE severity[a])
                              = IF a \in risen THEN severity[a] + 1 ELSE severity[a]
        OBVIOUS
      <3>1. severity[a] \in 0 .. 2
        BY DEF AlertsInv, AlertsTypeOK
      <3>2. Min({2, severity[a] + 1}) = IF severity[a] = 2 THEN 2 ELSE severity[a] + 1
        BY <3>1, NextTier
      <3> QED
        BY <3>1, <3>2
    <2> QED
      BY <2>1 DEF Escalate
  <1>3. Shown' = Shown
    BY DEF Escalate, Shown
  <1>4. Ticket!Escalate
    BY <1>1, <1>2, <1>3 DEF Ticket!Escalate, Shown
  <1> QED
    BY <1>4 DEF Ticket!Next

LEMMA RestTicket ==
    ASSUME AlertsInv,
           \/ \E e \in Engines : TimerFires(e) \/ EscalateFail(e) \/ stop(e) \/ start(e)
           \/ Tick \/ UNCHANGED alertsVars
    PROVE  UNCHANGED <<Shown, severity>>
  BY DEF TimerFires, EscalateFail, stop, start, Tick, alertsVars, row, loop, Shown

\* The escalation of every replica, the operators of routes/alerts.js and the deletion of
\* the rule leave the rows what AlertTicket says an alert is.
THEOREM Refinement == AlertsSpec => ImplementsTicket
  <1>1. AlertsInv /\ [AlertsNext]_alertsVars => [Ticket!Next]_<<Shown, severity>>
    BY RowTicket, DeleteTicket, EscalateTicket, RestTicket DEF AlertsNext
  <1> QED
    BY <1>1, InitTicket, AlertsInductive, PTL DEF AlertsSpec, ImplementsTicket, Ticket!Spec, Shown
-----------------------------------------------------------------------------
(* The live feed of one page.                                              *)

RealtimeTypeOK ==
    /\ mounted \in BOOLEAN /\ due \in BOOLEAN /\ topics \in Topics
    /\ socket \in Slots \cup {None}
    /\ end \in [Slots -> {"none", "connecting", "open", "closing", "closed"}]
    /\ clients \subseteq Slots
    /\ patterns \in [Slots -> Topics \cup {"all"}]
    /\ frame \in [Slots -> Topics \cup {"none"}]

\* A mounted page has a connection, or is about to connect, and never both; one that is
\* not mounted has neither.
HookNeverGivesUp ==
    /\ mounted <=> (due \/ socket # None)
    /\ ~(due /\ socket # None)

\* The open connection of a page serves the topics it asks for, or will when the frame on
\* its way arrives.
OpenAsks ==
    socket # None /\ socket \in clients /\ end[socket] = "open" =>
        topics = IF frame[socket] = "none" THEN patterns[socket] ELSE frame[socket]

\* The connection of the effect is not closing, those of cancelled effects are on their
\* way out, ...
SocketIsOfEffect ==
    /\ socket # None => end[socket] \in {"connecting", "open", "closed"}
    /\ \A s \in Slots : s # socket => end[s] \in {"none", "closing", "closed"}

\* ... and only the server can hold a connection that is open, and a frame of one.
OpenOfClient ==
    \A s \in Slots :
        /\ end[s] = "open" => s \in clients
        /\ frame[s] # "none" => s \in clients /\ end[s] \in {"open", "closing"}

RealtimeInv == /\ RealtimeTypeOK /\ HookNeverGivesUp /\ OpenAsks
               /\ SocketIsOfEffect /\ OpenOfClient

LEMMA InitRealtime == Realtime!Init => RealtimeInv
  BY DEF Realtime!Init, RealtimeInv, RealtimeTypeOK, HookNeverGivesUp, OpenAsks,
         SocketIsOfEffect, OpenOfClient

\* A connection opens.
LEMMA OpenRealtime ==
    ASSUME RealtimeInv, NEW s \in Slots,
           \/ Realtime!Connect(s) \/ Realtime!Upgrade(s) \/ Realtime!Refuse(s)
           \/ Realtime!onopen(s) \/ Realtime!Subscribe(s)
    PROVE  RealtimeInv'
  <1> USE RealtimeAssumption DEF RealtimeInv, RealtimeTypeOK, HookNeverGivesUp, OpenAsks,
          SocketIsOfEffect, OpenOfClient, Realtime!hook, Realtime!server, Realtime!net
  <1>1. CASE Realtime!Connect(s)
    <2>1. /\ socket = None /\ socket' = s /\ due' = FALSE /\ mounted = TRUE
          /\ end[s] = "none" /\ end' = [end EXCEPT ![s] = "connecting"]
          /\ UNCHANGED <<mounted, topics, clients, patterns, frame>>
      BY <1>1 DEF Realtime!Connect
    <2>2. (RealtimeTypeOK /\ HookNeverGivesUp)'
      BY <2>1
    <2>3. (OpenAsks /\ SocketIsOfEffect /\ OpenOfClient)'
      BY <2>1
    <2> QED
      BY <2>2, <2>3
  <1>2. CASE Realtime!Upgrade(s)
    BY <1>2 DEF Realtime!Upgrade
  <1>3. CASE Realtime!Refuse(s)
    BY <1>3 DEF Realtime!Refuse
  <1>4. CASE Realtime!onopen(s)
    BY <1>4 DEF Realtime!onopen
  <1>5. CASE Realtime!Subscribe(s)
    BY <1>5 DEF Realtime!Subscribe
  <1> QED
    BY <1>1, <1>2, <1>3, <1>4, <1>5

\* The server lets connections go: their clients learn of it.
LEMMA DroppedRealtime ==
    ASSUME RealtimeInv, NEW lost \in SUBSET clients, Realtime!Dropped(lost),
           UNCHANGED <<Realtime!hook, patterns>>
    PROVE  RealtimeInv'
  BY RealtimeAssumption DEF RealtimeInv, RealtimeTypeOK, HookNeverGivesUp, OpenAsks,
     SocketIsOfEffect, OpenOfClient, Realtime!hook, Realtime!Dropped

\* A connection ends, or is watched.
LEMMA CloseRealtime ==
    ASSUME RealtimeInv, NEW s \in Slots,
           \/ Realtime!Pong(s) \/ Realtime!Vanish(s) \/ Realtime!onclose(s)
           \/ Realtime!Closed(s)
    PROVE  RealtimeInv'
  <1> USE RealtimeAssumption DEF RealtimeInv, RealtimeTypeOK, HookNeverGivesUp, OpenAsks,
          SocketIsOfEffect, OpenOfClient, Realtime!hook, Realtime!server, Realtime!net
  <1>1. CASE Realtime!Pong(s) \/ Realtime!Vanish(s)
    BY <1>1 DEF Realtime!Pong, Realtime!Vanish
  <1>2. CASE Realtime!onclose(s)
    BY <1>2 DEF Realtime!onclose
  <1>3. CASE Realtime!Closed(s)
    BY <1>3 DEF Realtime!Closed
  <1> QED
    BY <1>1, <1>2, <1>3

\* The page asks for other topics, goes or comes.
LEMMA PageRealtime ==
    ASSUME RealtimeInv, Realtime!Retopic \/ Realtime!Unmount \/ Realtime!Mount
    PROVE  RealtimeInv'
  <1> USE RealtimeAssumption DEF RealtimeInv, RealtimeTypeOK, HookNeverGivesUp, OpenAsks,
          SocketIsOfEffect, OpenOfClient, Realtime!hook, Realtime!server, Realtime!net
  <1>1. CASE Realtime!Retopic
    BY <1>1 DEF Realtime!Retopic, Realtime!Cleanup
  <1>2. CASE Realtime!Unmount
    BY <1>2 DEF Realtime!Unmount, Realtime!Cleanup
  <1>3. CASE Realtime!Mount
    BY <1>3 DEF Realtime!Mount
  <1> QED
    BY <1>1, <1>2, <1>3

LEMMA RealtimeInductive == Realtime!Spec => []RealtimeInv
  <1>1. RealtimeInv /\ UNCHANGED Realtime!vars => RealtimeInv'
    BY DEF Realtime!vars, Realtime!hook, Realtime!server, Realtime!net, RealtimeInv,
           RealtimeTypeOK, HookNeverGivesUp, OpenAsks, SocketIsOfEffect, OpenOfClient
  <1>2. RealtimeInv /\ (Realtime!ServerClose \/ Realtime!Heartbeat) => RealtimeInv'
    <2> SUFFICES ASSUME RealtimeInv, Realtime!ServerClose \/ Realtime!Heartbeat
                 PROVE  RealtimeInv'
      OBVIOUS
    <2>1. PICK lost \in SUBSET clients :
              Realtime!Dropped(lost) /\ UNCHANGED <<Realtime!hook, patterns>>
      BY DEF Realtime!ServerClose, Realtime!Heartbeat
    <2> QED
      BY <2>1, DroppedRealtime
  <1>3. RealtimeInv /\ [Realtime!Next]_(Realtime!vars) => RealtimeInv'
    BY <1>1, <1>2, OpenRealtime, CloseRealtime, PageRealtime DEF Realtime!Next
  <1> QED
    BY <1>3, InitRealtime, PTL DEF Realtime!Spec

\* useRealtime.ts never gives up and never connects twice: whatever closes or is refused,
\* and however the page changes meanwhile, a mounted page has one connection or is about
\* to make one.
THEOREM HookGoesOn == Realtime!Spec => []HookNeverGivesUp
  <1>1. RealtimeInv => HookNeverGivesUp
    BY DEF RealtimeInv
  <1> QED
    BY <1>1, RealtimeInductive, PTL

\* The safety half of FollowsTopics: no frame of an effect that was cancelled, and no
\* subscription of a connection before, decides what an open page gets.
THEOREM OpenPageIsServed == Realtime!Spec => []OpenAsks
  <1>1. RealtimeInv => OpenAsks
    BY DEF RealtimeInv
  <1> QED
    BY <1>1, RealtimeInductive, PTL
===============================================================================
