------------------------------- MODULE WriteApi -------------------------------
(***************************************************************************)
(* The write API of @influxdata/influxdb-client, as influx-writer.js       *)
(* configures and uses it.  A point waits in the write buffer, travels in  *)
(* a request, and is stored or waits in the retry buffer; nobody awaits    *)
(* the requests of the timers, flush() and close() await theirs.  A batch  *)
(* is followed point by point, and a point is the change it tells of.      *)
(***************************************************************************)
EXTENDS Integers

VARIABLES api,      \* open, flushing, closing or closed
          buffer,   \* the write buffer
          retries,  \* the retry buffer
          flight,   \* in requests nobody awaits
          awaited,  \* in the request flush() or close() awaits
          stored,   \* in InfluxDB
          dropped,  \* history: given up by an API that is open, and not written again
          owed      \* history: in a buffer when flush() was called, or written before close()
                    \* was, and no write has failed since

store == <<api, buffer, retries, flight, awaited, stored, dropped, owed>>

WriteApiInit ==
    /\ api = "open"
    /\ buffer = {} /\ retries = {} /\ flight = {} /\ awaited = {}
    /\ stored = {} /\ dropped = {} /\ owed = {}

\* writePoint(), of an API that is not closed
Written(points) ==
    /\ buffer' = buffer \cup points
    /\ dropped' = dropped \ points
    /\ owed' = IF api = "flushing" THEN owed \cup points ELSE owed
    /\ UNCHANGED <<api, retries, flight, awaited, stored>>

\* The timer of the write buffer, or its 500th point
Send ==
    /\ api # "closed" /\ buffer # {}
    /\ flight' = flight \cup buffer /\ buffer' = {}
    /\ UNCHANGED <<api, retries, awaited, stored, dropped, owed>>

\* The timer of the retry buffer
Retry ==
    /\ api # "closed"
    /\ \E n \in retries : retries' = retries \ {n} /\ flight' = flight \cup {n}
    /\ UNCHANGED <<api, buffer, awaited, stored, dropped, owed>>

Land(n) ==
    /\ n \in flight
    /\ flight' = flight \ {n} /\ stored' = stored \cup {n}
    /\ UNCHANGED <<api, buffer, retries, awaited, dropped, owed>>

\* A request fails, because InfluxDB is down, too slow or refuses it: its points wait for a
\* retry, but for those given up - after the third, for an answer below 429, once the API is
\* closed, or because the retry buffer is full, which drops its oldest.
Requeued(points) ==
    \E given \in SUBSET (retries \cup points) :
        /\ api = "closed" => points \subseteq given
        /\ retries' = (retries \cup points) \ given
        /\ dropped' = IF api = "open" THEN dropped \cup given ELSE dropped

RequestFails ==
    /\ \E n \in flight : Requeued({n}) /\ flight' = flight \ {n}
    /\ owed' = {}
    /\ UNCHANGED <<api, buffer, awaited, stored>>

-----------------------------------------------------------------------------
(* influx.flush().then(() => influx.close()), with what the buffer holds.  *)

Flushing(points) ==
    /\ api' = "flushing" /\ awaited' = points /\ buffer' = {}
    /\ owed' = points \cup retries
    /\ dropped' = {}

Closing == api' = "closing" /\ awaited' = buffer /\ buffer' = {}

\* Variant: flush() without the retry buffer.
FlushLandsOnce ==
    /\ api = "flushing"
    /\ stored' = stored \cup awaited
    /\ Closing
    /\ UNCHANGED <<retries, flight, dropped, owed>>

\* flush(true): the retry buffer follows, batch by batch, until it is empty.
FlushLands ==
    /\ api = "flushing"
    /\ stored' = stored \cup awaited
    /\ \/ /\ \E batch \in SUBSET retries \ {{}} : awaited' = batch /\ retries' = retries \ batch
          /\ UNCHANGED <<api, buffer>>
       \/ retries = {} /\ Closing /\ UNCHANGED retries
    /\ UNCHANGED <<flight, dropped, owed>>

\* The error is logged, and close() called.
FlushFails ==
    /\ api = "flushing" /\ awaited # {}
    /\ Requeued(awaited)
    /\ Closing
    /\ owed' = {} /\ UNCHANGED <<flight, stored>>

\* finally: the retry buffer is closed with what it holds.
Closed ==
    /\ api = "closing"
    /\ api' = "closed" /\ awaited' = {} /\ retries' = {}
    /\ UNCHANGED <<buffer, flight, dropped>>

CloseLands == Closed /\ stored' = stored \cup awaited /\ UNCHANGED owed

CloseFails == Closed /\ awaited # {} /\ UNCHANGED stored /\ owed' = {}

\* The process is gone; a request that arrives after it is as good as one that had landed.
Vanished ==
    /\ api' = "open"
    /\ buffer' = {} /\ retries' = {} /\ flight' = {} /\ awaited' = {}
    /\ dropped' = {} /\ owed' = {}
    /\ UNCHANGED stored
=============================================================================
