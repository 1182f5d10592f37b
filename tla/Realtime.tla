------------------------------ MODULE Realtime ------------------------------
(***************************************************************************)
(* The live feed: the hook useRealtime.ts of one page and the WebSocket    *)
(* server of ws/server.js.  A connection is known by a slot, which is used *)
(* again when both ends have forgotten it.                                 *)
(***************************************************************************)
EXTENDS FiniteSets

CONSTANTS Slots, Topics,
          None  \* no slot

VARIABLES mounted, topics,  \* the page, and the topics it asks for
          socket,           \* socketRef of the effect that is not cancelled
          due,              \* connect() is about to run: at once, or from the timer
          end,              \* client end: none, connecting, open, closing, closed
          clients,          \* server: the connections of `clients`
          patterns,         \* of each: the topics, or "all" before a subscribe frame
          isAlive,          \* those that answered the last ping
          frame,            \* the subscribe frame on its way, or "none"
          cut               \* the connections whose other end vanished silently

hook == <<mounted, topics, socket, due>>
server == <<clients, patterns, isAlive>>
net == <<end, frame, cut>>
vars == <<hook, server, net>>

Init ==
    /\ mounted = FALSE /\ topics \in Topics /\ socket = None /\ due = FALSE
    /\ end = [s \in Slots |-> "none"] /\ frame = [s \in Slots |-> "none"] /\ cut = {}
    /\ clients = {} /\ patterns = [s \in Slots |-> "all"] /\ isAlive = {}

\* connect(): the backoff is a delay of one to ten seconds.
Connect(s) ==
    /\ due /\ end[s] = "none" /\ s \notin clients
    /\ due' = FALSE /\ socket' = s
    /\ end' = [end EXCEPT ![s] = "connecting"]
    /\ UNCHANGED <<mounted, topics, server, frame, cut>>

\* 'upgrade' of a user, 'connection': until a frame says otherwise, everything is sent.
Upgrade(s) ==
    /\ end[s] = "connecting" /\ s \notin clients
    /\ clients' = clients \cup {s}
    /\ isAlive' = isAlive \cup {s}
    /\ patterns' = [patterns EXCEPT ![s] = "all"]
    /\ UNCHANGED <<hook, net>>

\* No token, or nobody listens
Refuse(s) ==
    /\ end[s] = "connecting" /\ s \notin clients
    /\ end' = [end EXCEPT ![s] = "closed"]
    /\ UNCHANGED <<hook, server, frame, cut>>

\* Variant: the first connection subscribes, the next ones do not.
onopenSilent(s) ==
    /\ end[s] = "connecting" /\ s \in clients
    /\ end' = [end EXCEPT ![s] = "open"]
    /\ UNCHANGED <<hook, server, frame, cut>>

onopen(s) ==
    /\ end[s] = "connecting" /\ s \in clients
    /\ end' = [end EXCEPT ![s] = "open"]
    /\ frame' = IF s = socket THEN [frame EXCEPT ![s] = topics] ELSE frame
    /\ UNCHANGED <<hook, server, cut>>

\* 'message' of the server
Subscribe(s) ==
    /\ s \in clients /\ frame[s] # "none" /\ s \notin cut
    /\ patterns' = [patterns EXCEPT ![s] = frame[s]]
    /\ frame' = [frame EXCEPT ![s] = "none"]
    /\ UNCHANGED <<hook, clients, isAlive, end, cut>>

\* The server drops a connection; a client that is there learns of it.
Dropped(gone) ==
    /\ clients' = clients \ gone
    /\ end' = [s \in Slots |-> IF s \in gone /\ end[s] # "none" THEN "closed" ELSE end[s]]
    /\ cut' = cut \ gone
    /\ frame' = [s \in Slots |-> IF s \in gone THEN "none" ELSE frame[s]]

\* close() of the server, or the death of its process
ServerClose ==
    /\ clients # {}
    /\ Dropped(clients)
    /\ UNCHANGED <<hook, patterns, isAlive>>

\* Every 20 seconds, in which a client that is there answers: who has not is terminated.
Heartbeat ==
    /\ clients # {} /\ clients \subseteq isAlive \cup cut
    /\ Dropped(clients \ isAlive)
    /\ isAlive' = {}
    /\ UNCHANGED <<hook, patterns>>

Pong(s) ==
    /\ s \in clients \ (isAlive \cup cut)
    /\ isAlive' = isAlive \cup {s}
    /\ UNCHANGED <<hook, clients, patterns, net>>

\* The other end of an open connection vanishes: the machine sleeps, the cable is pulled.
Vanish(s) ==
    /\ end[s] = "open" /\ s \in clients \ cut
    /\ cut' = cut \cup {s}
    /\ UNCHANGED <<hook, server, end, frame>>

\* onclose of a cancelled effect does nothing, that of the current one sets the timer.
onclose(s) ==
    /\ end[s] = "closed"
    /\ end' = [end EXCEPT ![s] = "none"]
    /\ IF s = socket THEN socket' = None /\ due' = TRUE ELSE UNCHANGED <<socket, due>>
    /\ UNCHANGED <<mounted, topics, server, frame, cut>>

\* The close frame of the client arrives.
Closed(s) ==
    /\ end[s] = "closing"
    /\ s \in clients => s \notin cut
    /\ end' = [end EXCEPT ![s] = "none"]
    /\ clients' = clients \ {s}
    /\ frame' = [frame EXCEPT ![s] = "none"]
    /\ UNCHANGED <<hook, patterns, isAlive, cut>>

\* The cleanup of an effect: cancelled, the timer cleared, the socket closed
Cleanup ==
    end' = IF socket = None THEN end
           ELSE [end EXCEPT ![socket] = IF @ = "closed" THEN @ ELSE "closing"]

\* Other topics: the cleanup, and the effect anew
Retopic ==
    /\ mounted
    /\ Cleanup
    /\ topics' \in Topics \ {topics}
    /\ socket' = None /\ due' = TRUE
    /\ UNCHANGED <<mounted, server, frame, cut>>

Unmount ==
    /\ mounted
    /\ Cleanup
    /\ mounted' = FALSE /\ socket' = None /\ due' = FALSE
    /\ UNCHANGED <<topics, server, frame, cut>>

Mount ==
    /\ ~mounted
    /\ mounted' = TRUE /\ due' = TRUE
    /\ UNCHANGED <<topics, socket, server, net>>

Next ==
    \/ \E s \in Slots : \/ Connect(s) \/ Upgrade(s) \/ Refuse(s) \/ onopen(s) \/ Subscribe(s)
                        \/ Pong(s) \/ Vanish(s) \/ onclose(s) \/ Closed(s)
    \/ ServerClose \/ Heartbeat \/ Retopic \/ Unmount \/ Mount

Spec == Init /\ [][Next]_vars

\* Refusals and lost servers come to an end, and so do the changes of the page.
Trouble == ServerClose \/ Retopic \/ Unmount \/ \E s \in Slots : Refuse(s)

Fairness ==
    /\ WF_vars(Heartbeat)
    /\ \A s \in Slots : /\ WF_vars(Connect(s)) /\ WF_vars(Upgrade(s)) /\ WF_vars(onopen(s))
                        /\ WF_vars(Subscribe(s)) /\ WF_vars(Pong(s))
                        /\ WF_vars(onclose(s)) /\ WF_vars(Closed(s))
    /\ <>[][~Trouble]_vars

FairSpec == Spec /\ Fairness

-----------------------------------------------------------------------------
(* Properties.                                                             *)

\* The page that asks for topics is sent those, after changes of the page and restarts
\* of the server, unless its server vanished without a word: the hook has no heartbeat.
FollowsTopics ==
    \A t \in Topics :
        (mounted /\ topics = t)
            ~> (~mounted \/ topics # t \/ socket \in cut
                \/ (socket \in clients /\ patterns[socket] = t))
=============================================================================
