------------------------------- MODULE MCLive -------------------------------
(***************************************************************************)
(* The four components whose liveness is checked, which share no state,    *)
(* side by side: a behaviour is a behaviour of one of them, while the      *)
(* others stay where they start, where nothing of theirs has to happen.    *)
(***************************************************************************)
EXTENDS Service, AlertLifecycle

CONSTANTS Slots, Topics, None,
          Ids, Emails, Lower, Admin, Erasures, Sweeps, Grace, AccessTtl, MaxClock

\* What stands for no slot, and for no frame
ASSUME RealtimeAssumption == None \notin Slots /\ "none" \notin Topics

VARIABLES part,
          mounted, topics, socket, due, end, clients, patterns, isAlive, frame, cut,
          clock, late, users, token, named, mentioned, pc, by, email, found, at, hidden,
          boot, gone, restored, swept, revived

Realtime == INSTANCE Realtime
Users == INSTANCE UserLifecycle

LiveInit ==
    /\ part \in {"service", "alerts", "realtime", "users"}
    /\ ServiceInit /\ AlertsInit /\ Realtime!Init /\ Users!Init
    /\ part # "realtime" => topics = CHOOSE t \in Topics : TRUE

\* Addresses in lower case
MCLower == [e \in Emails |-> e]

realtimeVars == <<mounted, topics, socket, due, end, clients, patterns, isAlive, frame, cut>>
usersVars == <<clock, late, users, token, named, mentioned, pc, by, email, found, at, hidden,
               boot, gone, restored, swept, revived>>

LiveNext ==
    /\ UNCHANGED part
    /\ \/ /\ part = "service" /\ ServiceNext
          /\ UNCHANGED <<alertsVars, realtimeVars, usersVars>>
       \/ /\ part = "alerts" /\ AlertsNext
          /\ UNCHANGED <<serviceVars, realtimeVars, usersVars>>
       \/ /\ part = "realtime" /\ Realtime!Next
          /\ UNCHANGED <<serviceVars, alertsVars, usersVars>>
       \/ /\ part = "users" /\ Users!Next
          /\ UNCHANGED <<serviceVars, alertsVars, realtimeVars>>

\* Users!Fairness, of its part: its timers run from the start.
UsersFairness ==
    /\ WF_usersVars(part = "users" /\ Users!Tick)
    /\ WF_usersVars(part = "users" /\ \E e \in Erasures : Users!Handle(e))
    /\ \A s \in Sweeps : /\ WF_usersVars(part = "users" /\ Users!SweepAnonymise(s))
                          /\ SF_usersVars(part = "users" /\ Users!SweepDelete(s))

LiveSpec ==
    /\ LiveInit /\ [][LiveNext]_<<part, serviceVars, alertsVars, realtimeVars, usersVars>>
    /\ Fairness /\ AlertsFairness /\ Realtime!Fairness /\ UsersFairness

-----------------------------------------------------------------------------
(* Properties: those of the parts, stated and explained in their modules.  *)

\* The live feed of ws/server.js follows the page of useRealtime.ts.
FollowsTopics == Realtime!FollowsTopics

\* The housekeeping deletes what is to be erased (migration 005).
PendingIsErased == Users!PendingIsErased
==============================================================================
