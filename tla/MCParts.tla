------------------------------- MODULE MCParts -------------------------------
(***************************************************************************)
(* Components that share no state, side by side: a behaviour is a          *)
(* behaviour of one of them, the one PartsInit chose, while the others     *)
(* stay where they start.                                                  *)
(***************************************************************************)
EXTENDS MCQueries, AlertRulesCache, Lockout, Tasks, Dashboard, Service

VARIABLE part

PartsInit ==
    /\ part \in {"queries", "rules", "lockout", "tasks", "dashboard", "service"}
    /\ Init /\ RulesInit /\ LockoutInit /\ TasksInit /\ DashboardInit /\ ServiceInit
    /\ part # "tasks" => \A n \in Names : tasks[n] = 0

PartsNext ==
    /\ UNCHANGED part
    /\ \/ /\ part = "queries" /\ Next
          /\ UNCHANGED <<rulesVars, lockoutVars, tasksVars, dashboardVars, serviceVars>>
       \/ /\ part = "rules" /\ RulesNext
          /\ UNCHANGED <<vars, lockoutVars, tasksVars, dashboardVars, serviceVars>>
       \/ /\ part = "lockout" /\ LockoutNext
          /\ UNCHANGED <<vars, rulesVars, tasksVars, dashboardVars, serviceVars>>
       \/ /\ part = "tasks" /\ TasksNext
          /\ UNCHANGED <<vars, rulesVars, lockoutVars, dashboardVars, serviceVars>>
       \/ /\ part = "dashboard" /\ DashboardNext
          /\ UNCHANGED <<vars, rulesVars, lockoutVars, tasksVars, serviceVars>>
       \/ /\ part = "service" /\ ServiceNext
          /\ UNCHANGED <<vars, rulesVars, lockoutVars, tasksVars, dashboardVars>>

PartsSpec ==
    /\ PartsInit
    /\ [][PartsNext]_<<part, vars, rulesVars, lockoutVars, tasksVars, dashboardVars, serviceVars>>
==============================================================================
