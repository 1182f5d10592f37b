-------------------------------- MODULE Tasks --------------------------------
(***************************************************************************)
(* The downsampling tasks of InfluxDB: bootstrapTasks() of every process   *)
(* that boots, and the operators who delete tasks in the UI.  InfluxDB     *)
(* does not ask for names to be unique: a task is known by how many carry  *)
(* its name.                                                               *)
(***************************************************************************)
EXTENDS Naturals, Sequences, FiniteSets

CONSTANTS Replicas,  \* processes of the backend
          MaxBoots   \* bound of the model: how often they boot, together

\* k8s/deployment.yaml and hpa.yaml run two at least.
ASSUME ReplicasAssumption == IsFiniteSet(Replicas) /\ Replicas # {}

ASSUME BootsAssumption == MaxBoots \in Nat

\* In the order they are created: each reads what the one before it writes.
EXPECTED_DOWNSAMPLING_TASKS == <<"downsample_1m", "downsample_1h", "downsample_1d">>

Names == {EXPECTED_DOWNSAMPLING_TASKS[i] : i \in DOMAIN EXPECTED_DOWNSAMPLING_TASKS}

VARIABLES tasks,     \* how many tasks have a name
          existing,  \* of each replica: the names its first listing returned
          next,      \* the position of the loop, 0 outside of it
          boots

tasksVars == <<tasks, existing, next, boots>>

TasksInit ==
    /\ tasks \in [Names -> {0, 1}]
    /\ existing = [r \in Replicas |-> {}]
    /\ next = [r \in Replicas |-> 0]
    /\ boots = 0

Present == {n \in Names : tasks[n] > 0}

\* The organisation is found and the tasks are listed, once. When it is not, or an error
\* is thrown, the process runs on without: that boot provisions nothing.
List(r) ==
    /\ next[r] = 0 /\ boots < MaxBoots
    /\ boots' = boots + 1
    /\ \/ /\ existing' = [existing EXCEPT ![r] = Present]
          /\ next' = [next EXCEPT ![r] = 1]
       \/ UNCHANGED <<existing, next>>
    /\ UNCHANGED tasks

Step(r) == next' = [next EXCEPT ![r] = IF @ = Len(EXPECTED_DOWNSAMPLING_TASKS) THEN 0 ELSE @ + 1]

Name(r) == EXPECTED_DOWNSAMPLING_TASKS[next[r]]

\* Variant: the listing is not asked.
CreateAnyway(r) ==
    /\ next[r] > 0
    /\ tasks' = [tasks EXCEPT ![Name(r)] = @ + 1]
    /\ Step(r)
    /\ UNCHANGED <<existing, boots>>

Create(r) ==
    /\ next[r] > 0 /\ Name(r) \notin existing[r]
    /\ tasks' = [tasks EXCEPT ![Name(r)] = @ + 1]
    /\ Step(r)
    /\ UNCHANGED <<existing, boots>>

\* The name was listed, or the creation failed: the loop goes on.
Skip(r) ==
    /\ next[r] > 0
    /\ Step(r)
    /\ UNCHANGED <<tasks, existing, boots>>

\* The process ends; the one that follows it lists again, after what was asked for has
\* arrived, if it does.
Die(r) ==
    /\ next[r] > 0
    /\ next' = [next EXCEPT ![r] = 0]
    /\ UNCHANGED <<tasks, existing, boots>>

\* An operator, in the UI
Delete ==
    /\ \E n \in Present : tasks' = [tasks EXCEPT ![n] = @ - 1]
    /\ UNCHANGED <<existing, next, boots>>

TasksNext == (\E r \in Replicas : List(r) \/ Create(r) \/ Skip(r) \/ Die(r)) \/ Delete

TasksSpec == TasksInit /\ [][TasksNext]_tasksVars

\* tasksHealth(), what /health shows: every expected task is there.
tasksHealth == Present = Names

-----------------------------------------------------------------------------
(* Properties.                                                             *)

\* Replicas that boot together all miss a task, and each creates it: bootstrapTasks()
\* reads and writes without a lock, and InfluxDB takes the name again. That is all the
\* duplicates there are: however boots, failures, deaths and deletions follow each other,
\* and however old a listing is, a name never has more tasks than there are replicas.
TasksPerReplica == \A n \in Names : tasks[n] <= Cardinality(Replicas)
==============================================================================
