---------------------------- MODULE NativeCloud -----------------------------
(***************************************************************************)
(* The isolated AWS runtime that the native acceptance workflows use: two  *)
(* databases created by Terraform and those restored from backups, ECS     *)
(* one-off tasks, the other resources of the run, and the private guard    *)
(* bucket. External: modelled from how the code calls it.                  *)
(*                                                                         *)
(* Business keys stand for groups of jobs: "base" for those of the first   *)
(* phase, "more" for those after it, "new" for the one that is admitted    *)
(* after recovery. Time counts half seconds, because RDS restores to whole *)
(* seconds. Behind and matching are two generations of one instance name.  *)
(***************************************************************************)
EXTENDS Integers, Sequences, FiniteSets

Keys == {"base", "more", "new"}
Restores == {"behind", "matching"}
Gens == {"control", "receipts"} \union Restores
Kinds == {"cluster", "task_definition", "repository", "secret", "log_group", "key",
          "endpoint", "eni", "route_table", "security_group", "subnet", "vpc",
          "db_subnet_group", "db_parameter_group", "role"}

CONSTANT StartTimes     \* the moments at which a run may begin

ASSUME StartAssumption == StartTimes \subseteq Nat

VARIABLES
    wf,         \* the workflow of the approved manifest
    db,         \* RDS: the status of each generation
    prot,       \* generations with deletion protection
    led,        \* the business keys each database holds
    closed,     \* control generations whose recovery gate is closed
    at,         \* when each key was committed in a control database
    now,        \* database time
    backup,     \* the automated backup of the original control database
    task,       \* ECS: the one-off task, running or last
    ran,        \* ECS: the outcome of the first task of each client token
    res,        \* the other resources of the run
    late,       \* cleanup_at has passed
    store       \* the guard bucket

cloudVars == <<wf, db, prot, led, closed, at, now, backup, task, ran, res, late, store>>

Name(g) == IF g \in Restores THEN "restore" ELSE g
Exists(g) == db[g] \in {"creating", "available", "deleting"}
Instances == {g \in Gens : Exists(g)}

NoCall == [name |-> "none", gen |-> "control", phase |-> "none", exit |-> 0]
NoOutcome == [exit |-> 1, at |-> 0, local |-> {}, remote |-> {}, closed |-> FALSE]
NoTask == [call |-> NoCall, pc |-> 1, st |-> "none", out |-> NoOutcome]

(* A task is listed until its stop is requested, and alive until it stops.  *)
Listed == task.st = "running"
Alive == task.st \in {"running", "stopping"}

CloudInit ==
    /\ db = [g \in Gens |-> "absent"]
    /\ prot = {} /\ closed = {}
    /\ led = [g \in Gens |-> {}]
    /\ at = [k \in Keys |-> 0] /\ now \in StartTimes
    /\ backup = [st |-> "none", tag |-> FALSE]
    /\ task = NoTask /\ ran = {}
    /\ res = [k \in Kinds |-> "gone"]
    /\ late = FALSE
    /\ store = [registry |-> "none", secrets |-> {}, claim |-> FALSE, prepared |-> FALSE,
                fresh |-> FALSE, logs |-> FALSE, bucket |-> TRUE]

(* What a point-in-time restore finds: the commits up to the whole second.  *)
ContentAt(p) == {k \in led["control"] : at[k] <= (p \div 2) * 2}

(* RestoreDBInstanceToPointInTime, from the live source or from its         *)
(* retained backup; the gate row is restored with the rest.                 *)
RestoreTo(g, p) ==
    /\ backup.st \in {"active", "retained"}
    /\ backup.st = "active" => db["control"] = "available"
    /\ \A h \in Restores : ~ Exists(h)
    /\ res["db_subnet_group"] = "present" /\ res["key"] = "present"
    /\ db' = [db EXCEPT ![g] = "creating"]
    /\ prot' = prot \union {g}
    /\ led' = [led EXCEPT ![g] = ContentAt(p)]

(* DeleteDBInstance with or without its automated backups.                  *)
DeleteInstance(g, keepBackups) ==
    /\ db[g] = "available" /\ g \notin prot
    /\ db' = [db EXCEPT ![g] = "deleting"]
    /\ backup' = IF g = "control" /\ ~ keepBackups THEN [backup EXCEPT !.st = "none"] ELSE backup

DatabaseSettles(g) ==
    /\ \/ db[g] = "creating" /\ db' = [db EXCEPT ![g] = "available"] /\ UNCHANGED backup
       \/ /\ db[g] = "deleting" /\ db' = [db EXCEPT ![g] = "gone"]
          /\ backup' = IF g = "control" /\ backup.st = "active"
                       THEN [backup EXCEPT !.st = "retained"] ELSE backup
    /\ UNCHANGED <<wf, prot, led, closed, at, now, task, ran, res, late, store>>

(* Endpoints take a while to disappear.                                     *)
EndpointSettles ==
    /\ res["endpoint"] = "closing"
    /\ res' = [res EXCEPT !["endpoint"] = "gone"]
    /\ UNCHANGED <<wf, db, prot, led, closed, at, now, backup, task, ran, late, store>>

(* Nobody accepts an outcome after the deadline: they are forgotten.        *)
Deadline ==
    /\ ~ late /\ late' = TRUE /\ ran' = {}
    /\ UNCHANGED <<wf, db, prot, led, closed, at, now, backup, task, res, store>>
=============================================================================
