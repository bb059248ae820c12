---------------------------- MODULE NativeGuard -----------------------------
(***************************************************************************)
(* The independent guard of an acceptance run: registry initialisation     *)
(* (native_initialize_registry.py), the gated deployment of the runtime    *)
(* (native_deploy.py), the scheduled cleanup passes (native_watchdog.py    *)
(* over native_inventory.py) and the retirement of the guard itself        *)
(* (native_finalize_guard.py), with the independent readers: the checker   *)
(* that every pass invokes (native_inventory.py) and the last look at what  *)
(* is left (native_post_teardown.py). Passes do not overlap (reserved       *)
(* concurrency 1) but may be cut off, and each call of a pass may fail.     *)
(***************************************************************************)
EXTENDS NativeController

CONSTANT FragileKinds   \* the kinds whose deletion may fail

VARIABLES watch,        \* the pass under way
          guard,        \* the guard's own schedule, bucket, key and checker
          deploy        \* the deployment: how deep it has come, whether it is under way,
                        \* and (auxiliary) the databases no pass saw before the key went

guardVars == <<watch, guard, deploy>>
vars == <<nativeVars, guardVars>>

NoView == [db |-> [g \in Gens |-> "absent"], prot |-> {}, backup |-> [st |-> "none", tag |-> FALSE],
           task |-> FALSE, res |-> [k \in Kinds |-> "gone"]]

GuardInit ==
    /\ watch = [pc |-> "idle", known |-> {}, view |-> NoView]
    /\ guard = [st |-> "armed", fin |-> "none", audit |-> "none"]
    /\ deploy = [built |-> 0, applying |-> FALSE, unseen |-> {}]

-----------------------------------------------------------------------------
(* Inventory.collect: what the run owns, as one complete listing.           *)
Listing ==
    [db |-> [g \in Gens |-> IF Exists(g) THEN db[g] ELSE "absent"], prot |-> prot,
     backup |-> IF db["control"] = "gone" \/ backup.st = "retained" THEN backup
                ELSE [backup EXCEPT !.tag = FALSE],
     task |-> Listed /\ res["cluster"] = "present", res |-> res]

KindsOf(v) ==
    {k \in Kinds : v.res[k] # "gone"}
    \union (IF \E g \in Gens : v.db[g] # "absent" THEN {"database"} ELSE {})
    \union (IF v.backup.st # "none" THEN {"backup"} ELSE {})
    \union (IF v.task THEN {"task"} ELSE {})

(* public_report: what still counts as live. Keys and secrets whose         *)
(* deletion is scheduled do not, nor definitions being deleted once nothing *)
(* can run.                                                                 *)
ActiveAbsent(v) ==
    /\ KindsOf(v) \subseteq {"key", "secret", "task_definition"}
    /\ \A k \in {"key", "secret", "task_definition"} : v.res[k] \in {"closing", "gone"}

(* initialize_registry: an existing registry is preserved, a missing one is *)
(* created empty over an empty runtime.                                     *)
InitializeRegistry ==
    /\ guard.st = "armed" /\ ~ late
    /\ store.registry = "none" /\ KindsOf(Listing) = {}
    /\ store' = [store EXCEPT !.registry = "written", !.fresh = TRUE]
    /\ UNCHANGED <<wf, db, prot, led, closed, at, now, backup, task, ran, res, late,
                   controllerVars, guardVars>>

(* review_plan: only creates. A database an earlier apply left half made    *)
(* would be replaced.                                                       *)
CreateOnly == \A g \in Gens : db[g] \in {"absent", "available"}

(* armed_gate: the schedule is armed and time remains; one operator runs    *)
(* the scripts: no deployment while a retirement of the guard is under way. *)
MayDeploy == guard.st = "armed" /\ guard.fin = "none" /\ ~ late

(* native_deploy reviews the plan and looks at the gate once; terraform     *)
(* apply then runs for as long as it takes. A plan approved anew continues  *)
(* an apply that failed.                                                    *)
DeployStarts ==
    /\ MayDeploy /\ CreateOnly /\ store.registry = "written"
    /\ ~ deploy.applying /\ deploy.built < 4
    /\ deploy' = [deploy EXCEPT !.applying = TRUE]
    /\ UNCHANGED <<nativeVars, watch, guard>>

(* The depth of each resource in Terraform's graph: the databases come      *)
(* after the third, the task definitions name both databases.               *)
Depth(k) ==
    CASE k \in {"vpc", "key", "cluster", "role", "db_parameter_group"} -> 1
      [] k \in {"subnet", "route_table", "security_group", "repository", "secret",
                "log_group"} -> 2
      [] k \in {"db_subnet_group", "endpoint", "eni"} -> 3
      [] k = "task_definition" -> 4

(* What AWS looks up when it makes one; task definitions only name what     *)
(* they use.                                                                *)
Needs(k) ==
    CASE k \in {"subnet", "route_table", "security_group"} -> {"vpc"}
      [] k \in {"repository", "secret", "log_group"} -> {"key"}
      [] k = "db_subnet_group" -> {"subnet"}
      [] k \in {"endpoint", "eni"} -> {"subnet", "security_group", "route_table"}
      [] OTHER -> {}

NeedsOfDatabase == {"key", "db_subnet_group", "security_group", "db_parameter_group"}

Stand(kinds) == \A k \in kinds : res[k] = "present"

(* Terraform makes the resources of the next depth, except those that need  *)
(* one that a pass has taken away; secrets have no version yet.             *)
DeployLayer ==
    LET n == deploy.built + 1
    IN  /\ deploy.applying /\ n \in 1..4
        /\ n = 4 => db["control"] = "available" /\ db["receipts"] = "available"
        /\ res' = [k \in Kinds |->
                      IF Depth(k) = n /\ Stand(Needs(k))
                      THEN IF k = "secret" THEN "empty" ELSE "present" ELSE res[k]]
        /\ deploy' = [deploy EXCEPT !.built = n, !.applying = n < 4]
        /\ UNCHANGED <<wf, db, prot, led, closed, at, now, backup, task, ran, late, store,
                       controllerVars, watch, guard>>

(* One of the two databases, protected and encrypted with the key; the      *)
(* control database has an automated backup.                                *)
DeployDatabase(g) ==
    /\ deploy.applying /\ deploy.built = 3 /\ db[g] = "absent"
    /\ Stand(NeedsOfDatabase)
    /\ db' = [db EXCEPT ![g] = "creating"]
    /\ prot' = prot \union {g}
    /\ backup' = IF g = "control" THEN [st |-> "active", tag |-> FALSE] ELSE backup
    /\ deploy' = IF watch.pc = "sweep" THEN [deploy EXCEPT !.unseen = @ \union {g}] ELSE deploy
    /\ UNCHANGED <<wf, led, closed, at, now, task, ran, res, late, store, controllerVars,
                   watch, guard>>

(* An apply fails, or is killed. What it has made stays.                    *)
DeployFails ==
    /\ deploy.applying
    /\ deploy' = [deploy EXCEPT !.applying = FALSE]
    /\ UNCHANGED <<nativeVars, watch, guard>>

Deploy == \/ DeployStarts \/ DeployLayer \/ DeployFails
          \/ \E g \in {"control", "receipts"} : DeployDatabase(g)

-----------------------------------------------------------------------------
(* One pass of the watchdog: read the registry, list, write the registry    *)
(* (unconditionally), list again, and act on that second listing.           *)
PassReads ==
    /\ watch.pc = "idle" /\ late /\ guard.st = "armed"
    /\ watch' = [watch EXCEPT !.pc = "register", !.known = store.secrets]
    /\ UNCHANGED <<nativeVars, guard, deploy>>

Owners == {g \in {"control", "receipts"} : Exists(g)}

PassRegisters ==
    /\ watch.pc = "register"
    /\ store' = [store EXCEPT !.registry = "written", !.secrets = watch.known \union Owners,
                              !.fresh = TRUE]
    /\ watch' = [watch EXCEPT !.pc = "list", !.known = {}]
    /\ UNCHANGED <<wf, db, prot, led, closed, at, now, backup, task, ran, res, late,
                   controllerVars, guard, deploy>>

PassLists ==
    /\ watch.pc = "list"
    /\ watch' = [watch EXCEPT !.pc = "sweep", !.view = Listing]
    /\ deploy' = IF res["key"] = "present" THEN [deploy EXCEPT !.unseen = {}] ELSE deploy
    /\ UNCHANGED <<nativeVars, guard>>

\* Mutant of Encrypted: only live databases keep the key.
LiveOnly == {"database"}
(* What the key encrypts: manual snapshots are not modelled.                *)
Encrypted == {"database", "backup"}

(* Which kinds cleanup_pass waits for before it touches one.                *)
Blockers(k) ==
    {"task"} \union
    CASE k = "log_group" -> {"database"}
      [] k = "eni" -> {"database", "endpoint"}
      [] k = "route_table" -> {"endpoint"}
      [] k \in {"security_group", "subnet"} -> {"database", "endpoint", "eni"}
      [] k = "vpc" -> {"database", "endpoint", "eni", "subnet", "security_group"}
      [] k \in {"db_subnet_group", "db_parameter_group"} -> {"database"}
      [] k = "key" -> Encrypted
      [] OTHER -> {}

(* What AWS itself refuses to delete, by what is there at that moment.      *)
InUse(k) ==
    \/ k = "cluster" /\ Alive
    \/ k \in {"eni", "security_group", "subnet", "vpc", "db_subnet_group", "db_parameter_group"}
       /\ Instances # {}
    \/ k \in {"security_group", "subnet", "vpc"}
       /\ \E d \in {"endpoint", "eni"} : res[d] # "gone"
    \/ k = "vpc" /\ \E d \in {"subnet", "security_group"} : res[d] # "gone"

\* Mutant of Swept: task definitions are deregistered and never deleted.
DeregisteredOnly(k, s) ==
    CASE k = "task_definition" -> "inactive"
      [] k \in {"key", "secret", "endpoint"} -> "closing"
      [] OTHER -> "gone"

(* One call on one row: definitions are deregistered before they are        *)
(* deleted; keys, secrets and endpoints only begin to go.                   *)
Swept(k, s) ==
    CASE k = "task_definition" -> IF s = "present" THEN "inactive" ELSE "closing"
      [] k \in {"key", "secret", "endpoint"} -> "closing"
      [] OTHER -> "gone"

SweptResources(failed) ==
    LET seen == KindsOf(watch.view)
    IN  [k \in Kinds |->
            IF \/ watch.view.res[k] = "gone" \/ res[k] = "gone" \/ k \in failed
               \/ Blockers(k) \intersect seen # {} \/ InUse(k)
            THEN res[k] ELSE Swept(k, watch.view.res[k])]

(* The row of an instance name in the listing acts on whatever instance has *)
(* that name now.                                                           *)
RowOf(g) == {h \in Gens : Name(h) = Name(g) /\ watch.view.db[h] # "absent"}
ToUnprotect == {g \in Instances : \E h \in RowOf(g) :
                    watch.view.db[h] # "deleting" /\ h \in watch.view.prot}
ToDelete == {g \in Instances : /\ db[g] = "available" /\ g \notin prot
                               /\ \E h \in RowOf(g) : /\ watch.view.db[h] = "available"
                                                      /\ h \notin watch.view.prot}

(* A log group goes only once its streams have been read back from the      *)
(* bucket; a budget exceeded or a read-back that differs fails its row.     *)
LogsArchived == res["log_group"] = "present" /\ res'["log_group"] = "gone"

(* cleanup_pass over its rows; a failed row leaves the others to be done,   *)
(* and the run to the next pass.                                            *)
PassSweeps(failed) ==
    /\ watch.pc = "sweep"
    /\ watch' = [watch EXCEPT !.pc = "idle", !.view = NoView]
    /\ faults' = IF failed = {} THEN faults ELSE faults + 1
    /\ IF watch.view.task
       THEN /\ task' = IF Listed THEN [task EXCEPT !.st = "stopping"] ELSE task
            /\ UNCHANGED <<db, prot, backup, res>>
       ELSE /\ prot' = IF "database" \in failed THEN prot ELSE prot \ ToUnprotect
            /\ db' = IF "database" \in failed THEN db
                     ELSE [g \in Gens |-> IF g \in ToDelete THEN "deleting" ELSE db[g]]
            /\ backup' = IF \/ "control" \in ToDelete /\ "database" \notin failed
                            \/ /\ watch.view.backup = [st |-> "retained", tag |-> TRUE]
                               /\ "backup" \notin failed
                         THEN [backup EXCEPT !.st = "none"] ELSE backup
            /\ res' = SweptResources(failed)
            /\ UNCHANGED task
    /\ store' = [store EXCEPT !.fresh = TRUE, !.logs = @ \/ LogsArchived]
    /\ UNCHANGED <<wf, led, closed, at, now, ran, late, ctl, guard, deploy>>

(* The checker, invoked by a pass without waiting for it: it reads the      *)
(* runtime and writes its report to the bucket. The invocation may run late *)
(* or again, until the retirement lets the last one finish (a report beside *)
(* another that is not archived is no new state).                           *)
CheckerReports ==
    /\ late /\ guard.st \in {"armed", "stopped"} /\ ~ store.fresh
    /\ store' = [store EXCEPT !.fresh = TRUE]
    /\ UNCHANGED <<wf, db, prot, led, closed, at, now, backup, task, ran, res, late,
                   controllerVars, guardVars>>

(* The function runs into its timeout, or a read of it is denied.           *)
PassCutOff ==
    /\ watch.pc # "idle" /\ faults < MaxFaults
    /\ watch' = [pc |-> "idle", known |-> {}, view |-> NoView]
    /\ faults' = faults + 1
    /\ UNCHANGED <<cloudVars, ctl, guard, deploy>>

Sweep ==
    \/ PassSweeps({})
    \/ faults < MaxFaults /\ \E k \in FragileKinds : PassSweeps({k})

Pass == PassReads \/ PassRegisters \/ PassLists \/ Sweep

-----------------------------------------------------------------------------
(* finalize: an independent inventory must be empty of live resources, then *)
(* every object of the bucket is copied and read back.                      *)
FinalizeArchives ==
    /\ guard.st \in {"armed", "stopped"} /\ guard.fin = "none"
    /\ ~ deploy.applying /\ ActiveAbsent(Listing)
    /\ guard' = [guard EXCEPT !.fin = "archived"]
    /\ store' = [store EXCEPT !.fresh = FALSE]
    /\ UNCHANGED <<wf, db, prot, led, closed, at, now, backup, task, ran, res, late,
                   controllerVars, watch, deploy>>

(* Schedule deleted, concurrency zero: no pass begins any more. A second    *)
(* attempt finds no schedule to delete and raises.                          *)
FinalizeStops ==
    /\ guard.fin = "archived"
    /\ guard' = IF guard.st = "armed" THEN [guard EXCEPT !.st = "stopped", !.fin = "stopped"]
                ELSE [guard EXCEPT !.fin = "none"]
    /\ UNCHANGED <<nativeVars, watch, deploy>>

\* Mutant of Relisted: what was written since the archive is not looked for.
NotRelisted == TRUE
(* After the longest pass and check: the bucket must hold what was          *)
(* archived, nothing more; otherwise the attempt ends.                      *)
Relisted == ~ store.fresh

FinalizeDeletes ==
    /\ guard.fin = "stopped" /\ watch.pc = "idle"
    /\ \/ /\ Relisted
          /\ guard' = [guard EXCEPT !.st = "gone", !.fin = "gone"]
          /\ store' = [store EXCEPT !.bucket = FALSE]
       \/ /\ ~ Relisted
          /\ guard' = [guard EXCEPT !.fin = "none"] /\ UNCHANGED store
    /\ UNCHANGED <<wf, db, prot, led, closed, at, now, backup, task, ran, res, late,
                   controllerVars, watch, deploy>>

(* The waiting periods of deleted keys, secrets and definitions end: those  *)
(* of the runtime, and that of the guard's own key. They are longer than    *)
(* the retirement of the guard.                                             *)
WaitingEnds ==
    /\ guard.st = "gone"
    /\ \/ /\ res' = [k \in Kinds |-> IF res[k] = "closing" THEN "gone" ELSE res[k]]
          /\ UNCHANGED guard
       \/ guard' = [guard EXCEPT !.st = "erased"] /\ UNCHANGED res
    /\ UNCHANGED <<wf, db, prot, led, closed, at, now, backup, task, ran, late, store,
                   controllerVars, watch, deploy>>

NothingLeft == KindsOf(Listing) = {}

(* native_post_teardown: the runtime is read, then the guard, whose key is  *)
(* the last to go. Before the retirement the guard itself is a residual.    *)
AuditRuntime ==
    /\ guard.st \in {"gone", "erased"} /\ guard.audit # "runtime"
    /\ guard' = [guard EXCEPT !.audit = IF NothingLeft THEN "runtime" ELSE "residuals"]
    /\ UNCHANGED <<nativeVars, watch, deploy>>

AuditGuard ==
    /\ guard.audit = "runtime"
    /\ guard' = [guard EXCEPT !.audit = IF guard.st = "erased" THEN "clear" ELSE "residuals"]
    /\ UNCHANGED <<nativeVars, watch, deploy>>

GuardNext ==
    \/ InitializeRegistry \/ Deploy
    \/ Pass \/ PassCutOff \/ CheckerReports
    \/ FinalizeArchives \/ FinalizeStops \/ FinalizeDeletes
    \/ WaitingEnds \/ AuditRuntime \/ AuditGuard
=============================================================================
