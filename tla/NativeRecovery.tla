--------------------------- MODULE NativeRecovery ---------------------------
(***************************************************************************)
(* The native acceptance run as a whole: one workflow's controller, its    *)
(* tasks, the databases and their backups, and the guard that cleans up    *)
(* after the deadline whatever the controller is doing.                    *)
(***************************************************************************)
EXTENDS NativeGuard

CONSTANT Workflows      \* the workflows a manifest may name

ASSUME WorkflowsAssumption == Workflows \subseteq {"sql", "retained", "application"}

Init == wf \in Workflows /\ CloudInit /\ ControllerInit /\ GuardInit

(* What AWS completes and time brings about by itself.                      *)
Settles == \/ \E g \in Gens : DatabaseSettles(g)
           \/ EndpointSettles
           \/ Deadline
           \/ task.st = "stopping" /\ TaskDies

Cloud == \/ Settles
         \/ TaskRuns
         \/ task.st = "running" /\ TaskDies

Next == \/ Cloud /\ UNCHANGED <<controllerVars, guardVars>>
        \/ ControllerNext /\ UNCHANGED guardVars
        \/ GuardNext

(* AWS finishes what it has begun and stops the tasks it was asked to stop; *)
(* the deadline comes, and then the schedule keeps starting passes. Nothing *)
(* is assumed of the controller, the tasks or the operator.                 *)
Fairness ==
    /\ WF_vars(UNCHANGED <<controllerVars, guardVars>> /\ Settles)
    /\ WF_watch(Pass)

Spec == Init /\ [][Next]_vars /\ Fairness

-----------------------------------------------------------------------------
(* native_application.py:30-69, native_retained.py:239-262 A restore brings *)
(* back nothing that was committed after the observation its point stands   *)
(* for, and with quiescent points exactly what was observed, whatever RDS   *)
(* truncates and however often the run was started.                         *)
RestoredAtPoint ==
    [][\A g \in Restores :
          ~ Exists(g) /\ Exists(g)' =>
              LET held == ctl.points[Call[3]].held
              IN  /\ led'[g] \subseteq held
                  /\ wf = "application" => led'[g] = held]_vars

(* native_app_tasks.py:259-354 The receiver gains an effect only from a     *)
(* control generation that knows all its other effects: never from one      *)
(* that is behind.                                                          *)
NoEffectBehind ==
    [][led'["receipts"] # led["receipts"] =>
          led["receipts"] \subseteq led[task.call.gen]]_vars

(* native_retained.py:178-228 Before the deadline the original control      *)
(* database is given up only when it agrees with the receipts, its backup   *)
(* is tagged for cleanup, the registry knows both owners, the checkpoint    *)
(* has been read back and no task is left that could still write.           *)
SourceGivenUpSafely ==
    [][db["control"] = "available" /\ db'["control"] = "deleting" /\ ~ late =>
          /\ led["receipts"] \subseteq led["control"]
          /\ backup.tag /\ store.prepared
          /\ {"control", "receipts"} \subseteq store.secrets
          /\ ~ Alive]_vars

(* native_watchdog.py:146-151 The key is not scheduled for deletion while a *)
(* database or a backup encrypted with it exists, also one that a delayed   *)
(* restore of the controller brings up behind the listing. The one case the *)
(* passes cannot see (native_deploy.py:121): a deployment that outlives the *)
(* deadline and asks for a database between a pass's listing and its sweep. *)
KeyOutlivesData ==
    res["key"] # "present" =>
        /\ Instances \subseteq deploy.unseen
        /\ backup.st # "none" => "control" \in deploy.unseen

(* native_finalize_guard.py:24,77, native_post_teardown.py:99-113 The guard *)
(* goes only after the runtime has gone, with its logs archived and nothing *)
(* in the bucket that was not; and when the last reader reports absence,    *)
(* nothing is there any more, nor comes back.                               *)
GuardOutlivesRuntime ==
    /\ guard.st \in {"gone", "erased"} =>
           /\ ActiveAbsent(Listing) /\ ~ store.fresh
           /\ (db["receipts"] = "gone" => store.logs)
    /\ guard.audit = "clear" => guard.st = "erased" /\ KindsOf(Listing) = {}

(* native_application.py:399-418 A workflow that passed has shown what it   *)
(* claims: a restored database behind the receipts refused, and for the     *)
(* application a matching one reopened with one effect for every intent.    *)
PassedMeansShown ==
    ctl.st = "passed" =>
        /\ ~ (led["receipts"] \subseteq led["behind"])
        /\ wf = "application" => /\ led["matching"] = led["receipts"]
                                 /\ "matching" \notin closed /\ "behind" \in closed

(* native_watchdog.py:57-167 After the deadline, whatever the controller    *)
(* left behind or still adds, the passes come to an end: nothing live.      *)
EventuallyClean == <>[]ActiveAbsent(Listing)
=============================================================================
