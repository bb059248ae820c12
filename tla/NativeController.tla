-------------------------- MODULE NativeController --------------------------
(***************************************************************************)
(* The acceptance controllers: native_run.py (SQL fixture, restored beside *)
(* its source), native_retained.py (the source deleted first, restored     *)
(* from its retained backup) and native_application.py (two restores, one  *)
(* behind and one matching). A workflow is the list of its calls; the      *)
(* controller may fail or be killed between any two, and be started again. *)
(*                                                                         *)
(* gate() is a step of its own before every call that changes AWS: the     *)
(* deadline may pass between the check and the call.                       *)
(***************************************************************************)
EXTENDS NativeTasks

CONSTANTS MaxFaults,    \* bound on restarts, failed deletions and cut-off passes
          MaxWindowLag  \* bound on how far ahead the restorable window may begin

ASSUME FaultsAssumption == MaxFaults \in Nat
ASSUME LagAssumption == MaxWindowLag \in Nat

VARIABLES ctl,          \* the controller process
          faults

controllerVars == <<ctl, faults>>
nativeVars == <<cloudVars, controllerVars>>

All == {"any"}          \* a ledger the controller does not compare
NoPoints == [i \in 1..2 |-> [at |-> 0, held |-> {}]]

-----------------------------------------------------------------------------
(* The calls of each workflow. Run names a task, the control generation it  *)
(* uses, the exit code and the ledgers the controller insists on.           *)
Run(name, gen, phase, exit, local, remote) ==
    << <<"run", [name |-> name, gen |-> gen, phase |-> phase, exit |-> exit], local, remote>> >>

Verify(gen, exit, local, remote) == Run("verify", gen, "none", exit, local, remote)

(* database() of each, with distinct resource ids; and instances() of       *)
(* exactly these two.                                                       *)
Each == << <<"each">> >>
Both == << <<"both">> >>

Fixture ==
    Each \o Run("bootstrap", "control", "none", 0, All, All) \o Verify("control", 0, {}, {})
    \o Run("baseline", "control", "none", 0, All, All) \o << <<"mark">> >>

Effects ==
    Run("control", "control", "none", 0, All, All)
    \o Run("receipt", "control", "fixture", 0, All, {"base"})
    \o Run("receipt", "control", "fixture", 0, All, {"base"})
    \o Verify("control", 0, {"base"}, {"base"})

Restore(g, p) == << <<"restore", g, p>>, <<"available", g>> >>

Beside == << <<"window", 1>> >> \o Restore("behind", 1)
          \o Verify("behind", 2, {}, {"base"}) \o Verify("control", 0, All, All)

Delete(g) == << <<"unprotect", g>>, <<"delete", g>>, <<"gone", g>> >>

(* delete_owned first makes sure of the owner secret.                       *)
DeleteOwned(g) == << <<"remember", g>> >> \o Delete(g)

\* Mutant of Retain: the registry is not told of the owners.
Unregistered == << <<"freeze">>, <<"tag">>, <<"checkpoint">> >>

(* Freeze writers; tag and register the backup; checkpoint. Only then is    *)
(* the source deleted.                                                      *)
Retain == << <<"freeze">>, <<"tag">>, <<"register">>, <<"checkpoint">> >>

Sql == Fixture \o Effects \o Beside

Retained ==
    Fixture \o << <<"window", 1>> >> \o Effects
    \o Both \o << <<"window", 1>> >> \o Verify("control", 0, {"base"}, {"base"})
    \o Retain \o Delete("control") \o << <<"retained">> >> \o Restore("behind", 1)
    \o Verify("behind", 2, {}, {"base"}) \o Verify("behind", 2, {}, {"base"})

Application ==
    LET five == {"base", "more"}
    IN  << <<"claim">> >> \o Both \o Run("bootstrap", "control", "none", 0, All, All)
        \o Run("receipt", "control", "source-preflight", 0, All, All)
        \o Run("baseline", "control", "none", 0, All, {"base"}) \o << <<"select", 1>> >>
        \o Run("control", "control", "none", 0, All, five) \o << <<"select", 2>> >>
        \o Verify("control", 0, five, five)
        \o Retain \o DeleteOwned("control") \o << <<"retained">> >>
        \o Restore("behind", 1) \o Run("receipt", "behind", "behind", 0, {"base"}, five)
        \o Verify("behind", 2, {"base"}, five) \o DeleteOwned("behind")
        \o Restore("matching", 2) \o Run("receipt", "matching", "matching", 0, All, All)
        \o Verify("matching", 0, Keys, Keys)

Program ==
    CASE wf = "sql" -> Sql
      [] wf = "retained" -> Retained
      [] wf = "application" -> Application

-----------------------------------------------------------------------------
Call == Program[ctl.pc]

(* points: the recovery points it has chosen, and what was there then.      *)
Idle == [pc |-> 1, st |-> "none", gated |-> FALSE, frozen |-> FALSE, print |-> All,
         points |-> NoPoints]

ControllerInit ==
    /\ ctl = Idle /\ faults = 0

At(op) == ctl.st = "run" /\ Call[1] = op

Advances(c) ==
    ctl' = IF ctl.pc = Len(Program) THEN [Idle EXCEPT !.st = "passed"]
           ELSE [c EXCEPT !.pc = @ + 1, !.gated = FALSE, !.st = "run"]

(* What a failed process knew is lost.                                      *)
Fails == ctl' = [Idle EXCEPT !.st = "failed"]

(* Start or restart, with a manifest that has not expired: the output of a  *)
(* finished deployment, which names its task definitions. A task whose stop *)
(* was requested has been confirmed to have stopped.                        *)
Start ==
    /\ \/ ctl.st = "none" /\ UNCHANGED faults
       \/ ctl.st = "failed" /\ faults < MaxFaults /\ faults' = faults + 1
    /\ res["task_definition"] = "present" /\ ~ late /\ task.st # "stopping"
    /\ ctl' = [Idle EXCEPT !.st = "run"]
    /\ UNCHANGED cloudVars

Acting == {"run", "claim", "tag", "remember", "unprotect", "delete", "restore"}

(* armed_gate: account, credits, the armed schedule and watchdog, and the   *)
(* deadline; followed by drained, which lists tasks by desired status.      *)
Gate ==
    /\ ctl.st = "run" /\ Call[1] \in Acting /\ ~ ctl.gated
    /\ IF late \/ Listed THEN Fails ELSE ctl' = [ctl EXCEPT !.gated = TRUE]
    /\ UNCHANGED cloudVars

(* preserve_task_observation: what is known of a task goes to the bucket,   *)
(* without a gate, when it has been launched, before its result is accepted *)
(* or refused, and when its launch or the wait for it failed.               *)
PreserveObservation ==
    /\ store.bucket
    /\ store' = [store EXCEPT !.fresh = TRUE]

(* A call of the workflow raises, or the controller is killed. It may have  *)
(* lost the answer of run_task, or have asked for its task to be stopped.   *)
ControllerFails ==
    /\ ctl.st \in {"run", "await"} /\ Fails
    /\ \/ UNCHANGED task
       \/ ctl.st = "await" /\ Listed /\ task' = [task EXCEPT !.st = "stopping"]
       \/ At("run") /\ ctl.gated /\ ~ Alive
          /\ task' = [NoTask EXCEPT !.call = Call[2], !.st = "running"]
    /\ \/ UNCHANGED store
       \/ (ctl.st = "await" \/ (At("run") /\ ctl.gated)) /\ PreserveObservation
    /\ UNCHANGED <<wf, db, prot, led, closed, at, now, backup, ran, res, late>>

(* The claim of an application run is written once, whatever became of the  *)
(* run.                                                                     *)
Claim ==
    /\ At("claim") /\ ctl.gated /\ store.bucket
    /\ IF store.claim THEN Fails /\ UNCHANGED store
       ELSE Advances(ctl) /\ store' = [store EXCEPT !.claim = TRUE, !.fresh = TRUE]
    /\ UNCHANGED <<wf, db, prot, led, closed, at, now, backup, task, ran, res, late>>

RequireBoth ==
    /\ ctl.st = "run" /\ Call[1] \in {"each", "both"}
    /\ IF /\ db["control"] = "available" /\ db["receipts"] = "available"
          /\ Call[1] = "both" => Instances = {"control", "receipts"}
       THEN Advances(ctl) ELSE Fails
    /\ UNCHANGED cloudVars

(* task(): refused while writers are frozen, except verify and the          *)
(* maintenance of a restored generation. ECS may answer a client token it   *)
(* knows with the task it launched before.                                  *)
Maintenance(c) == c.name = "verify" \/ c.phase \in Restores

Launch ==
    LET c == Call[2]
    IN  /\ At("run") /\ ctl.gated
        /\ ctl.frozen => Maintenance(c)
        /\ res["cluster"] = "present" /\ ~ Alive
        /\ ctl' = [ctl EXCEPT !.st = "await", !.gated = FALSE]
        /\ \/ task' = [NoTask EXCEPT !.call = c, !.st = "running"]
           \/ \E r \in ran : r[1] = c
                  /\ task' = [NoTask EXCEPT !.call = c, !.st = "stopped", !.out = r[2]]
        /\ PreserveObservation
        /\ UNCHANGED <<wf, db, prot, led, closed, at, now, backup, ran, res, late>>

\* Mutant of Accepted: neither exit code nor evidence is looked at.
AnyAnswer(out) == ~ late

(* verify_reconciliation, verify_result: the counts the step insists on.    *)
AsExpected(out) ==
    /\ Call[3] # All => out.local = Call[3]
    /\ Call[4] # All => out.remote = Call[4]

(* verify_receipts: the receipts unchanged since writers were frozen,       *)
(* except by the resumed recovery.                                          *)
ReceiptsKept(out) ==
    ctl.print # All /\ Call[2].gen # "matching" => out.remote = ctl.print

(* The result: a second gate, the exit code, then the evidence.             *)
Accepted(out) ==
    ~ late /\ out.exit = Call[2].exit /\ AsExpected(out) /\ ReceiptsKept(out)

AwaitResult ==
    /\ ctl.st = "await" /\ task.st = "stopped"
    /\ PreserveObservation
    /\ IF Accepted(task.out) THEN Advances(ctl) ELSE Fails
    /\ UNCHANGED <<wf, db, prot, led, closed, at, now, backup, task, ran, res, late>>

(* The baseline of the SQL workflows is the clock the task reported.        *)
Mark ==
    /\ At("mark")
    /\ Advances([ctl EXCEPT !.points[1] = [at |-> task.out.at, held |-> task.out.local]])
    /\ UNCHANGED cloudVars

(* wait_window: polls until the source can be restored to a point.          *)
WaitsFor(point) == now' = IF now > point THEN now ELSE point + 1

(* restorable_window and backup: the source's own window, still active.     *)
Window ==
    /\ At("window")
    /\ IF late \/ db["control"] # "available" THEN Fails /\ UNCHANGED now
       ELSE WaitsFor(ctl.points[Call[2]].at) /\ Advances(ctl)
    /\ UNCHANGED <<wf, db, prot, led, closed, at, backup, task, ran, res, late, store>>

Latest(s, t) == IF s > t THEN s ELSE t

\* Mutant of QuiescentPoint: the second of the observation itself.
ObservedSecond(t, earliest) == Latest((t \div 2) * 2, (earliest \div 2) * 2 + 2)
(* quiescent_point: the whole second of the observation plus two seconds,   *)
(* or the second after the earliest restorable one when that is later.      *)
QuiescentPoint(t, earliest) == Latest((t \div 2) * 2 + 4, (earliest \div 2) * 2 + 2)

SelectPoint ==
    /\ At("select")
    /\ \E earliest \in 0..(now + MaxWindowLag) :
        LET p == QuiescentPoint(task.out.at, earliest)
        IN  IF \/ late \/ ~ store.bucket \/ db["control"] # "available"
               \/ Call[2] = 2 /\ p <= ctl.points[1].at
            THEN Fails /\ UNCHANGED <<now, store>>
            ELSE /\ Advances([ctl EXCEPT !.points[Call[2]] =
                                 [at |-> p, held |-> task.out.local]])
                 /\ WaitsFor(p)
                 /\ store' = [store EXCEPT !.fresh = TRUE]
    /\ UNCHANGED <<wf, db, prot, led, closed, at, backup, task, ran, res, late>>

(* writes_frozen, with the receipts' fingerprint of the last verify; the    *)
(* key enabled, an old enough snapshot, no replicas.                        *)
Freeze ==
    /\ At("freeze")
    /\ IF res["key"] = "present"
       THEN Advances([ctl EXCEPT !.frozen = TRUE, !.print = task.out.remote]) ELSE Fails
    /\ UNCHANGED cloudVars

TagBackup ==
    /\ At("tag") /\ ctl.gated
    /\ IF backup.st = "active" THEN Advances(ctl) /\ backup' = [backup EXCEPT !.tag = TRUE]
       ELSE Fails /\ UNCHANGED backup
    /\ UNCHANGED <<wf, db, prot, led, closed, at, now, task, ran, res, late, store>>

(* Both databases and their owner secrets join the registry, if nobody has  *)
(* written it in between (IfMatch).                                         *)
Register ==
    /\ At("register") /\ store.bucket
    /\ store' = [store EXCEPT !.secrets = @ \union {"control", "receipts"}, !.fresh = TRUE]
    /\ Advances(ctl)
    /\ UNCHANGED <<wf, db, prot, led, closed, at, now, backup, task, ran, res, late>>

(* The checkpoint before deletion, read back.                               *)
Checkpoint ==
    /\ At("checkpoint") /\ store.bucket
    /\ store' = [store EXCEPT !.prepared = TRUE, !.fresh = TRUE]
    /\ Advances(ctl)
    /\ UNCHANGED <<wf, db, prot, led, closed, at, now, backup, task, ran, res, late>>

(* remember and the checkpoint of the deletion that is intended: a restored *)
(* generation has no managed owner secret.                                  *)
Remember ==
    /\ At("remember") /\ ctl.gated /\ store.bucket
    /\ store' = [store EXCEPT !.secrets = @ \union ({Call[2]} \ Restores), !.fresh = TRUE]
    /\ Advances(ctl)
    /\ UNCHANGED <<wf, db, prot, led, closed, at, now, backup, task, ran, res, late>>

(* The generation that is to go: same identity, tags and windows still      *)
(* there; its owner secret remembered.                                      *)
Deletable(g) ==
    /\ db[g] = "available"
    /\ g = "control" => backup.st = "active" /\ backup.tag

Unprotect ==
    LET g == Call[2]
    IN  /\ At("unprotect") /\ ctl.gated
        /\ IF Deletable(g) /\ ~ Listed THEN Advances(ctl) /\ prot' = prot \ {g}
           ELSE Fails /\ UNCHANGED prot
        /\ UNCHANGED <<wf, db, led, closed, at, now, backup, task, ran, res, late, store>>

(* The original control database leaves its backups behind.                 *)
WithoutBackups(g) == DeleteInstance(g, g = "control")

DeleteGeneration ==
    LET g == Call[2]
    IN  /\ At("delete") /\ ctl.gated
        /\ \/ Deletable(g) /\ ~ Listed /\ WithoutBackups(g) /\ Advances(ctl)
           \/ (~ Deletable(g) \/ Listed \/ g \in prot) /\ Fails /\ UNCHANGED <<db, backup>>
        /\ UNCHANGED <<wf, prot, led, closed, at, now, task, ran, res, late, store>>

(* Polls with a gate of their own: the instance has gone, leaving only the  *)
(* receipts; the backup is retained and still covers the points; a restored *)
(* instance is available.                                                   *)
Polled ==
    \/ Call[1] = "gone" /\ db[Call[2]] = "gone" /\ Instances = {"receipts"}
    \/ Call[1] = "retained" /\ backup.st = "retained" /\ backup.tag
    \/ Call[1] = "available" /\ db[Call[2]] = "available"

Poll ==
    /\ ctl.st = "run" /\ Call[1] \in {"gone", "retained", "available"}
    /\ \/ late /\ Fails
       \/ ~ late /\ Polled /\ Advances(ctl)
    /\ UNCHANGED cloudVars

(* Never a third instance, except in the SQL workflow, which restores       *)
(* beside its source.                                                       *)
RoomFor(g) == wf = "sql" \/ Instances = {"receipts"}

RestoreGeneration ==
    LET g == Call[2]
    IN  /\ At("restore") /\ ctl.gated
        /\ RoomFor(g) /\ RestoreTo(g, ctl.points[Call[3]].at) /\ Advances(ctl)
        /\ UNCHANGED <<wf, closed, at, now, backup, task, ran, res, late, store>>

ControllerNext ==
    \/ Start
    \/ /\ \/ Gate \/ ControllerFails \/ Claim \/ RequireBoth \/ Launch \/ AwaitResult
          \/ Mark \/ Window \/ SelectPoint \/ Freeze
          \/ TagBackup \/ Register \/ Checkpoint \/ Remember
          \/ Unprotect \/ DeleteGeneration \/ Poll \/ RestoreGeneration
       /\ UNCHANGED faults
=============================================================================
