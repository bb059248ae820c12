------------------------------ MODULE Release -------------------------------
(***************************************************************************)
(* The release controller (release.py), the restore request (restore.py)   *)
(* and the migration task they run (Bootstrap), over ECS services and      *)
(* one-off tasks. One operator runs one command at a time, confirms that a *)
(* task whose stop was requested has gone before the next command, and     *)
(* otherwise may run any command after any other: the code of a command is *)
(* the list of its calls, any of which may fail, and the controller may be *)
(* killed between two of them.                                             *)
(***************************************************************************)
EXTENDS Bootstrap

CONSTANTS Approved,     \* releases whose task revisions match their manifest
          Rejected,     \* releases whose task revisions do not
          MaxCommands   \* bound on the commands of the operator

Releases == Approved \union Rejected
Services == {"api", "remote", "worker", "observer"}
Utilities == {"migration", "verifier"}
Actions == {"deploy", "quiesce", "verify", "resume", "rollback"}

ASSUME ReleaseAssumption == /\ Approved # {}
                            /\ Approved \intersect Rejected = {}
                            /\ MaxCommands \in Nat
                            /\ Services \subseteq RuntimeKeys

VARIABLES svc,          \* ECS: the services
          job,          \* ECS: the one-off tasks
          cmd,          \* the command being run, or the last one
          safe,         \* control databases that agree with the receiver
          restored      \* the instance restore.py has asked for exists

releaseVars == <<svc, job, cmd, safe, restored>>
vars == <<bootVars, releaseVars>>

-----------------------------------------------------------------------------
(* The calls of each command, in order.                                     *)
Quiesce == << <<"stop", "api">>, <<"stop", "worker">>, <<"stop", "remote">>,
              <<"stop", "observer">>, <<"stable", "all">>, <<"drained", "all">> >>

Utility(n) == << <<"run", n>>, <<"await", n>> >>

Opening(s) == << <<"start", s>>, <<"steady", s>> >>

\* Mutant of Verified: no verifier task is run.
Unverified == << <<"tasks", "all">>, <<"drained", "all">>, <<"drained", "all">> >>

Verified == << <<"tasks", "all">>, <<"drained", "all">> >> \o Utility("verifier")
            \o << <<"drained", "all">> >>

Resume == Verified \o Opening("remote") \o Opening("api") \o Opening("worker")
          \o Opening("observer")

Calls(act) ==
    << <<"tasks", "all">> >> \o
    CASE act = "quiesce" -> Quiesce
      [] act = "deploy" -> Quiesce \o Utility("migration") \o Resume
      [] act = "rollback" -> Quiesce \o Resume
      [] act = "resume" -> Resume
      [] act = "verify" -> << <<"drained", "all">> >> \o Utility("verifier")

Ops == {"stop", "stable", "drained", "run", "await", "start", "steady", "tasks"}

TypeOK ==
    /\ BootTypeOK
    /\ svc \in [Services -> [want : BOOLEAN, up : BOOLEAN, rel : Releases, prev : Releases,
                            doc : Stored]]
    /\ job \in [Utilities -> [st : {"none", "running", "stopping", "stopped"}, exit : {0, 1}]]
    /\ cmd \in [act : Actions, rel : Releases, n : 0 .. MaxCommands,
                todo : Seq(Ops \X (Services \union Utilities \union {"all"})),
                st : {"running", "failing", "failed", "completed"}]
    /\ safe \subseteq ControlHosts
    /\ restored \in BOOLEAN

-----------------------------------------------------------------------------
NoTask == [st |-> "none", exit |-> 0]

Init ==
    /\ BootInit
    /\ \E r \in Approved :
        /\ svc = [s \in Services |-> [want |-> FALSE, up |-> FALSE, rel |-> r,
                                      prev |-> r, doc |-> NoDocument]]
        /\ cmd = [act |-> "quiesce", rel |-> r, todo |-> <<>>, st |-> "completed", n |-> 0]
    /\ job = [u \in Utilities |-> NoTask]
    /\ safe = {"first"}
    /\ restored = FALSE

Busy == cmd.st \in {"running", "failing"}

(* The operator gives a command. A task whose stop was requested has been   *)
(* confirmed to have stopped, as utility's error asks.                      *)
Command ==
    \E act \in Actions, r \in Releases :
        /\ ~ Busy /\ cmd.n < MaxCommands
        /\ \A u \in Utilities : job[u].st # "stopping"
        /\ cmd' = [act |-> act, rel |-> r, todo |-> Calls(act), st |-> "running",
                   n |-> cmd.n + 1]
        /\ UNCHANGED <<bootVars, svc, job, safe, restored>>

(* The next call of the command has succeeded.                              *)
Done ==
    cmd' = [cmd EXCEPT !.todo = Tail(@),
                       !.st = IF Len(cmd.todo) > 1 THEN @
                              ELSE IF @ = "failing" THEN "failed" ELSE "completed"]

(* The next call has raised. From the first service start on, resume        *)
(* answers with quiesce and fails afterwards.                               *)
Raised ==
    cmd' = IF cmd.st = "running" /\ Head(cmd.todo)[1] \in {"start", "steady"}
           THEN [cmd EXCEPT !.todo = Quiesce, !.st = "failing"]
           ELSE [cmd EXCEPT !.todo = <<>>, !.st = "failed"]

Pending(op) == Busy /\ Head(cmd.todo)[1] = op
Arg == Head(cmd.todo)[2]

(* validate_tasks: every revision carries the image, the commit, the        *)
(* command and the environment of the manifest.                             *)
ValidateTasks ==
    /\ Pending("tasks")
    /\ IF cmd.rel \in Approved THEN Done ELSE Raised
    /\ UNCHANGED <<bootVars, svc, job, safe, restored>>

StopService ==
    /\ Pending("stop")
    /\ svc' = [svc EXCEPT ![Arg].want = FALSE]
    /\ Done
    /\ UNCHANGED <<bootVars, job, safe, restored>>

AwaitStable ==
    /\ Pending("stable")
    /\ \A s \in Services : svc[s].up = svc[s].want
    /\ Done
    /\ UNCHANGED <<bootVars, svc, job, safe, restored>>

\* Mutant of Drained: one-off tasks are not looked at.
ServicesDrained == \A s \in Services : ~ svc[s].want /\ ~ svc[s].up

(* What assert_drained can see: a task whose stop was requested is not      *)
(* among those with the desired status RUNNING.                             *)
Drained ==
    /\ \A s \in Services : ~ svc[s].want /\ ~ svc[s].up
    /\ \A u \in Utilities : job[u].st # "running"

AssertDrained ==
    /\ Pending("drained")
    /\ IF Drained THEN Done ELSE Raised
    /\ UNCHANGED <<bootVars, svc, job, safe, restored>>

RunTask ==
    /\ Pending("run")
    /\ job' = [job EXCEPT ![Arg] = [st |-> "running", exit |-> 0]]
    /\ Done
    /\ IF Arg = "migration" THEN BootStart ELSE UNCHANGED bootVars
    /\ UNCHANGED <<svc, safe, restored>>

AwaitTask ==
    /\ Pending("await")
    /\ job[Arg].st = "stopped"
    /\ IF job[Arg].exit = 0 THEN Done ELSE Raised
    /\ job' = [job EXCEPT ![Arg] = NoTask]
    /\ UNCHANGED <<bootVars, svc, safe, restored>>

StartService ==
    /\ Pending("start")
    /\ svc' = [svc EXCEPT ![Arg].want = TRUE, ![Arg].rel = cmd.rel]
    /\ Done
    /\ UNCHANGED <<bootVars, job, safe, restored>>

\* Mutant of Steady: a stable service is taken for the new one.
StableIsEnough(s) == TRUE
(* Stable may also mean that the circuit breaker has rolled the service     *)
(* back: the revision is compared.                                          *)
Steady(s) == svc[s].rel = cmd.rel

AwaitSteady ==
    /\ Pending("steady")
    /\ svc[Arg].up = svc[Arg].want
    /\ IF Steady(Arg) THEN Done ELSE Raised
    /\ UNCHANGED <<bootVars, svc, job, safe, restored>>

(* A call or a waiter of the command raises. A wait for a one-off task asks *)
(* for the task to be stopped, which may fail as well; a task may have been *)
(* launched although the answer was lost.                                   *)
CallFails ==
    /\ Busy /\ Raised
    /\ \/ UNCHANGED <<bootVars, job>>
       \/ /\ Pending("await") /\ job[Arg].st = "running"
          /\ job' = [job EXCEPT ![Arg].st = "stopping"]
          /\ UNCHANGED bootVars
       \/ /\ Pending("run")
          /\ job' = [job EXCEPT ![Arg] = [st |-> "running", exit |-> 0]]
          /\ IF Arg = "migration" THEN BootStart ELSE UNCHANGED bootVars
    /\ UNCHANGED <<svc, safe, restored>>

(* The controller is killed: no quiesce, no record.                         *)
ControllerDies ==
    /\ Busy
    /\ cmd' = [cmd EXCEPT !.todo = <<>>, !.st = "failed"]
    /\ UNCHANGED <<bootVars, svc, job, safe, restored>>

-----------------------------------------------------------------------------
(* ECS carries a service to its desired count; its tasks configure          *)
(* themselves from the secret of the moment, and need one.                  *)
ServiceSettles(s) ==
    /\ svc[s].up # svc[s].want
    /\ svc[s].want => secret[s] # NoDocument
    /\ svc' = [svc EXCEPT ![s].up = svc[s].want,
                          ![s].prev = IF svc[s].want THEN svc[s].rel ELSE @,
                          ![s].doc = IF svc[s].want THEN secret[s] ELSE NoDocument]
    /\ UNCHANGED <<bootVars, job, cmd, safe, restored>>

(* The deployment circuit breaker gives up on a revision that does not      *)
(* start and goes back to the last one that did.                            *)
RolledBack(s) ==
    /\ svc[s].want /\ ~ svc[s].up /\ svc[s].rel # svc[s].prev
    /\ svc' = [svc EXCEPT ![s].rel = svc[s].prev]
    /\ UNCHANGED <<bootVars, job, cmd, safe, restored>>

Alive(u) == job[u].st \in {"running", "stopping"}

Exits(u, code) == job' = [job EXCEPT ![u] = [st |-> "stopped", exit |-> code]]

MigrationRuns ==
    /\ Alive("migration") /\ BootStep
    /\ UNCHANGED <<svc, job, cmd, safe, restored>>

MigrationExits ==
    /\ Alive("migration")
    /\ \/ boot.st = "done" /\ Exits("migration", 0) /\ UNCHANGED bootVars
       \/ boot.st = "dead" /\ Exits("migration", 1) /\ UNCHANGED bootVars
       \/ BootDies /\ Exits("migration", 1)
    /\ UNCHANGED <<svc, cmd, safe, restored>>

(* The verifier task: it must be able to log in to the two databases its    *)
(* secret names, and they must agree.                                       *)
Proved ==
    LET d == secret["verifier"]
    IN  /\ d # NoDocument
        /\ login[d.host]["verifier"] = d.pw /\ login["receiver"]["verifier"] = d.pw
        /\ ready[d.host] = "granted" /\ ready["receiver"] = "granted"
        /\ d.host \in safe

VerifierExits ==
    /\ Alive("verifier")
    /\ \/ Proved /\ Exits("verifier", 0)
       \/ Exits("verifier", 1)
    /\ UNCHANGED <<bootVars, svc, cmd, safe, restored>>

(* restore.py: only from a drained cluster, into a new instance. It holds   *)
(* the roles, passwords and schema of its point in time, and may be behind  *)
(* the receiver (an earlier point is what an earlier request restores).     *)
RestoreRequest ==
    /\ Drained /\ ~ restored
    /\ restored' = TRUE
    /\ login' = [login EXCEPT !["restored"] = login["first"]]
    /\ ready' = [ready EXCEPT !["restored"] = ready["first"]]
    /\ \/ safe' = safe
       \/ "first" \in safe /\ safe' = safe \union {"restored"}
    /\ UNCHANGED <<secret, bound, boot, svc, job, cmd>>

(* Terraform binds the restored instance: a new revision of the migration   *)
(* task, nothing that runs is touched.                                      *)
BindRestored ==
    /\ restored /\ bound # "restored"
    /\ bound' = "restored"
    /\ UNCHANGED <<secret, login, ready, boot, releaseVars>>

(* The recovery coordinator reconciles the bound database while the cluster *)
(* is closed.                                                               *)
Reconcile ==
    /\ Drained /\ bound \notin safe
    /\ safe' = safe \union {bound}
    /\ UNCHANGED <<bootVars, svc, job, cmd, restored>>

(* A worker on one control database commits an effect at the receiver: the  *)
(* other control database knows nothing of it.                              *)
Effect ==
    LET d == svc["worker"].doc
    IN  /\ svc["worker"].up /\ svc["remote"].up
        /\ login[d.host]["worker"] = d.pw
        /\ safe' = safe \intersect {d.host}
        /\ UNCHANGED <<bootVars, svc, job, cmd, restored>>

Next ==
    \/ Command \/ ValidateTasks \/ StopService \/ AwaitStable \/ AssertDrained
    \/ RunTask \/ AwaitTask \/ StartService \/ AwaitSteady \/ CallFails \/ ControllerDies
    \/ \E s \in Services : ServiceSettles(s) \/ RolledBack(s)
    \/ MigrationRuns \/ MigrationExits \/ VerifierExits
    \/ RestoreRequest \/ BindRestored \/ Reconcile \/ Effect

Spec == Init /\ [][Next]_vars

-----------------------------------------------------------------------------
Up == {s \in Services : svc[s].up}

(* release.py:127-130 A completed command that opens the cluster leaves     *)
(* every service running the approved revision that was asked for, whatever *)
(* ECS has rolled back on the way.                                          *)
CompletedIsDeployed ==
    cmd.st = "completed" /\ cmd.act \in {"deploy", "resume", "rollback"} =>
        \A s \in Services : svc[s].want /\ svc[s].up /\ svc[s].rel = cmd.rel
                            /\ cmd.rel \in Approved

(* release.py:70 No service is wanted or up while a one-off task runs, also *)
(* one that a killed controller left behind: the verifier compares a        *)
(* quiescent pair and the migration rewrites no credential in use.          *)
UtilityAlone == (\E u \in Utilities : job[u].st = "running") => Up = {}

(* cloud.py:103 However often bootstrap is interrupted, the two holders of  *)
(* the executor token agree, so that its comparison never locks it out.     *)
TokensSurvive ==
    (\A k \in Sharing : secret[k] # NoDocument) => secret["worker"].tok = secret["remote"].tok

(* cloud.py:86 After a bootstrap that finished, every running service holds *)
(* a DSN of the database that was bound, the password its role has there    *)
(* and a schema with its grants.                                            *)
CredentialsAgree ==
    boot.st = "done" => \A s \in Up : /\ svc[s].doc.host = HostFor(s)
                                      /\ login[svc[s].doc.host][s] = svc[s].doc.pw
                                      /\ ready[svc[s].doc.host] = "granted"

(* release.py:119 After a bootstrap that finished, services run only on a   *)
(* control database that agrees with the receiver.                          *)
ServicesReconciled ==
    boot.st = "done" => \A s \in Up \ {"remote"} : svc[s].doc.host \in safe

(* README.md:97 Missing intents and receipts keep services closed: a        *)
(* service that has started never uses a control database that is behind.   *)
ClosedWhileBehind == \A s \in Up \ {"remote"} : svc[s].doc.host \in safe
=============================================================================
