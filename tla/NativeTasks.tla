---------------------------- MODULE NativeTasks -----------------------------
(***************************************************************************)
(* The one-off tasks of the acceptance workflows: native_tasks.py for the  *)
(* SQL fixture, native_app_tasks.py for the application. A task is the     *)
(* list of its committed steps; it may be killed before any of them.       *)
(***************************************************************************)
EXTENDS NativeCloud

(* The bootstrap of a workflow: the migration task of Bootstrap.tla, for    *)
(* the application with the coordinator's own secret and role.              *)
BootstrapSteps == << <<"fill">>, <<"report">> >>

(* control_fixture, receipt_fixture, baseline and verify of the SQL task.   *)
FixtureSteps(call) ==
    CASE call.name = "control" -> << <<"intent", "base">>, <<"report">> >>
      [] call.name = "receipt" -> << <<"effect", "base">>, <<"report">> >>
      [] OTHER -> << <<"report">> >>

(* preflight: empty ledgers, and recovery writes that are rolled back.      *)
Preflight == << <<"remote", {}>>, <<"empty">>, <<"report">> >>

(* seed: a normal effect, one whose acknowledgement is lost and one whose   *)
(* worker is killed; the intents commit before the effects.                 *)
Seed == << <<"remote", {}>>, <<"empty">>, <<"propose", "base">>, <<"once", "base">>,
           <<"report">> >>

Advance == << <<"remote", {"base"}>>, <<"propose", "more">>, <<"once", "more">>,
              <<"report">> >>

(* recover, up to the verdict: begin closes the gate before anything else.  *)
Closing == << <<"remote", {"base", "more"}>>, <<"close">> >>

\* Mutant of RecoverBehind: resumed without the verdict of the comparison.
RecoverAnyway ==
    Closing \o << <<"resume">>, <<"propose", "new">>, <<"once", "new">>, <<"report">> >>

RecoverBehind == Closing \o << <<"behind">>, <<"refused">>, <<"report">> >>

(* recover of a matching database: approval, a stale approval refused, a    *)
(* second one, resume, receipts recovered, one new effect.                  *)
RecoverMatching ==
    Closing \o << <<"matches">>, <<"resume">>, <<"propose", "new">>, <<"once", "new">>,
                  <<"report">> >>

ApplicationSteps(call) ==
    CASE call.name = "baseline" -> Seed
      [] call.name = "control" -> Advance
      [] call.phase = "source-preflight" -> Preflight
      [] call.phase = "behind" -> RecoverBehind
      [] call.phase = "matching" -> RecoverMatching
      [] OTHER -> << <<"report">> >>

Steps(call) ==
    IF call.name = "bootstrap" THEN BootstrapSteps
    ELSE IF wf = "application" THEN ApplicationSteps(call) ELSE FixtureSteps(call)

Step == Steps(task.call)[task.pc]

(* The verdict of operations.recovery_snapshot, and of                      *)
(* runtime_acceptance_snapshot, which also wants the gate open.             *)
Comparable(g) == led["receipts"] \subseteq led[g]
SafeToResume(g) == Comparable(g) /\ g \notin closed

(* The single result line, and the exit code: 2 for a refused verify.       *)
Outcome ==
    LET g == task.call.gen
    IN  [exit |-> IF task.call.name = "verify" /\ ~ SafeToResume(g) THEN 2 ELSE 0,
         at |-> now, local |-> led[g], remote |-> led["receipts"], closed |-> g \in closed]

Ended(out) ==
    /\ task' = [task EXCEPT !.st = "stopped", !.pc = 1, !.out = out]
    /\ ran' = IF late \/ \E r \in ran : r[1] = task.call THEN ran
              ELSE ran \union {<<task.call, out>>}

Continue == task' = [task EXCEPT !.pc = @ + 1] /\ UNCHANGED ran

(* A condition of the task: the task fails closed when it does not hold.    *)
Requires(cond) == IF cond THEN Continue ELSE Ended(NoOutcome)

Gen == task.call.gen
Op == Step[1]
Operand == Step[2]

(* load_dsns, configure: every task but bootstrap starts from the secrets,  *)
(* and without a version of each, or once they are being deleted, it fails. *)
Configured == task.call.name = "bootstrap" \/ res["secret"] = "present"

Unconfigured ==
    /\ task.pc = 1 /\ ~ Configured /\ Ended(NoOutcome)
    /\ UNCHANGED <<led, closed, at, now, res>>

(* Missing secrets are written, those that are there kept; then the roles.  *)
FillSecrets ==
    /\ Op = "fill" /\ Requires(res["secret"] \in {"empty", "present"})
    /\ res' = [res EXCEPT !["secret"] = IF @ = "empty" THEN "present" ELSE @]
    /\ UNCHANGED <<led, closed, at, now>>

Recorded(k) ==
    /\ led' = [led EXCEPT ![Gen] = @ \union {k}]
    /\ now' = now + 1
    /\ at' = [at EXCEPT ![k] = now']

(* control_fixture: one key for the whole run, an intent that is there      *)
(* already stays as it is.                                                  *)
CommitIntent ==
    /\ Op = "intent" /\ Continue
    /\ IF Operand \in led[Gen] THEN UNCHANGED <<led, at, now>> ELSE Recorded(Operand)
    /\ UNCHANGED closed

(* receipt_fixture: the document comes from the control task, and is        *)
(* inserted once.                                                           *)
CommitEffect ==
    /\ Op = "effect" /\ Continue
    /\ led' = [led EXCEPT !["receipts"] = @ \union {Operand}]
    /\ UNCHANGED <<closed, at, now>>

(* A proposal through the API of the task's runtime: refused while the gate *)
(* is closed.                                                               *)
Propose ==
    /\ Op = "propose" /\ Requires(Gen \notin closed)
    /\ IF Gen \in closed THEN UNCHANGED <<led, at, now>> ELSE Recorded(Operand)
    /\ UNCHANGED closed

(* A worker process of the task's runtime: it commits the effect of a known *)
(* intent, acknowledged or not, and may be terminated after that.           *)
Once ==
    LET may == Gen \notin closed /\ Operand \in led[Gen]
    IN  /\ Op = "once" /\ Requires(may)
        /\ led' = IF may THEN [led EXCEPT !["receipts"] = @ \union {Operand}] ELSE led
        /\ UNCHANGED <<closed, at, now>>

CloseGate ==
    /\ Op = "close" /\ Continue
    /\ closed' = closed \union {Gen} /\ UNCHANGED <<led, at, now>>

ReopenGate ==
    /\ Op = "resume" /\ Continue
    /\ closed' = closed \ {Gen} /\ UNCHANGED <<led, at, now>>

(* What a task insists on before it goes on: the receipts it starts from,   *)
(* two empty ledgers behind an open gate, a verdict of verify, a gate that  *)
(* is still closed.                                                         *)
Checks ==
    /\ \/ Op = "remote" /\ Requires(led["receipts"] = Operand)
       \/ Op = "empty" /\ Requires(led[Gen] = {} /\ Gen \notin closed)
       \/ Op = "behind" /\ Requires(~ Comparable(Gen))
       \/ Op = "refused" /\ Requires(Gen \in closed)
       \/ Op = "matches" /\ Requires(Comparable(Gen))
    /\ UNCHANGED <<led, closed, at, now>>

Report ==
    /\ Op = "report" /\ Ended(Outcome)
    /\ UNCHANGED <<led, closed, at, now>>

TaskRuns ==
    /\ Alive /\ db[Gen] = "available" /\ db["receipts"] = "available"
    /\ \/ Unconfigured
       \/ FillSecrets
       \/ /\ task.pc > 1 \/ Configured
          /\ \/ CommitIntent \/ CommitEffect \/ Propose \/ Once
             \/ CloseGate \/ ReopenGate \/ Checks \/ Report
          /\ UNCHANGED res
    /\ UNCHANGED <<wf, db, prot, backup, late, store>>

(* The task fails, loses a database or is killed.                           *)
TaskDies ==
    /\ Alive /\ Ended(NoOutcome)
    /\ UNCHANGED <<wf, db, prot, led, closed, at, now, backup, res, late, store>>
=============================================================================
