------------------------------ MODULE Recovery ------------------------------
(***************************************************************************)
(* The recovery gate (recovery.sql) and its coordinator (recovery.py):     *)
(* closing work, proving that the restored control database agrees with    *)
(* the independent receiver and with the authoritative sources, approving  *)
(* that proof and reopening on the same evidence.                          *)
(*                                                                         *)
(* The gate row is a readers-writer lock.  A business transaction holds it *)
(* FOR SHARE from its first statement until it commits; the coordinator    *)
(* holds it FOR UPDATE through verify, approve and resume.  The receiver   *)
(* is another database: its effects land under no lock at all.             *)
(*                                                                         *)
(* The control database may be restored to an earlier point, gate,         *)
(* sessions and proofs included, or its server restarted; either changes   *)
(* the identity that a session is bound to.                                *)
(***************************************************************************)
EXTENDS Naturals, FiniteSets

CONSTANTS
    Keys,           \* request ids: job and effect keys
    Facts,          \* one per customer and authority field (consent, suppressed)
    Writers,        \* connections of the runtime (API and workers)
    Sessions,       \* recovery session ids
    Proofs,         \* proof ids
    None,           \* an absent row or column
    MaxGenerations, \* bound: restores and restarts of the control database
    MaxWrites       \* bound: business transactions that change a row

ASSUME RecoveryAssumption ==
    /\ None \notin Sessions
    /\ None \notin Proofs
    /\ MaxGenerations \in Nat
    /\ MaxWrites \in Nat

VARIABLES
    db,         \* the control database: schema cp
    backup,     \* the committed state a restore goes back to
    generation, \* identity of the running control database
    unguarded,  \* restored and no session begun since: services stay down
    running,    \* registered runtime processes are up
    clock,      \* counts business writes: time for received_at and created_at
    verdicts,   \* what each open business transaction read from the gate
    tx,         \* the coordinator's transaction, holder of the exclusive lock
    flying,     \* effects sent to the receiver and not handled yet
    receipts,   \* remote.effects
    aged,       \* proofs older than 90 seconds
    drawn,      \* session and proof ids ever drawn (uuid4 never repeats)
    openers     \* auxiliary: sessions that have opened the gate

vars == <<db, backup, generation, unguarded, running, clock, verdicts, tx,
          flying, receipts, aged, drawn, openers>>

-----------------------------------------------------------------------------
Gates == [mode: {"open", "closed"}, session: Sessions \cup {None},
          approved: Proofs \cup {None}]

Generations == 0 .. MaxGenerations

\* cp.recovery_sessions; since is created_at.
SessionRows == [status: {"closed", "approved", "resumed"},
                binding: Generations, since: 0 .. MaxWrites]

\* What _observe reports: the comparison's verdict, the fingerprint of the
\* control rows and the receipts it saw.
Evidence == [safe: BOOLEAN, version: 0 .. MaxWrites, receipts: SUBSET Keys]

\* cp.recovery_proofs.
ProofRows == [session: Sessions, report: Evidence]

\* waiting stands for ready, retry and leased; dead also for blocked.
JobStates == [status: {"none", "waiting", "succeeded", "dead"},
              uncertain: BOOLEAN]

NoJob == [status |-> "none", uncertain |-> FALSE]

\* version is the fingerprint of the business rows: every write has its own.
Databases ==
    [gate: Gates,
     sessions: [Sessions -> SessionRows \cup {None}],
     proofs: [Proofs -> ProofRows \cup {None}],
     jobs: [Keys -> JobStates],
     observed: [Facts -> 0 .. MaxWrites],
     version: 0 .. MaxWrites]

Ops == {"verify", "approve", "resume"}

\* late: receipts that landed while the transaction was open.
Transactions ==
    [op: Ops, session: Sessions, proof: Proofs \cup {None},
     seen: Evidence \cup {None}, late: SUBSET Keys]

ASSUME RecoveryNoneAssumption ==
    /\ None \notin SessionRows
    /\ None \notin ProofRows
    /\ None \notin Evidence
    /\ None \notin Transactions

\* Rows and memories have the shape of recovery.sql and recovery.py.
TypeOK ==
    /\ db \in Databases
    /\ backup \in Databases
    /\ generation \in Generations
    /\ unguarded \in BOOLEAN
    /\ running \in BOOLEAN
    /\ clock \in 0 .. MaxWrites
    /\ verdicts \in [Writers -> {"none", "open", "closed"}]
    /\ tx \in Transactions \cup {None}
    /\ flying \in SUBSET Keys
    /\ receipts \in SUBSET Keys
    /\ aged \in SUBSET Proofs
    /\ drawn \in SUBSET (Sessions \cup Proofs)
    /\ openers \in SUBSET Sessions

EmptyDatabase ==
    [gate |-> [mode |-> "open", session |-> None, approved |-> None],
     sessions |-> [s \in Sessions |-> None],
     proofs |-> [p \in Proofs |-> None],
     jobs |-> [k \in Keys |-> NoJob],
     observed |-> [f \in Facts |-> 0],
     version |-> 0]

Init ==
    /\ db = EmptyDatabase
    /\ backup = EmptyDatabase
    /\ generation = 0
    /\ unguarded = FALSE
    /\ running = TRUE
    /\ clock = 0
    /\ verdicts = [w \in Writers |-> "none"]
    /\ tx = None
    /\ flying = {}
    /\ receipts = {}
    /\ aged = {}
    /\ drawn = {}
    /\ openers = {}

-----------------------------------------------------------------------------
(***************************************************************************)
(* Business transactions.                                                  *)
(***************************************************************************)

\* No business transaction holds the gate row FOR SHARE.
NoSharers == \A w \in Writers : verdicts[w] = "none"

\* Mutant of Enter: cp.execution_open() without FOR SHARE.
EnterUnlocked(w) ==
    /\ running
    /\ verdicts[w] = "none"
    /\ verdicts' = [verdicts EXCEPT ![w] = db.gate.mode]
    /\ UNCHANGED <<db, backup, generation, unguarded, running, clock, tx,
                   flying, receipts, aged, drawn, openers>>

\* cp.execution_open(), called by the transaction itself or by the
\* recovery_state_lock trigger of its first write: waits for the coordinator.
Enter(w) ==
    /\ running
    /\ verdicts[w] = "none"
    /\ tx = None
    /\ verdicts' = [verdicts EXCEPT ![w] = db.gate.mode]
    /\ UNCHANGED <<db, backup, generation, unguarded, running, clock, tx,
                   flying, receipts, aged, drawn, openers>>

\* The transaction of w ends without changing a row.
Leave(w) ==
    /\ verdicts[w] # "none"
    /\ verdicts' = [verdicts EXCEPT ![w] = "none"]
    /\ UNCHANGED <<db, backup, generation, unguarded, running, clock, tx,
                   flying, receipts, aged, drawn, openers>>

\* The transaction of w commits: time passes and the fingerprint changes.
Commit(w, jobs, observed) ==
    /\ verdicts[w] # "none"
    /\ clock < MaxWrites
    /\ clock' = clock + 1
    /\ db' = [db EXCEPT !.jobs = jobs, !.observed = observed,
                        !.version = clock + 1]
    /\ verdicts' = [verdicts EXCEPT ![w] = "none"]
    /\ UNCHANGED <<backup, generation, unguarded, running, tx, receipts, aged,
                   drawn, openers>>

SetJob(k, job) == [db.jobs EXCEPT ![k] = job]

\* service.propose and service.approve create a job while the gate is open.
Admit(w, k) ==
    /\ verdicts[w] = "open"
    /\ db.jobs[k].status = "none"
    /\ Commit(w, SetJob(k, [status |-> "waiting", uncertain |-> FALSE]),
              db.observed)
    /\ UNCHANGED flying

\* worker.prepare authorises a dispatch while the gate is open; the request
\* leaves the worker.
Authorise(w, k) ==
    /\ verdicts[w] = "open"
    /\ db.jobs[k].status = "waiting"
    /\ Commit(w, SetJob(k, [status |-> "waiting", uncertain |-> TRUE]),
              db.observed)
    /\ flying' = flying \cup {k}

\* worker.finish of a worker that claimed the job before the gate closed: the
\* receipt was seen; the receiver refused (uncertain=False), which retries or
\* ends the job; or the attempt failed for good.
Finish(w, k) ==
    /\ db.jobs[k].status = "waiting"
    /\ \/ /\ k \in receipts
          /\ db.jobs[k].uncertain
          /\ Commit(w, SetJob(k, [status |-> "succeeded", uncertain |-> FALSE]),
                    db.observed)
       \/ \E status \in {"waiting", "dead"} :
             Commit(w, SetJob(k, [status |-> status, uncertain |-> FALSE]),
                    db.observed)
       \/ Commit(w, SetJob(k, [db.jobs[k] EXCEPT !.status = "dead"]),
                 db.observed)
    /\ UNCHANGED flying

\* service.resolve requeues a dead letter; the gate is not asked.
Requeue(w, k) ==
    /\ db.jobs[k].status = "dead"
    /\ Commit(w, SetJob(k, [db.jobs[k] EXCEPT !.status = "waiting"]),
              db.observed)
    /\ UNCHANGED flying

\* service.ingest accepts an observation of an authority field, in both modes.
Ingest(w, f) ==
    /\ Commit(w, db.jobs, [db.observed EXCEPT ![f] = clock + 1])
    /\ UNCHANGED flying

\* The receiver commits an effect, whether or not its sender still lives.
Land(k) ==
    /\ k \in flying
    /\ flying' = flying \ {k}
    /\ receipts' = receipts \cup {k}
    /\ tx' = IF tx = None THEN None ELSE [tx EXCEPT !.late = @ \cup {k}]
    /\ UNCHANGED <<db, backup, generation, unguarded, running, clock, verdicts,
                   aged, drawn, openers>>

-----------------------------------------------------------------------------
(***************************************************************************)
(* The coordinator.                                                        *)
(***************************************************************************)

\* recovery.authority_findings: facts whose accepted observation was received
\* before the session began.
Unrefreshed(s) == {f \in Facts : db.observed[f] <= db.sessions[s].since}

\* operations.compare_receipts: keys whose receipt and job contradict each
\* other. A missing intent, one that is not marked uncertain and one that has
\* ended otherwise each forbid the receipt; success demands it.
Contradictions(held) ==
    {k \in Keys :
        IF k \in held
        THEN /\ db.jobs[k].status # "succeeded"
             /\ ~(db.jobs[k].status = "waiting" /\ db.jobs[k].uncertain)
        ELSE db.jobs[k].status = "succeeded"}

\* What Recovery._observe reports now for session s.
Observation(s) ==
    [safe |-> Unrefreshed(s) = {} /\ Contradictions(receipts) = {},
     version |-> db.version,
     receipts |-> receipts]

\* Mutant of BeginClear: closing does not wait for open business transactions.
BeginClearAnyway == tx = None

\* The gate row can be locked FOR UPDATE.
BeginClear == tx = None /\ NoSharers

\* Mutant of NewSession: a status the schema does not know.
NewSessionOpen(b) == [status |-> "open", binding |-> b, since |-> clock]

\* The row Recovery.begin inserts.
NewSession(b) == [status |-> "closed", binding |-> b, since |-> clock]

\* Recovery.begin by a coordinator object built for generation b, perhaps
\* before the server restarted: closes the gate under a session of its own.
Begin(s, b) ==
    /\ BeginClear
    /\ db.gate.mode = "open"
    /\ s \notin drawn
    /\ b <= generation
    /\ db' = [db EXCEPT
           !.sessions[s] = NewSession(b),
           !.gate = [mode |-> "closed", session |-> s, approved |-> None]]
    /\ unguarded' = FALSE
    /\ drawn' = drawn \cup {s}
    /\ UNCHANGED <<backup, generation, running, clock, verdicts, tx, flying,
                   receipts, aged, openers>>

\* Mutant of CurrentSession: any session of this database will do.
CurrentSessionUnbound(s) ==
    /\ db.gate.mode = "closed"
    /\ db.gate.session = s
    /\ db.sessions[s] # None

\* Recovery._session, and _observe's look at the identity of the database.
CurrentSession(s) ==
    /\ db.gate.mode = "closed"
    /\ db.gate.session = s
    /\ db.sessions[s] # None
    /\ db.sessions[s].binding = generation

\* The stored proof that _fresh_approval accepts: safe, of this session, and at
\* most 90 seconds old.
SafeProof(s, p) ==
    /\ db.proofs[p] # None
    /\ db.proofs[p].session = s
    /\ db.proofs[p].report.safe
    /\ p \notin aged

Open(op, s, p) == [op |-> op, session |-> s, proof |-> p, seen |-> None,
                   late |-> {}]

\* Recovery.verify, approve or resume takes the exclusive lock and passes the
\* checks it makes before it observes anything.
Lock(op, s, p) ==
    /\ tx = None
    /\ NoSharers
    /\ CurrentSession(s)
    /\ op # "verify" => SafeProof(s, p)
    /\ tx' = Open(op, s, IF op = "verify" THEN None ELSE p)
    /\ UNCHANGED <<db, backup, generation, unguarded, running, clock, verdicts,
                   flying, receipts, aged, drawn, openers>>

\* Recovery._observe, once the witness sees no registered process running.
Observe ==
    /\ tx # None
    /\ tx.seen = None
    /\ ~running
    /\ tx' = [tx EXCEPT !.seen = Observation(tx.session), !.late = {}]
    /\ UNCHANGED <<db, backup, generation, unguarded, running, clock, verdicts,
                   flying, receipts, aged, drawn, openers>>

\* Recovery.verify stores what it saw, safe or not.
Verify(p) ==
    /\ tx # None
    /\ tx.op = "verify"
    /\ tx.seen # None
    /\ p \notin drawn
    /\ db' = [db EXCEPT !.proofs[p] = [session |-> tx.session, report |-> tx.seen]]
    /\ tx' = None
    /\ drawn' = drawn \cup {p}
    /\ UNCHANGED <<backup, generation, unguarded, running, clock, verdicts,
                   flying, receipts, aged, openers>>

\* Mutant of Confirmed: the stored proof is trusted.
ConfirmedByProof(op) ==
    /\ tx # None
    /\ tx.op = op
    /\ tx.seen # None
    /\ db.proofs[tx.proof].report.safe

\* Recovery._fresh_approval: what op sees now is safe, and is the evidence of
\* the stored proof.
Confirmed(op) ==
    /\ tx # None
    /\ tx.op = op
    /\ tx.seen # None
    /\ tx.seen.safe
    /\ tx.seen = db.proofs[tx.proof].report

\* Recovery.approve.
Approve ==
    /\ Confirmed("approve")
    /\ db' = [db EXCEPT !.gate.approved = tx.proof,
                        !.sessions[tx.session].status = "approved"]
    /\ tx' = None
    /\ UNCHANGED <<backup, generation, unguarded, running, clock, verdicts,
                   flying, receipts, aged, drawn, openers>>

\* Mutant of Resumed: the approval outlives the closing it was given for.
ResumedApproved(s) ==
    [db EXCEPT !.gate.mode = "open", !.sessions[s].status = "resumed"]

\* The rows Recovery.resume leaves.
Resumed(s) ==
    [db EXCEPT !.gate.mode = "open", !.gate.approved = None,
               !.sessions[s].status = "resumed"]

\* Recovery.resume: only on the very proof that was approved.
Resume ==
    /\ Confirmed("resume")
    /\ db.gate.approved = tx.proof
    /\ db' = Resumed(tx.session)
    /\ tx' = None
    /\ openers' = openers \cup {tx.session}
    /\ UNCHANGED <<backup, generation, unguarded, running, clock, verdicts,
                   flying, receipts, aged, drawn>>

\* The transaction rolls back: the witness sees a process, the evidence
\* changed, another proof is approved, a timeout, or the coordinator dies.
Abort ==
    /\ tx # None
    /\ tx' = None
    /\ UNCHANGED <<db, backup, generation, unguarded, running, clock, verdicts,
                   flying, receipts, aged, drawn, openers>>

\* 90 seconds have passed since p was stored; told only of a proof that could
\* still be accepted.
Age(p) ==
    /\ db.gate.mode = "closed"
    /\ SafeProof(db.gate.session, p)
    /\ aged' = aged \cup {p}
    /\ UNCHANGED <<db, backup, generation, unguarded, running, clock, verdicts,
                   tx, flying, receipts, drawn, openers>>

-----------------------------------------------------------------------------
(***************************************************************************)
(* The environment: processes, backups, restores and restarts.             *)
(***************************************************************************)

\* The operators start the registered processes, on a restored database only
\* after it was closed.
StartRuntime ==
    /\ ~running
    /\ unguarded => db.gate.mode = "closed"
    /\ running' = TRUE
    /\ UNCHANGED <<db, backup, generation, unguarded, clock, verdicts, tx,
                   flying, receipts, aged, drawn, openers>>

\* They are stopped; their open transactions roll back, requests already sent
\* are not recalled.
StopRuntime ==
    /\ running
    /\ running' = FALSE
    /\ verdicts' = [w \in Writers |-> "none"]
    /\ UNCHANGED <<db, backup, generation, unguarded, clock, tx, flying,
                   receipts, aged, drawn, openers>>

\* The point in time a later restore will choose.
Backup ==
    /\ generation < MaxGenerations
    /\ backup' = db
    /\ UNCHANGED <<db, generation, unguarded, running, clock, verdicts, tx,
                   flying, receipts, aged, drawn, openers>>

\* The control database server restarts: open transactions roll back.
Restart ==
    /\ generation < MaxGenerations
    /\ generation' = generation + 1
    /\ verdicts' = [w \in Writers |-> "none"]
    /\ tx' = None
    /\ UNCHANGED <<db, backup, unguarded, running, clock, flying, receipts,
                   aged, drawn, openers>>

\* The control database is restored to the chosen point, the receiver is not.
Restore ==
    /\ generation < MaxGenerations
    /\ generation' = generation + 1
    /\ db' = backup
    /\ unguarded' = TRUE
    /\ running' = FALSE
    /\ verdicts' = [w \in Writers |-> "none"]
    /\ tx' = None
    /\ UNCHANGED <<backup, clock, flying, receipts, aged, drawn, openers>>

-----------------------------------------------------------------------------
Business ==
    \E w \in Writers :
        \/ Enter(w)
        \/ Leave(w)
        \/ \E k \in Keys :
              Admit(w, k) \/ Authorise(w, k) \/ Finish(w, k) \/ Requeue(w, k)
        \/ \E f \in Facts : Ingest(w, f)

Coordinator ==
    \/ \E s \in Sessions, b \in Generations : Begin(s, b)
    \/ \E op \in Ops, s \in Sessions, p \in Proofs : Lock(op, s, p)
    \/ Observe
    \/ \E p \in Proofs : Verify(p)
    \/ Approve
    \/ Resume
    \/ Abort

Environment ==
    \/ \E k \in Keys : Land(k)
    \/ \E p \in Proofs : Age(p)
    \/ StartRuntime \/ StopRuntime \/ Backup \/ Restart \/ Restore

Next == Business \/ Coordinator \/ Environment

Spec == Init /\ [][Next]_vars

-----------------------------------------------------------------------------
(***************************************************************************)
(* Properties.                                                             *)
(***************************************************************************)

\* While the gate is closed no approval outlives or precedes its closing, and
\* at most the gate's own session is alive; an open gate leaves none behind
\* (recovery.begin, recovery.resume).
ApprovalBelongsToClosing ==
    /\ \A s \in Sessions :
           db.sessions[s] # None /\ db.sessions[s].status # "resumed" =>
               db.gate.mode = "closed" /\ db.gate.session = s
    /\ db.gate.approved # None =>
           /\ db.gate.mode = "closed"
           /\ db.proofs[db.gate.approved] # None
           /\ db.proofs[db.gate.approved].session = db.gate.session
           /\ db.sessions[db.gate.session].status = "approved"

\* No job is admitted and no dispatch authorised by a transaction that commits
\* after the gate was closed, though it may have begun before
\* (recovery.sql, execution_open).
ClosedStopsWork ==
    [][generation' = generation /\ db.gate.mode = "closed" =>
          /\ flying' \subseteq flying
          /\ \A k \in Keys :
                 db.jobs[k].status = "none" => db'.jobs[k].status = "none"]_vars

\* The coordinator reopens the gate in this step.
Reopening ==
    /\ generation' = generation
    /\ db.gate.mode = "closed"
    /\ db'.gate.mode = "open"

\* The gate reopens only in the database generation its session was bound to,
\* on an approved and safe proof of that session whose fingerprint is
\* that of the database at that very moment, and with every authority fact
\* observed anew since the session began (recovery.resume).
OpensOnCurrentEvidence ==
    [][Reopening =>
          LET s == db.gate.session
              p == db.gate.approved
          IN  /\ s \in Sessions /\ p \in Proofs
              /\ db.sessions[s].binding = generation
              /\ db.proofs[p].session = s
              /\ db.proofs[p].report.safe
              /\ db.proofs[p].report.version = db.version
              /\ \A f \in Facts : db.observed[f] > db.sessions[s].since]_vars

\* When the gate reopens, every effect at the receiver has a job that knows of
\* it and every success an effect, except for effects that landed after the
\* resuming transaction had looked (recovery._observe, compare_receipts).
OpensReconciled ==
    [][Reopening =>
          \A k \in Keys :
              /\ k \in receipts \ tx.late =>
                     \/ db.jobs[k].status = "succeeded"
                     \/ db.jobs[k].status = "waiting" /\ db.jobs[k].uncertain
              /\ db.jobs[k].status = "succeeded" => k \in receipts]_vars

\* A session opens the gate at most once, even when a restore brings back the
\* database in which it was still closed and approved (recovery._session).
SessionsAreSpent ==
    [][Reopening => db.gate.session \notin openers]_vars

=============================================================================
