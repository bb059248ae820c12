--------------------------- MODULE RecoveryProofs ---------------------------
(***************************************************************************)
(* Proofs about Recovery: for any keys, facts, connections, sessions and   *)
(* proofs, and any number of restores and restarts, the gate reopens only  *)
(* on current evidence, once per session, with nothing unreconciled.       *)
(*                                                                         *)
(* The argument has two halves.  The lock half: while the coordinator      *)
(* holds the row no business transaction is open (Exclusion), so what it   *)
(* observed is still so when it commits (SeenIsCurrent).  The identity     *)
(* half: a session that has opened the gate can be current again only      *)
(* through a restore, which makes it belong to an earlier generation       *)
(* (OpenersAreSpent); rows of the backup are subject to the same           *)
(* invariants as the running database (Sound).                             *)
(***************************************************************************)
EXTENDS Recovery, TLAPS

\* What every committed state of the control database satisfies.
Sound(d) ==
    /\ d.gate.mode = "closed" =>
           d.gate.session \in Sessions /\ d.sessions[d.gate.session] # None
    /\ \A s \in Sessions :
           d.sessions[s] # None =>
               /\ s \in drawn
               /\ d.sessions[s].binding <= generation
               /\ d.sessions[s].status # "resumed" =>
                      d.gate.mode = "closed" /\ d.gate.session = s
    /\ d.gate.approved # None =>
           /\ d.gate.mode = "closed"
           /\ d.proofs[d.gate.approved] # None
           /\ d.proofs[d.gate.approved].session = d.gate.session
           /\ d.sessions[d.gate.session].status = "approved"

\* The exclusive lock excludes the shared ones.
Exclusion == tx # None => NoSharers

\* What an open business transaction read is still true.
VerdictsHold ==
    \A w \in Writers : verdicts[w] # "none" => verdicts[w] = db.gate.mode

\* The coordinator's transaction is about the current session.
LockIsCurrent ==
    tx # None =>
        /\ CurrentSession(tx.session)
        /\ tx.op # "verify" =>
               /\ tx.proof \in Proofs
               /\ db.proofs[tx.proof] # None
               /\ db.proofs[tx.proof].session = tx.session
               /\ db.proofs[tx.proof].report.safe

\* What it has observed still holds, but for receipts that landed since.
SeenIsCurrent ==
    tx # None /\ tx.seen # None =>
        /\ tx.seen.version = db.version
        /\ tx.seen.receipts \subseteq receipts
        /\ receipts \ tx.late \subseteq tx.seen.receipts
        /\ tx.seen.safe => /\ Unrefreshed(tx.session) = {}
                           /\ Contradictions(tx.seen.receipts) = {}

\* A session that has opened the gate is current only in a later generation.
OpenersAreSpent ==
    /\ openers \subseteq drawn
    /\ \A s \in openers :
           db.gate.mode = "closed" /\ db.gate.session = s =>
               db.sessions[s].binding < generation

Inv ==
    /\ TypeOK
    /\ Sound(db)
    /\ Sound(backup)
    /\ Exclusion
    /\ VerdictsHold
    /\ LockIsCurrent
    /\ SeenIsCurrent
    /\ OpenersAreSpent

-----------------------------------------------------------------------------
(***************************************************************************)
(* Initially.                                                              *)
(***************************************************************************)
LEMMA InitInv ==
    ASSUME Init
    PROVE  Inv
  <1>1. EmptyDatabase \in Databases
    BY RecoveryAssumption DEF EmptyDatabase, Databases, Gates, JobStates, NoJob
  <1>2. TypeOK
    <2>1. 0 \in Generations /\ 0 \in 0 .. MaxWrites
      BY RecoveryAssumption DEF Generations
    <2>2. verdicts \in [Writers -> {"none", "open", "closed"}]
      BY DEF Init
    <2> QED
      BY <1>1, <2>1, <2>2 DEF Init, TypeOK
  <1>3. Sound(EmptyDatabase)
    <2>1. /\ EmptyDatabase.gate.mode = "open"
          /\ EmptyDatabase.gate.approved = None
          /\ \A s \in Sessions : EmptyDatabase.sessions[s] = None
      BY DEF EmptyDatabase
    <2> QED
      BY <2>1 DEF Sound
  <1> QED
    BY <1>2, <1>3 DEF Init, Inv, Exclusion, VerdictsHold, LockIsCurrent,
       SeenIsCurrent, OpenersAreSpent

-----------------------------------------------------------------------------
(***************************************************************************)
(* Types.                                                                  *)
(***************************************************************************)
LEMMA ObservationType ==
    ASSUME TypeOK, NEW s \in Sessions
    PROVE  Observation(s) \in Evidence
  <1>1. db.version \in 0 .. MaxWrites
    BY DEF TypeOK, Databases
  <1>2. receipts \in SUBSET Keys
    BY DEF TypeOK
  <1> QED
    BY <1>1, <1>2 DEF Observation, Evidence

\* A commit of a business transaction changes jobs, observations and the
\* fingerprint only.
LEMMA CommitType ==
    ASSUME TypeOK, NEW w \in Writers,
           NEW jobs \in [Keys -> JobStates],
           NEW observed \in [Facts -> 0 .. MaxWrites],
           Commit(w, jobs, observed), flying' \in SUBSET Keys
    PROVE  TypeOK'
  <1>1. clock' \in 0 .. MaxWrites
    BY RecoveryAssumption DEF Commit, TypeOK
  <1>2. db' = [db EXCEPT !.jobs = jobs, !.observed = observed,
                         !.version = clock']
    BY DEF Commit
  <1>3. db' \in Databases
    BY <1>1, <1>2 DEF TypeOK, Databases
  <1>4. verdicts' \in [Writers -> {"none", "open", "closed"}]
    BY DEF Commit, TypeOK
  <1> QED
    BY <1>1, <1>3, <1>4 DEF Commit, TypeOK

\* The business operations, as commits.
LEMMA BusinessCommits ==
    ASSUME TypeOK, NEW w \in Writers, NEW k \in Keys,
           Admit(w, k) \/ Authorise(w, k) \/ Finish(w, k) \/ Requeue(w, k)
    PROVE  \E job \in JobStates :
              /\ Commit(w, SetJob(k, job), db.observed)
              /\ SetJob(k, job) \in [Keys -> JobStates]
              /\ flying' = flying \/ (Authorise(w, k) /\ flying' = flying \cup {k})
              /\ db.jobs[k].status # "none" \/ Admit(w, k)
  <1>0. db.jobs \in [Keys -> JobStates] /\ db.jobs[k] \in JobStates
    BY DEF TypeOK, Databases
  <1>a. ASSUME NEW job \in JobStates
        PROVE  SetJob(k, job) \in [Keys -> JobStates]
    BY <1>0 DEF SetJob
  <1>1. CASE Admit(w, k)
    <2>1. [status |-> "waiting", uncertain |-> FALSE] \in JobStates
      BY DEF JobStates
    <2> QED
      BY <1>1, <1>a, <2>1 DEF Admit
  <1>2. CASE Authorise(w, k)
    <2>1. [status |-> "waiting", uncertain |-> TRUE] \in JobStates
      BY DEF JobStates
    <2> QED
      BY <1>2, <1>a, <2>1 DEF Authorise
  <1>3. CASE Finish(w, k)
    <2>1. /\ [status |-> "succeeded", uncertain |-> FALSE] \in JobStates
          /\ [status |-> "waiting", uncertain |-> FALSE] \in JobStates
          /\ [status |-> "dead", uncertain |-> FALSE] \in JobStates
          /\ [db.jobs[k] EXCEPT !.status = "dead"] \in JobStates
      BY <1>0 DEF JobStates
    <2>2. /\ db.jobs[k].status # "none"
          /\ flying' = flying
      BY <1>3 DEF Finish
    <2>3. \/ Commit(w, SetJob(k, [status |-> "succeeded", uncertain |-> FALSE]),
                    db.observed)
          \/ Commit(w, SetJob(k, [status |-> "waiting", uncertain |-> FALSE]),
                    db.observed)
          \/ Commit(w, SetJob(k, [status |-> "dead", uncertain |-> FALSE]),
                    db.observed)
          \/ Commit(w, SetJob(k, [db.jobs[k] EXCEPT !.status = "dead"]),
                    db.observed)
      BY <1>3 DEF Finish
    <2> QED
      BY <1>a, <2>1, <2>2, <2>3
  <1>4. CASE Requeue(w, k)
    <2>1. [db.jobs[k] EXCEPT !.status = "waiting"] \in JobStates
      BY <1>0 DEF JobStates
    <2> QED
      BY <1>4, <1>a, <2>1 DEF Requeue
  <1> QED
    BY <1>1, <1>2, <1>3, <1>4

\* The coordinator's writes to the gate, the sessions and the proofs.
LEMMA BeginType ==
    ASSUME TypeOK, NEW s \in Sessions, NEW b \in Generations, Begin(s, b)
    PROVE  TypeOK'
  <1>1. NewSession(b) \in SessionRows
    BY DEF NewSession, SessionRows, TypeOK
  <1>2. [db.sessions EXCEPT ![s] = NewSession(b)]
            \in [Sessions -> SessionRows \cup {None}]
    BY <1>1 DEF TypeOK, Databases
  <1>3. [mode |-> "closed", session |-> s, approved |-> None] \in Gates
    BY DEF Gates
  <1>4. db' \in Databases
    BY <1>2, <1>3 DEF Begin, TypeOK, Databases
  <1> QED
    BY <1>4 DEF Begin, TypeOK

LEMMA LockType ==
    ASSUME TypeOK, NEW op \in Ops, NEW s \in Sessions, NEW p \in Proofs,
           Lock(op, s, p)
    PROVE  TypeOK'
  <1>1. tx' \in Transactions
    BY DEF Lock, Open, Transactions
  <1> QED
    BY <1>1 DEF Lock, TypeOK

LEMMA ObserveType ==
    ASSUME TypeOK, Observe
    PROVE  TypeOK'
  <1>1. tx \in Transactions
    BY DEF Observe, TypeOK
  <1>2. Observation(tx.session) \in Evidence
    BY <1>1, ObservationType DEF Transactions
  <1>3. tx' \in Transactions
    BY <1>1, <1>2 DEF Observe, Transactions
  <1> QED
    BY <1>3 DEF Observe, TypeOK

LEMMA VerifyType ==
    ASSUME TypeOK, NEW p \in Proofs, Verify(p)
    PROVE  TypeOK'
  <1>1. tx \in Transactions /\ tx.seen \in Evidence
    BY DEF Verify, TypeOK, Transactions
  <1>2. [session |-> tx.session, report |-> tx.seen] \in ProofRows
    BY <1>1 DEF Transactions, ProofRows
  <1>3. [db.proofs EXCEPT ![p] = [session |-> tx.session, report |-> tx.seen]]
            \in [Proofs -> ProofRows \cup {None}]
    BY <1>2 DEF TypeOK, Databases
  <1>4. db' \in Databases
    BY <1>3 DEF Verify, TypeOK, Databases
  <1> QED
    BY <1>4 DEF Verify, TypeOK

\* The transaction that approves or resumes is about an existing session.
LEMMA HolderSession ==
    ASSUME Inv, tx # None
    PROVE  /\ tx \in Transactions
           /\ tx.session \in Sessions
           /\ db \in Databases
           /\ db.gate.mode = "closed"
           /\ db.gate.session = tx.session
           /\ db.sessions[tx.session] \in SessionRows
           /\ db.sessions[tx.session].binding = generation
           /\ NoSharers
  BY DEF Inv, TypeOK, LockIsCurrent, CurrentSession, Exclusion, Transactions,
     Databases

LEMMA ApproveType ==
    ASSUME Inv, Approve
    PROVE  TypeOK'
  <1>1. tx # None /\ tx.op = "approve" /\ tx.proof \in Proofs
    BY DEF Approve, Confirmed, Inv, LockIsCurrent
  <1>2. tx.session \in Sessions /\ db.sessions[tx.session] \in SessionRows
    BY <1>1, HolderSession
  <1>3. [db.sessions[tx.session] EXCEPT !.status = "approved"] \in SessionRows
    BY <1>2 DEF SessionRows
  <1>4. [db.sessions EXCEPT ![tx.session] = [@ EXCEPT !.status = "approved"]]
            \in [Sessions -> SessionRows \cup {None}]
    BY <1>2, <1>3 DEF Inv, TypeOK, Databases
  <1>5. [db.gate EXCEPT !.approved = tx.proof] \in Gates
    BY <1>1 DEF Inv, TypeOK, Databases, Gates
  <1>6. db' \in Databases
    BY <1>4, <1>5 DEF Approve, Inv, TypeOK, Databases
  <1> QED
    BY <1>6 DEF Approve, Inv, TypeOK

LEMMA ResumeType ==
    ASSUME Inv, Resume
    PROVE  TypeOK'
  <1>1. tx # None
    BY DEF Resume, Confirmed
  <1>2. tx.session \in Sessions /\ db.sessions[tx.session] \in SessionRows
    BY <1>1, HolderSession
  <1>3. [db.sessions[tx.session] EXCEPT !.status = "resumed"] \in SessionRows
    BY <1>2 DEF SessionRows
  <1>4. [db.sessions EXCEPT ![tx.session] = [@ EXCEPT !.status = "resumed"]]
            \in [Sessions -> SessionRows \cup {None}]
    BY <1>2, <1>3 DEF Inv, TypeOK, Databases
  <1>5. [mode |-> "open", session |-> db.gate.session, approved |-> None] \in Gates
    BY DEF Inv, TypeOK, Databases, Gates
  <1>6. db' \in Databases
    BY <1>2, <1>4, <1>5 DEF Resume, Resumed, Inv, TypeOK, Databases, Gates
  <1>7. openers' \in SUBSET Sessions
    BY <1>2 DEF Resume, Inv, TypeOK
  <1> QED
    BY <1>6, <1>7 DEF Resume, Inv, TypeOK

LEMMA LandType ==
    ASSUME TypeOK, NEW k \in Keys, Land(k)
    PROVE  TypeOK'
  <1>1. tx' \in Transactions \cup {None}
    BY DEF Land, TypeOK, Transactions
  <1> QED
    BY <1>1 DEF Land, TypeOK

LEMMA TypeStep ==
    ASSUME Inv, [Next]_vars
    PROVE  TypeOK'
  <1>0. TypeOK
    BY DEF Inv
  <1>1. ASSUME NEW w \in Writers, Enter(w) \/ Leave(w)
        PROVE  TypeOK'
    <2>1. db.gate.mode \in {"open", "closed"}
      BY <1>0 DEF TypeOK, Databases, Gates
    <2> QED
      BY <1>0, <1>1, <2>1 DEF Enter, Leave, TypeOK
  <1>2. ASSUME NEW w \in Writers, NEW k \in Keys,
               Admit(w, k) \/ Authorise(w, k) \/ Finish(w, k) \/ Requeue(w, k)
        PROVE  TypeOK'
    <2>1. PICK job \in JobStates :
              /\ Commit(w, SetJob(k, job), db.observed)
              /\ SetJob(k, job) \in [Keys -> JobStates]
              /\ flying' = flying \/ (Authorise(w, k) /\ flying' = flying \cup {k})
      BY <1>0, <1>2, BusinessCommits
    <2>2. flying' \in SUBSET Keys
      BY <1>0, <2>1 DEF TypeOK
    <2>3. db.observed \in [Facts -> 0 .. MaxWrites]
      BY <1>0 DEF TypeOK, Databases
    <2> QED
      BY <1>0, <2>1, <2>2, <2>3, CommitType
  <1>3. ASSUME NEW w \in Writers, NEW f \in Facts, Ingest(w, f)
        PROVE  TypeOK'
    <2>1. db.jobs \in [Keys -> JobStates] /\ flying' \in SUBSET Keys
      BY <1>0, <1>3 DEF TypeOK, Databases, Ingest
    <2>2. clock + 1 \in 0 .. MaxWrites
      BY <1>0, <1>3, RecoveryAssumption DEF TypeOK, Ingest, Commit
    <2>3. [db.observed EXCEPT ![f] = clock + 1] \in [Facts -> 0 .. MaxWrites]
      BY <1>0, <2>2 DEF TypeOK, Databases
    <2> QED
      BY <1>0, <1>3, <2>1, <2>3, CommitType DEF Ingest
  <1>4. CASE Business
    BY <1>1, <1>2, <1>3, <1>4 DEF Business
  <1>5. CASE Abort
    BY <1>0, <1>5 DEF Abort, TypeOK
  <1>6. CASE Coordinator
    BY <1>0, <1>5, <1>6, BeginType, LockType, ObserveType, VerifyType,
       ApproveType, ResumeType DEF Coordinator
  <1>7. ASSUME NEW p \in Proofs, Age(p)
        PROVE  TypeOK'
    BY <1>0, <1>7 DEF Age, TypeOK
  <1>8. CASE StartRuntime \/ StopRuntime \/ Backup
    BY <1>0, <1>8 DEF StartRuntime, StopRuntime, Backup, TypeOK
  <1>9. CASE Restart \/ Restore
    <2>1. generation' \in Generations
      BY <1>0, <1>9, RecoveryAssumption DEF Restart, Restore, TypeOK, Generations
    <2> QED
      BY <1>0, <1>9, <2>1 DEF Restart, Restore, TypeOK
  <1>10. CASE UNCHANGED vars
    BY <1>0, <1>10 DEF vars, TypeOK
  <1> QED
    BY <1>0, <1>4, <1>6, <1>7, <1>8, <1>9, <1>10, LandType DEF Next, Environment

-----------------------------------------------------------------------------
(***************************************************************************)
(* What the steps do to the control database.                              *)
(***************************************************************************)

\* A business transaction touches neither gate, sessions nor proofs, and only
\* while no coordinator holds the lock.
BusinessWrite ==
    /\ db'.gate = db.gate
    /\ db'.sessions = db.sessions
    /\ db'.proofs = db.proofs
    /\ tx = None /\ tx' = None
    /\ UNCHANGED <<backup, generation, openers, drawn>>
    /\ \A w \in Writers : verdicts'[w] \in {verdicts[w], "none"}

LEMMA CommitWrites ==
    ASSUME Inv, NEW w \in Writers, NEW jobs, NEW observed,
           Commit(w, jobs, observed)
    PROVE  BusinessWrite /\ db'.jobs = jobs
  <1>1. tx = None
    BY DEF Commit, Inv, Exclusion, NoSharers
  <1>2. db \in Databases
    BY DEF Inv, TypeOK
  <1>3. /\ db'.gate = db.gate
        /\ db'.sessions = db.sessions
        /\ db'.proofs = db.proofs
        /\ db'.jobs = jobs
    BY <1>2 DEF Commit, Databases
  <1>4. \A v \in Writers : verdicts'[v] \in {verdicts[v], "none"}
    BY DEF Commit, Inv, TypeOK
  <1> QED
    BY <1>1, <1>3, <1>4 DEF Commit, BusinessWrite

LEMMA BusinessWrites ==
    ASSUME Inv, NEW w \in Writers,
           \/ \E k \in Keys : \/ Admit(w, k) \/ Authorise(w, k)
                              \/ Finish(w, k) \/ Requeue(w, k)
           \/ \E f \in Facts : Ingest(w, f)
    PROVE  BusinessWrite
  <1>1. ASSUME NEW k \in Keys,
               Admit(w, k) \/ Authorise(w, k) \/ Finish(w, k) \/ Requeue(w, k)
        PROVE  BusinessWrite
    <2>1. PICK job \in JobStates : Commit(w, SetJob(k, job), db.observed)
      BY <1>1, BusinessCommits DEF Inv
    <2> QED
      BY <2>1, CommitWrites
  <1>2. ASSUME NEW f \in Facts, Ingest(w, f)
        PROVE  BusinessWrite
    BY <1>2, CommitWrites DEF Ingest
  <1> QED
    BY <1>1, <1>2

LEMMA WriteKeeps ==
    ASSUME Inv, BusinessWrite
    PROVE  /\ Sound(db)' /\ Sound(backup)'
           /\ Exclusion' /\ VerdictsHold' /\ LockIsCurrent' /\ SeenIsCurrent'
           /\ OpenersAreSpent'
  <1>1. Sound(db)' /\ Sound(backup)'
    BY DEF Inv, BusinessWrite, Sound
  <1>2. Exclusion' /\ LockIsCurrent' /\ SeenIsCurrent'
    BY DEF BusinessWrite, Exclusion, LockIsCurrent, SeenIsCurrent
  <1>3. VerdictsHold'
    BY DEF Inv, BusinessWrite, VerdictsHold
  <1>4. OpenersAreSpent'
    BY DEF Inv, BusinessWrite, OpenersAreSpent
  <1> QED
    BY <1>1, <1>2, <1>3, <1>4

LEMMA EnterKeeps ==
    ASSUME Inv, NEW w \in Writers, Enter(w) \/ Leave(w)
    PROVE  /\ Sound(db)' /\ Sound(backup)'
           /\ Exclusion' /\ VerdictsHold' /\ LockIsCurrent' /\ SeenIsCurrent'
           /\ OpenersAreSpent'
  <1>1. /\ UNCHANGED <<db, backup, generation, tx, receipts, drawn, openers>>
        /\ tx = None \/ verdicts' = [verdicts EXCEPT ![w] = "none"]
    BY DEF Enter, Leave
  <1>2. Sound(db)' /\ Sound(backup)'
    BY <1>1 DEF Inv, Sound
  <1>3. VerdictsHold'
    BY <1>1 DEF Inv, TypeOK, VerdictsHold, Enter, Leave
  <1>4. Exclusion'
    BY <1>1 DEF Inv, TypeOK, Exclusion, NoSharers
  <1>5. LockIsCurrent'
    BY <1>1 DEF Inv, LockIsCurrent, CurrentSession
  <1>6. SeenIsCurrent'
    BY <1>1 DEF Inv, SeenIsCurrent, Unrefreshed, Contradictions
  <1>7. OpenersAreSpent'
    BY <1>1 DEF Inv, OpenersAreSpent
  <1> QED
    BY <1>2, <1>3, <1>4, <1>5, <1>6, <1>7

\* A closing: the new session is fresh, and no other was alive.
LEMMA BeginKeeps ==
    ASSUME Inv, NEW s \in Sessions, NEW b \in Generations, Begin(s, b)
    PROVE  /\ Sound(db)' /\ Sound(backup)'
           /\ Exclusion' /\ VerdictsHold' /\ LockIsCurrent' /\ SeenIsCurrent'
           /\ OpenersAreSpent'
  <1>0. /\ db \in Databases
        /\ db.sessions \in [Sessions -> SessionRows \cup {None}]
        /\ db.gate.mode = "open"
        /\ s \notin drawn
        /\ b <= generation
        /\ tx = None /\ NoSharers
        /\ drawn' = drawn \cup {s}
        /\ UNCHANGED <<backup, generation, verdicts, tx, openers>>
    BY DEF Begin, BeginClear, Inv, TypeOK, Databases
  <1>1. /\ db'.gate = [mode |-> "closed", session |-> s, approved |-> None]
        /\ db'.sessions = [db.sessions EXCEPT ![s] = NewSession(b)]
        /\ db'.proofs = db.proofs
    BY <1>0 DEF Begin, Databases
  <1>2. db'.sessions[s] = NewSession(b) /\ NewSession(b) # None
    BY <1>0, <1>1, RecoveryNoneAssumption
       DEF NewSession, SessionRows, Inv, TypeOK
  <1>3. Sound(db)'
    <2>1. ASSUME NEW q \in Sessions, db'.sessions[q] # None
          PROVE  /\ q \in drawn'
                 /\ db'.sessions[q].binding <= generation
                 /\ db'.sessions[q].status # "resumed" => q = s
      <3>1. CASE q = s
        BY <1>0, <1>2, <3>1 DEF NewSession
      <3>2. CASE q # s
        BY <1>0, <1>1, <2>1, <3>2 DEF Inv, Sound
      <3> QED
        BY <3>1, <3>2
    <2> QED
      BY <1>0, <1>1, <1>2, <2>1 DEF Sound
  <1>4. Sound(backup)'
    BY <1>0 DEF Inv, Sound
  <1>5. Exclusion' /\ VerdictsHold' /\ LockIsCurrent' /\ SeenIsCurrent'
    BY <1>0 DEF Exclusion, VerdictsHold, NoSharers, LockIsCurrent, SeenIsCurrent
  <1>6. OpenersAreSpent'
    BY <1>0, <1>1 DEF Begin, Inv, OpenersAreSpent
  <1> QED
    BY <1>3, <1>4, <1>5, <1>6

LEMMA LockKeeps ==
    ASSUME Inv, NEW op \in Ops, NEW s \in Sessions, NEW p \in Proofs,
           Lock(op, s, p)
    PROVE  /\ Sound(db)' /\ Sound(backup)'
           /\ Exclusion' /\ VerdictsHold' /\ LockIsCurrent' /\ SeenIsCurrent'
           /\ OpenersAreSpent'
  <1>1. /\ UNCHANGED <<db, backup, generation, verdicts, receipts, drawn, openers>>
        /\ tx' = Open(op, s, IF op = "verify" THEN None ELSE p)
        /\ NoSharers /\ CurrentSession(s)
        /\ op # "verify" => SafeProof(s, p)
    BY DEF Lock
  <1>2. Sound(db)' /\ Sound(backup)' /\ VerdictsHold' /\ OpenersAreSpent'
    BY <1>1 DEF Inv, Sound, VerdictsHold, OpenersAreSpent
  <1>3. Exclusion'
    BY <1>1 DEF Exclusion, NoSharers
  <1>4. tx'.session = s /\ tx'.op = op /\ tx'.seen = None
        /\ (op # "verify" => tx'.proof = p)
    BY <1>1 DEF Open
  <1>5. LockIsCurrent'
    BY <1>1, <1>4 DEF LockIsCurrent, CurrentSession, SafeProof
  <1>6. SeenIsCurrent'
    BY <1>4 DEF SeenIsCurrent
  <1> QED
    BY <1>2, <1>3, <1>5, <1>6

LEMMA ObserveKeeps ==
    ASSUME Inv, Observe
    PROVE  /\ Sound(db)' /\ Sound(backup)'
           /\ Exclusion' /\ VerdictsHold' /\ LockIsCurrent' /\ SeenIsCurrent'
           /\ OpenersAreSpent'
  <1>1. /\ UNCHANGED <<db, backup, generation, verdicts, receipts, drawn, openers>>
        /\ tx # None
        /\ tx \in Transactions
        /\ tx' = [tx EXCEPT !.seen = Observation(tx.session), !.late = {}]
    BY DEF Observe, Inv, TypeOK
  <1>2. /\ tx'.session = tx.session /\ tx'.op = tx.op /\ tx'.proof = tx.proof
        /\ tx'.seen = Observation(tx.session)
        /\ tx'.late = {}
    BY <1>1 DEF Transactions
  <1>3. Sound(db)' /\ Sound(backup)' /\ VerdictsHold' /\ OpenersAreSpent'
    BY <1>1 DEF Inv, Sound, VerdictsHold, OpenersAreSpent
  <1>4. Exclusion'
    BY <1>1 DEF Inv, Exclusion, NoSharers
  <1>5. LockIsCurrent'
    BY <1>1, <1>2 DEF Inv, LockIsCurrent, CurrentSession
  <1>6. SeenIsCurrent'
    <2> DEFINE o == Observation(tx.session)
    <2>1. /\ o.version = db.version
          /\ o.receipts = receipts
          /\ o.safe => /\ Unrefreshed(tx.session) = {}
                       /\ Contradictions(receipts) = {}
      BY DEF Observation
    <2>2. Unrefreshed(tx.session)' = Unrefreshed(tx.session)
      BY <1>1, <1>2 DEF Unrefreshed
    <2>3. Contradictions(tx.seen.receipts)' = Contradictions(receipts)
      BY <1>1, <1>2, <2>1 DEF Contradictions
    <2> QED
      BY <1>1, <1>2, <2>1, <2>2, <2>3 DEF SeenIsCurrent
  <1> QED
    BY <1>3, <1>4, <1>5, <1>6

LEMMA VerifyKeeps ==
    ASSUME Inv, NEW p \in Proofs, Verify(p)
    PROVE  /\ Sound(db)' /\ Sound(backup)'
           /\ Exclusion' /\ VerdictsHold' /\ LockIsCurrent' /\ SeenIsCurrent'
           /\ OpenersAreSpent'
  <1>1. /\ tx # None /\ tx' = None
        /\ UNCHANGED <<backup, generation, verdicts, openers>>
        /\ drawn \subseteq drawn'
    BY DEF Verify
  <1>2. /\ db'.gate = db.gate
        /\ db'.sessions = db.sessions
        /\ db'.proofs = [db.proofs EXCEPT
               ![p] = [session |-> tx.session, report |-> tx.seen]]
        /\ db.proofs \in [Proofs -> ProofRows \cup {None}]
        /\ db.gate \in Gates
    BY DEF Verify, Inv, TypeOK, Databases
  <1>3. [session |-> tx.session, report |-> tx.seen] \in ProofRows
    BY HolderSession, <1>1 DEF Verify, Transactions, ProofRows
  <1>4. db.gate.session = tx.session
    BY <1>1, HolderSession
  <1>5. ASSUME db'.gate.approved # None
        PROVE  /\ db'.proofs[db'.gate.approved] # None
               /\ db'.proofs[db'.gate.approved].session = db'.gate.session
    <2>1. db.gate.approved \in Proofs
      BY <1>2, <1>5 DEF Gates
    <2>2. CASE db.gate.approved = p
      BY <1>2, <1>3, <1>4, <2>2, RecoveryNoneAssumption
    <2>3. CASE db.gate.approved # p
      BY <1>2, <1>5, <2>1, <2>3 DEF Inv, Sound
    <2> QED
      BY <2>2, <2>3
  <1>6. Sound(db)'
    BY <1>1, <1>2, <1>5 DEF Inv, Sound
  <1>7. Sound(backup)' /\ VerdictsHold' /\ OpenersAreSpent'
    BY <1>1, <1>2 DEF Inv, Sound, VerdictsHold, OpenersAreSpent
  <1>8. Exclusion' /\ LockIsCurrent' /\ SeenIsCurrent'
    BY <1>1 DEF Exclusion, LockIsCurrent, SeenIsCurrent
  <1> QED
    BY <1>6, <1>7, <1>8

LEMMA ApproveKeeps ==
    ASSUME Inv, Approve
    PROVE  /\ Sound(db)' /\ Sound(backup)'
           /\ Exclusion' /\ VerdictsHold' /\ LockIsCurrent' /\ SeenIsCurrent'
           /\ OpenersAreSpent'
  <1>1. /\ tx # None /\ tx' = None
        /\ tx.op = "approve"
        /\ UNCHANGED <<backup, generation, verdicts, openers, drawn>>
    BY DEF Approve, Confirmed
  <1>2. /\ tx.session \in Sessions
        /\ db.gate.mode = "closed"
        /\ db.gate.session = tx.session
        /\ db.sessions[tx.session] \in SessionRows
        /\ db.sessions \in [Sessions -> SessionRows \cup {None}]
        /\ db.gate \in Gates
    BY <1>1, HolderSession DEF Databases
  <1>3. /\ tx.proof \in Proofs
        /\ db.proofs[tx.proof] # None
        /\ db.proofs[tx.proof].session = tx.session
    BY <1>1 DEF Inv, LockIsCurrent
  <1>4. /\ db'.gate = [db.gate EXCEPT !.approved = tx.proof]
        /\ db'.sessions = [db.sessions EXCEPT
               ![tx.session] = [@ EXCEPT !.status = "approved"]]
        /\ db'.proofs = db.proofs
    BY DEF Approve, Inv, TypeOK, Databases
  <1>5. /\ db'.gate.mode = "closed"
        /\ db'.gate.session = tx.session
        /\ db'.gate.approved = tx.proof
    BY <1>2, <1>4 DEF Gates
  <1>6. /\ db'.sessions[tx.session].status = "approved"
        /\ db'.sessions[tx.session].binding = db.sessions[tx.session].binding
        /\ db'.sessions[tx.session] # None
        /\ \A s \in Sessions : s # tx.session => db'.sessions[s] = db.sessions[s]
    <2>1. [db.sessions[tx.session] EXCEPT !.status = "approved"] \in SessionRows
      BY <1>2 DEF SessionRows
    <2>2. db'.sessions[tx.session] =
              [db.sessions[tx.session] EXCEPT !.status = "approved"]
      BY <1>2, <1>4
    <2> QED
      BY <1>2, <1>4, <2>1, <2>2, RecoveryNoneAssumption DEF SessionRows
  <1>7. Sound(db)'
    <2>1. ASSUME NEW s \in Sessions, db'.sessions[s] # None
          PROVE  /\ s \in drawn'
                 /\ db'.sessions[s].binding <= generation
                 /\ db'.sessions[s].status # "resumed" => s = tx.session
      BY <1>1, <1>2, <1>6, <2>1, RecoveryNoneAssumption DEF Inv, Sound
    <2> QED
      BY <1>1, <1>2, <1>3, <1>4, <1>5, <1>6, <2>1 DEF Sound
  <1>8. Sound(backup)' /\ VerdictsHold'
    BY <1>1, <1>2, <1>5 DEF Inv, Sound, VerdictsHold
  <1>9. Exclusion' /\ LockIsCurrent' /\ SeenIsCurrent'
    BY <1>1 DEF Exclusion, LockIsCurrent, SeenIsCurrent
  <1>10. OpenersAreSpent'
    BY <1>1, <1>2, <1>5, <1>6 DEF Inv, OpenersAreSpent
  <1> QED
    BY <1>7, <1>8, <1>9, <1>10

\* A reopening: the only session that was alive is resumed, and spent.
LEMMA ResumeKeeps ==
    ASSUME Inv, Resume
    PROVE  /\ Sound(db)' /\ Sound(backup)'
           /\ Exclusion' /\ VerdictsHold' /\ LockIsCurrent' /\ SeenIsCurrent'
           /\ OpenersAreSpent'
  <1>1. /\ tx # None /\ tx' = None
        /\ NoSharers
        /\ UNCHANGED <<backup, generation, verdicts, drawn>>
        /\ openers' = openers \cup {tx.session}
    BY HolderSession DEF Resume, Confirmed
  <1>2. /\ tx.session \in Sessions
        /\ db.gate.session = tx.session
        /\ db.sessions[tx.session] \in SessionRows
        /\ db.sessions \in [Sessions -> SessionRows \cup {None}]
        /\ db.gate \in Gates
    BY <1>1, HolderSession DEF Databases
  <1>3. /\ db'.gate.mode = "open"
        /\ db'.gate.approved = None
        /\ db'.sessions = [db.sessions EXCEPT
               ![tx.session] = [@ EXCEPT !.status = "resumed"]]
    BY DEF Resume, Resumed, Inv, TypeOK, Databases, Gates
  <1>4. db'.sessions[tx.session] =
            [db.sessions[tx.session] EXCEPT !.status = "resumed"]
    BY <1>2, <1>3
  <1>5. ASSUME NEW s \in Sessions, db'.sessions[s] # None
        PROVE  /\ s \in drawn'
               /\ db'.sessions[s].binding <= generation
               /\ db'.sessions[s].status = "resumed"
    <2>1. CASE s = tx.session
      BY <1>1, <1>2, <1>4, <2>1, RecoveryNoneAssumption DEF SessionRows, Inv, Sound
    <2>2. CASE s # tx.session
      BY <1>1, <1>2, <1>3, <1>5, <2>2 DEF Inv, Sound
    <2> QED
      BY <2>1, <2>2
  <1>6. Sound(db)'
    BY <1>1, <1>3, <1>5 DEF Sound
  <1>7. Sound(backup)'
    BY <1>1 DEF Inv, Sound
  <1>8. VerdictsHold'
    BY <1>1 DEF VerdictsHold, NoSharers
  <1>9. Exclusion' /\ LockIsCurrent' /\ SeenIsCurrent'
    BY <1>1 DEF Exclusion, LockIsCurrent, SeenIsCurrent
  <1>10. tx.session \in drawn
    BY <1>2, RecoveryNoneAssumption DEF Inv, Sound
  <1>11. OpenersAreSpent'
    BY <1>1, <1>3, <1>10 DEF Inv, OpenersAreSpent
  <1> QED
    BY <1>6, <1>7, <1>8, <1>9, <1>11

LEMMA LandKeeps ==
    ASSUME Inv, NEW k \in Keys, Land(k)
    PROVE  /\ Sound(db)' /\ Sound(backup)'
           /\ Exclusion' /\ VerdictsHold' /\ LockIsCurrent' /\ SeenIsCurrent'
           /\ OpenersAreSpent'
  <1>1. /\ UNCHANGED <<db, backup, generation, verdicts, drawn, openers>>
        /\ receipts' = receipts \cup {k}
        /\ tx' = IF tx = None THEN None ELSE [tx EXCEPT !.late = @ \cup {k}]
    BY DEF Land
  <1>2. tx # None => /\ tx'.session = tx.session /\ tx'.op = tx.op
                     /\ tx'.proof = tx.proof /\ tx'.seen = tx.seen
                     /\ tx'.late = tx.late \cup {k}
    BY <1>1 DEF Inv, TypeOK, Transactions
  <1>3. tx' # None => tx # None
    BY <1>1
  <1>4. Sound(db)' /\ Sound(backup)' /\ VerdictsHold' /\ OpenersAreSpent'
    BY <1>1 DEF Inv, Sound, VerdictsHold, OpenersAreSpent
  <1>5. Exclusion'
    BY <1>1, <1>3 DEF Inv, Exclusion, NoSharers
  <1>6. LockIsCurrent'
    BY <1>1, <1>2, <1>3 DEF Inv, LockIsCurrent, CurrentSession
  <1>7. SeenIsCurrent'
    <2> SUFFICES ASSUME tx # None, tx.seen # None
                 PROVE  /\ tx'.seen.version = db'.version
                        /\ tx'.seen.receipts \subseteq receipts'
                        /\ receipts' \ tx'.late \subseteq tx'.seen.receipts
                        /\ tx'.seen.safe =>
                               /\ Unrefreshed(tx.session)' = {}
                               /\ Contradictions(tx.seen.receipts)' = {}
      BY <1>2, <1>3 DEF SeenIsCurrent
    <2>1. /\ tx.seen.version = db.version
          /\ tx.seen.receipts \subseteq receipts
          /\ receipts \ tx.late \subseteq tx.seen.receipts
          /\ tx.seen.safe => /\ Unrefreshed(tx.session) = {}
                             /\ Contradictions(tx.seen.receipts) = {}
      BY DEF Inv, SeenIsCurrent
    <2>2. Unrefreshed(tx.session)' = Unrefreshed(tx.session)
      BY <1>1, <1>2 DEF Unrefreshed
    <2>3. Contradictions(tx.seen.receipts)' = Contradictions(tx.seen.receipts)
      BY <1>1, <1>2 DEF Contradictions
    <2> QED
      BY <1>1, <1>2, <2>1, <2>2, <2>3
  <1> QED
    BY <1>4, <1>5, <1>6, <1>7

\* Steps that end every transaction: a restart, and a restore, which replaces
\* the running database by the backup.
LEMMA CrashKeeps ==
    ASSUME Inv, Restart \/ Restore
    PROVE  /\ Sound(db)' /\ Sound(backup)'
           /\ Exclusion' /\ VerdictsHold' /\ LockIsCurrent' /\ SeenIsCurrent'
           /\ OpenersAreSpent'
  <1>1. /\ generation' = generation + 1
        /\ db' \in {db, backup} /\ backup' = backup
        /\ tx' = None
        /\ verdicts' = [w \in Writers |-> "none"]
        /\ UNCHANGED <<drawn, openers>>
    BY DEF Restart, Restore
  <1>2. /\ generation \in Nat
        /\ \A d \in Databases, s \in Sessions :
               d.sessions[s] # None => d.sessions[s].binding \in Nat
    BY RecoveryAssumption
       DEF Inv, TypeOK, Generations, Databases, SessionRows
  <1>3. ASSUME NEW d \in {db, backup}
        PROVE  /\ d.gate.mode = "closed" =>
                      d.gate.session \in Sessions /\ d.sessions[d.gate.session] # None
               /\ d.gate.approved # None =>
                      /\ d.gate.mode = "closed"
                      /\ d.proofs[d.gate.approved] # None
                      /\ d.proofs[d.gate.approved].session = d.gate.session
                      /\ d.sessions[d.gate.session].status = "approved"
               /\ \A s \in Sessions :
                      d.sessions[s] # None =>
                          /\ s \in drawn
                          /\ d.sessions[s].binding < generation'
                          /\ d.sessions[s].status # "resumed" =>
                                 d.gate.mode = "closed" /\ d.gate.session = s
    <2>1. Sound(d) /\ d \in Databases
      BY DEF Inv, TypeOK
    <2>2. ASSUME NEW s \in Sessions, d.sessions[s] # None
          PROVE  d.sessions[s].binding < generation'
      <3>1. d.sessions[s].binding <= generation /\ d.sessions[s].binding \in Nat
        BY <1>2, <2>1, <2>2 DEF Sound
      <3> QED
        BY <1>1, <1>2, <3>1
    <2> QED
      BY <2>1, <2>2 DEF Sound
  <1>4. generation' \in Nat
    BY <1>1, <1>2
  <1>5. ASSUME NEW d \in {db, backup}, NEW s \in Sessions,
               d.sessions[s] # None
        PROVE  d.sessions[s].binding <= generation'
    <2>1. d.sessions[s].binding \in Nat
      BY <1>2, <1>5 DEF Inv, TypeOK
    <2>2. d.sessions[s].binding < generation'
      BY <1>3, <1>5
    <2> QED
      BY <1>4, <2>1, <2>2
  <1>6. Sound(db)'
    BY <1>1, <1>3, <1>5 DEF Sound
  <1>7. Sound(backup)'
    BY <1>1, <1>3, <1>5 DEF Sound
  <1>8. Exclusion' /\ VerdictsHold' /\ LockIsCurrent' /\ SeenIsCurrent'
    BY <1>1 DEF Exclusion, VerdictsHold, LockIsCurrent, SeenIsCurrent
  <1>9. OpenersAreSpent'
    <2>1. openers \subseteq drawn /\ openers \subseteq Sessions
      BY DEF Inv, OpenersAreSpent, TypeOK
    <2> QED
      BY <1>1, <1>3, <2>1 DEF OpenersAreSpent
  <1> QED
    BY <1>6, <1>7, <1>8, <1>9

\* Steps that leave the control database and its open transactions alone, or
\* end some of the latter.
LEMMA QuietKeeps ==
    ASSUME Inv,
           \/ Abort \/ StartRuntime \/ StopRuntime \/ Backup
           \/ \E p \in Proofs : Age(p)
           \/ UNCHANGED vars
    PROVE  /\ Sound(db)' /\ Sound(backup)'
           /\ Exclusion' /\ VerdictsHold' /\ LockIsCurrent' /\ SeenIsCurrent'
           /\ OpenersAreSpent'
  <1>1. /\ UNCHANGED <<db, generation, receipts, drawn, openers>>
        /\ backup' \in {db, backup}
        /\ tx' \in {tx, None}
        /\ verdicts' \in {verdicts, [w \in Writers |-> "none"]}
    BY DEF Abort, StartRuntime, StopRuntime, Backup, Age, vars
  <1>2. Sound(db)' /\ Sound(backup)'
    BY <1>1 DEF Inv, Sound
  <1>3. VerdictsHold' /\ OpenersAreSpent'
    BY <1>1 DEF Inv, VerdictsHold, OpenersAreSpent
  <1>4. Exclusion'
    BY <1>1 DEF Inv, Exclusion, NoSharers
  <1>5. LockIsCurrent'
    BY <1>1 DEF Inv, LockIsCurrent, CurrentSession
  <1>6. SeenIsCurrent'
    BY <1>1 DEF Inv, SeenIsCurrent, Unrefreshed, Contradictions
  <1> QED
    BY <1>2, <1>3, <1>4, <1>5, <1>6

-----------------------------------------------------------------------------
(***************************************************************************)
(* The invariant.                                                          *)
(***************************************************************************)
LEMMA InvStep ==
    ASSUME Inv, [Next]_vars
    PROVE  Inv'
  <1> DEFINE Kept == /\ Sound(db)' /\ Sound(backup)'
                     /\ Exclusion' /\ VerdictsHold' /\ LockIsCurrent'
                     /\ SeenIsCurrent' /\ OpenersAreSpent'
  <1>1. ASSUME Business
        PROVE  Kept
    <2>1. PICK w \in Writers :
              \/ Enter(w) \/ Leave(w)
              \/ \E k \in Keys : \/ Admit(w, k) \/ Authorise(w, k)
                                 \/ Finish(w, k) \/ Requeue(w, k)
              \/ \E f \in Facts : Ingest(w, f)
      BY <1>1 DEF Business
    <2>2. CASE Enter(w) \/ Leave(w)
      BY <2>2, EnterKeeps
    <2>3. CASE ~(Enter(w) \/ Leave(w))
      BY <2>1, <2>3, BusinessWrites, WriteKeeps
    <2> QED
      BY <2>2, <2>3
  <1>2. ASSUME Coordinator
        PROVE  Kept
    BY <1>2, BeginKeeps, LockKeeps, ObserveKeeps, VerifyKeeps, ApproveKeeps,
       ResumeKeeps, QuietKeeps DEF Coordinator
  <1>3. ASSUME Environment
        PROVE  Kept
    BY <1>3, LandKeeps, CrashKeeps, QuietKeeps DEF Environment
  <1>4. ASSUME UNCHANGED vars
        PROVE  Kept
    BY <1>4, QuietKeeps
  <1>5. Kept
    BY <1>1, <1>2, <1>3, <1>4 DEF Next
  <1> QED
    BY <1>5, TypeStep DEF Inv

\* The gate, its sessions and proofs, and what each party remembers of them,
\* stay consistent through every interleaving, restart and restore of
\* recovery.py and recovery.sql.
THEOREM Invariance == Spec => []Inv
  <1>1. Init => Inv
    BY InitInv
  <1>2. Inv /\ [Next]_vars => Inv'
    BY InvStep
  <1> QED
    BY <1>1, <1>2, PTL DEF Spec

\* Rows of the control database always have the shape of recovery.sql, a
\* session bound to a generation that has existed included.
THEOREM TypeCorrect == Spec => []TypeOK
  <1>1. Inv => TypeOK
    BY DEF Inv
  <1> QED
    BY <1>1, Invariance, PTL

\* An approval never outlives or precedes the closing it was given for, and at
\* most the gate's own session is alive (Recovery.begin, approve, resume).
THEOREM ApprovalIsForThisClosing == Spec => []ApprovalBelongsToClosing
  <1>1. Inv => ApprovalBelongsToClosing
    BY DEF Inv, Sound, ApprovalBelongsToClosing
  <1> QED
    BY <1>1, Invariance, PTL

-----------------------------------------------------------------------------
(***************************************************************************)
(* While the gate is closed.                                               *)
(***************************************************************************)

\* Only business transactions change jobs, in one generation.
LEMMA JobsStay ==
    ASSUME Inv, Coordinator \/ Environment \/ UNCHANGED vars,
           generation' = generation
    PROVE  db'.jobs = db.jobs /\ flying' \subseteq flying
  <1>1. db \in Databases /\ generation \in Nat
    BY RecoveryAssumption DEF Inv, TypeOK, Generations
  <1>2. CASE Coordinator
    BY <1>1, <1>2 DEF Coordinator, Begin, Lock, Observe, Verify, Approve,
       Resume, Resumed, Abort, Databases
  <1>3. CASE Environment
    <2>1. ~Restart /\ ~Restore
      BY <1>1 DEF Restart, Restore
    <2> QED
      BY <1>3, <2>1 DEF Environment, Land, Age, StartRuntime, StopRuntime, Backup
  <1>4. CASE UNCHANGED vars
    BY <1>4 DEF vars
  <1> QED
    BY <1>2, <1>3, <1>4

LEMMA ClosedStep ==
    ASSUME Inv, [Next]_vars, generation' = generation, db.gate.mode = "closed"
    PROVE  /\ flying' \subseteq flying
           /\ \A k \in Keys :
                  db.jobs[k].status = "none" => db'.jobs[k].status = "none"
  <1>1. ASSUME NEW w \in Writers, Enter(w) \/ Leave(w)
        PROVE  db'.jobs = db.jobs /\ flying' = flying
    BY <1>1 DEF Enter, Leave
  <1>2. ASSUME NEW w \in Writers, NEW j \in Keys,
               Admit(w, j) \/ Authorise(w, j) \/ Finish(w, j) \/ Requeue(w, j)
        PROVE  /\ flying' = flying
               /\ \A k \in Keys :
                      db.jobs[k].status = "none" => db'.jobs[k].status = "none"
    <2>1. ~Admit(w, j) /\ ~Authorise(w, j)
      BY DEF Inv, VerdictsHold, Admit, Authorise
    <2>2. PICK job \in JobStates :
              /\ Commit(w, SetJob(j, job), db.observed)
              /\ flying' = flying
              /\ db.jobs[j].status # "none"
      BY <1>2, <2>1, BusinessCommits DEF Inv
    <2>3. db'.jobs = [db.jobs EXCEPT ![j] = job]
      BY <2>2, CommitWrites DEF SetJob
    <2>4. db.jobs \in [Keys -> JobStates]
      BY DEF Inv, TypeOK, Databases
    <2> QED
      BY <2>2, <2>3, <2>4
  <1>3. ASSUME NEW w \in Writers, NEW f \in Facts, Ingest(w, f)
        PROVE  db'.jobs = db.jobs /\ flying' = flying
    BY <1>3, CommitWrites DEF Ingest
  <1>4. CASE Business
    BY <1>1, <1>2, <1>3, <1>4 DEF Business
  <1>5. CASE ~Business
    BY <1>5, JobsStay DEF Next
  <1> QED
    BY <1>4, <1>5

\* Once the gate is closed no job is admitted and no dispatch authorised, not
\* even by a transaction that began before (recovery.sql, execution_open).
THEOREM ClosingStopsWork == Spec => ClosedStopsWork
  <1>1. Inv /\ [Next]_vars =>
            [generation' = generation /\ db.gate.mode = "closed" =>
                /\ flying' \subseteq flying
                /\ \A k \in Keys :
                       db.jobs[k].status = "none" =>
                           db'.jobs[k].status = "none"]_vars
    BY ClosedStep
  <1> QED
    BY <1>1, Invariance, PTL DEF Spec, ClosedStopsWork

-----------------------------------------------------------------------------
(***************************************************************************)
(* When the gate reopens.                                                  *)
(***************************************************************************)
LEMMA OnlyResumeReopens ==
    ASSUME Inv, [Next]_vars, Reopening
    PROVE  Resume
  <1>0. /\ generation \in Nat
        /\ db \in Databases
        /\ db.gate \in Gates
        /\ db.gate.mode = "closed"
        /\ db'.gate.mode = "open"
        /\ generation' = generation
    BY RecoveryAssumption DEF Inv, TypeOK, Generations, Databases, Reopening
  <1>1. ~Business
    <2>1. ASSUME NEW w \in Writers
          PROVE  ~Enter(w) /\ ~Leave(w)
      BY <1>0 DEF Enter, Leave
    <2> QED
      BY <1>0, <2>1, BusinessWrites DEF Business, BusinessWrite
  <1>2. ~Restart /\ ~Restore
    BY <1>0 DEF Restart, Restore
  <1>3. ~Environment
    BY <1>0, <1>2
       DEF Environment, Land, Age, StartRuntime, StopRuntime, Backup
  <1>4. ~UNCHANGED vars
    BY <1>0 DEF vars
  <1>5. ASSUME Approve
        PROVE  db'.gate.mode = db.gate.mode
    <2>1. db'.gate = [db.gate EXCEPT !.approved = tx.proof]
      BY <1>0, <1>5 DEF Approve, Databases
    <2> QED
      BY <1>0, <2>1 DEF Gates
  <1>6. Coordinator => Resume
    BY <1>0, <1>5
       DEF Coordinator, Begin, Lock, Observe, Verify, Abort, Databases
  <1> QED
    BY <1>1, <1>3, <1>4, <1>6 DEF Next

\* What the resuming transaction stands on.
LEMMA Standing ==
    ASSUME Inv, [Next]_vars, Reopening
    PROVE  /\ tx # None
           /\ db.gate.session = tx.session /\ tx.session \in Sessions
           /\ db.sessions[tx.session] \in SessionRows
           /\ db.sessions[tx.session].binding = generation
           /\ db.gate.approved = tx.proof /\ tx.proof \in Proofs
           /\ db.proofs[tx.proof].session = tx.session
           /\ db.proofs[tx.proof].report = tx.seen
           /\ tx.seen.safe
           /\ tx.seen.version = db.version
           /\ tx.seen.receipts \subseteq receipts
           /\ receipts \ tx.late \subseteq tx.seen.receipts
           /\ Unrefreshed(tx.session) = {}
           /\ Contradictions(tx.seen.receipts) = {}
  <1>1. /\ tx # None /\ tx.op = "resume" /\ tx.seen # None
        /\ tx.seen.safe
        /\ tx.seen = db.proofs[tx.proof].report
        /\ db.gate.approved = tx.proof
    BY OnlyResumeReopens DEF Resume, Confirmed
  <1>2. /\ tx.proof \in Proofs
        /\ db.proofs[tx.proof].session = tx.session
    BY <1>1 DEF Inv, LockIsCurrent
  <1>3. /\ tx.seen.version = db.version
        /\ tx.seen.receipts \subseteq receipts
        /\ receipts \ tx.late \subseteq tx.seen.receipts
        /\ Unrefreshed(tx.session) = {}
        /\ Contradictions(tx.seen.receipts) = {}
    BY <1>1 DEF Inv, SeenIsCurrent
  <1> QED
    BY <1>1, <1>2, <1>3, HolderSession

LEMMA EvidenceStep ==
    ASSUME Inv, [Next]_vars, Reopening
    PROVE  /\ db.gate.session \in Sessions /\ db.gate.approved \in Proofs
           /\ db.sessions[db.gate.session].binding = generation
           /\ db.proofs[db.gate.approved].session = db.gate.session
           /\ db.proofs[db.gate.approved].report.safe
           /\ db.proofs[db.gate.approved].report.version = db.version
           /\ \A f \in Facts :
                  db.observed[f] > db.sessions[db.gate.session].since
  <1>1. ASSUME NEW f \in Facts
        PROVE  db.observed[f] > db.sessions[db.gate.session].since
    <2>1. ~(db.observed[f] <= db.sessions[db.gate.session].since)
      BY Standing DEF Unrefreshed
    <2>2. db.observed[f] \in Nat
      BY RecoveryAssumption DEF Inv, TypeOK, Databases
    <2>3. db.sessions[db.gate.session].since \in Nat
      BY Standing, RecoveryAssumption DEF SessionRows
    <2> QED
      BY <2>1, <2>2, <2>3
  <1> QED
    BY <1>1, Standing

\* The gate reopens only in the generation its session is bound to, on an
\* approved safe proof whose fingerprint is that of the database now, with
\* every authority fact observed since the session began (Recovery.resume).
THEOREM ReopeningIsCurrent == Spec => OpensOnCurrentEvidence
  <1> DEFINE Current ==
        LET s == db.gate.session
            p == db.gate.approved
        IN  /\ s \in Sessions /\ p \in Proofs
            /\ db.sessions[s].binding = generation
            /\ db.proofs[p].session = s
            /\ db.proofs[p].report.safe
            /\ db.proofs[p].report.version = db.version
            /\ \A f \in Facts : db.observed[f] > db.sessions[s].since
  <1>1. Inv /\ [Next]_vars => [Reopening => Current]_vars
    BY EvidenceStep
  <1> QED
    BY <1>1, Invariance, PTL DEF Spec, OpensOnCurrentEvidence

\* When the gate reopens, receipts and jobs account for each other, but for
\* receipts that landed after the resuming transaction had looked
\* (Recovery._observe, compare_receipts).
THEOREM ReopeningIsReconciled == Spec => OpensReconciled
  <1> DEFINE Reconciled(k) ==
        /\ k \in receipts \ tx.late =>
               \/ db.jobs[k].status = "succeeded"
               \/ db.jobs[k].status = "waiting" /\ db.jobs[k].uncertain
        /\ db.jobs[k].status = "succeeded" => k \in receipts
  <1>1. ASSUME Inv, [Next]_vars, Reopening, NEW k \in Keys
        PROVE  Reconciled(k)
    <2>1. k \notin Contradictions(tx.seen.receipts)
      BY <1>1, Standing
    <2>2. IF k \in tx.seen.receipts
          THEN \/ db.jobs[k].status = "succeeded"
               \/ db.jobs[k].status = "waiting" /\ db.jobs[k].uncertain
          ELSE db.jobs[k].status # "succeeded"
      BY <2>1 DEF Contradictions
    <2>3. /\ tx.seen.receipts \subseteq receipts
          /\ receipts \ tx.late \subseteq tx.seen.receipts
      BY <1>1, Standing
    <2> QED
      BY <2>2, <2>3
  <1>2. Inv /\ [Next]_vars => [Reopening => \A k \in Keys : Reconciled(k)]_vars
    BY <1>1
  <1> QED
    BY <1>2, Invariance, PTL DEF Spec, OpensReconciled

\* A session opens the gate at most once, even when a restore brings back the
\* database in which it was still closed and approved (Recovery._session).
THEOREM ASessionOpensOnce == Spec => SessionsAreSpent
  <1>1. ASSUME Inv, [Next]_vars, Reopening
        PROVE  db.gate.session \notin openers
    <2>1. generation \in Nat
      BY <1>1, RecoveryAssumption DEF Inv, TypeOK, Generations
    <2>2. db.sessions[db.gate.session].binding = generation
      BY <1>1, Standing
    <2>3. db.gate.mode = "closed"
      BY <1>1 DEF Reopening
    <2> QED
      BY <1>1, <2>1, <2>2, <2>3 DEF Inv, OpenersAreSpent
  <1>2. Inv /\ [Next]_vars => [Reopening => db.gate.session \notin openers]_vars
    BY <1>1
  <1> QED
    BY <1>2, Invariance, PTL DEF Spec, SessionsAreSpent

=============================================================================
