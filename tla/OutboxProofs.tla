---------------------------- MODULE OutboxProofs ----------------------------
(***************************************************************************)
(* Proofs about the outbox, for every number of customers, requests and    *)
(* workers and every bound.                                                *)
(***************************************************************************)
EXTENDS Outbox, TLAPS

-----------------------------------------------------------------------------
(***************************************************************************)
(* The inductive invariant.  Each part says what one piece of state knows  *)
(* about another.                                                          *)
(***************************************************************************)

\* A worker at work has a job; the row exists, and its lease token is one of
\* those drawn for that job.
WorkersBound ==
    \A w \in Workers :
        workers[w].phase # "idle" =>
            /\ workers[w].job \in Requests
            /\ jobs[workers[w].job] # None
            /\ workers[w].token \in 1 .. issued[workers[w].job]
            /\ workers[w].phase = "finish" => workers[w].outcome # None

\* Lease tokens are fresh: none is ahead of those drawn, and no two workers at
\* work share one.
TokensFresh ==
    /\ \A r \in Requests : jobs[r] # None => jobs[r].token <= issued[r]
    /\ \A v, w \in Workers :
           /\ workers[v].phase # "idle"
           /\ workers[w].phase # "idle"
           /\ workers[v].job = workers[w].job
           /\ workers[v].token = workers[w].token
           => v = w

\* What policy decided is kept with the proposal; a job exists only for a
\* proposal that was allowed, or approved by another actor.
JobsAuthorised ==
    /\ \A r \in Requests :
           proposals[r] # None /\ proposals[r].decision = "allow" =>
               proposals[r].action # "send_marketing"
    /\ \A r \in Requests :
           jobs[r] # None =>
               /\ proposals[r] # None
               /\ proposals[r].decision \in {"allow", "approval"}
               /\ proposals[r].decision = "approval" =>
                      proposals[r].approvedBy \notin {None, proposals[r].actor}

\* A stored mutation was computed for the proposal's customer, action and
\* revision; as long as that revision lasts it is what would be computed now.
MutationCurrent ==
    \A r \in Requests :
        jobs[r] # None /\ jobs[r].mutation # None =>
            LET p == proposals[r]
                m == jobs[r].mutation
            IN  /\ m.customer = p.customer
                /\ m.action = p.action
                /\ m.revision = p.revision
                /\ customers[p.customer].revision >= p.revision
                /\ customers[p.customer].revision = p.revision =>
                       m = MutationOf(p.customer, p.action, customers[p.customer])

\* An uncertain job has a stored mutation, and a worker about to look up or
\* send a mutation has the stored one in memory.
MemoryTrue ==
    /\ \A r \in Requests :
           jobs[r] # None /\ jobs[r].uncertain => jobs[r].mutation # None
    /\ \A w \in Workers :
           workers[w].phase \in {"lookup", "dispatch", "await"} =>
               /\ workers[w].mutation # None
               /\ workers[w].mutation = jobs[workers[w].job].mutation

\* Only a worker that waits for one has a reply in its hands; a receipt is for
\* its mutation, and the effect exists.
ReceiptsTrue ==
    \A w \in Workers :
        workers[w].reply # None =>
            /\ workers[w].phase = "await"
            /\ workers[w].reply.code = "2xx" =>
                   /\ workers[w].reply.hash = workers[w].mutation
                   /\ effects[workers[w].job] # None

\* What execute may ask finish to record for job r.
TrueOutcome(o, r) ==
    /\ o.status \in {"succeeded", "retry", "dead", "blocked"}
    /\ o.reason \notin {"mutation_changed", "remote_identity_conflict",
                        "retry_exhausted"}
    /\ o.reason = "remote_rejected" => o.status = "dead"
    /\ o.status = "succeeded" => o.clear /\ effects[r] # None

OutcomesTrue ==
    \A w \in Workers :
        workers[w].phase = "finish" =>
            TrueOutcome(workers[w].outcome, workers[w].job)

\* The account of a job's budget: what is charged beyond the lapsed leases is
\* below MaxAttempts while the job waits, so that a claim may add one, and above
\* zero while it is leased, so that a deferral may take one back.
AttemptsPaid ==
    \A r \in Requests :
        jobs[r] # None =>
            /\ jobs[r].attempts >= jobs[r].lapsed
            /\ jobs[r].attempts <= jobs[r].lapsed + MaxAttempts
            /\ jobs[r].status \in {"ready", "retry"} =>
                   jobs[r].attempts < jobs[r].lapsed + MaxAttempts
            /\ jobs[r].status = "leased" => jobs[r].attempts > jobs[r].lapsed

Inv ==
    /\ TypeOK
    /\ WorkersBound
    /\ TokensFresh
    /\ JobsAuthorised
    /\ MutationCurrent
    /\ MemoryTrue
    /\ EffectMatchesIntent
    /\ ReceiptsTrue
    /\ OutcomesTrue
    /\ NoIdentityConflict
    /\ SuccessHasEffect
    /\ InFlightIsUncertain
    /\ RequeueIsUnique
    /\ AttemptsPaid

-----------------------------------------------------------------------------
(***************************************************************************)
(* Type correctness.                                                       *)
(***************************************************************************)

\* The policy answers with a decision and a reason.
LEMMA DecisionType ==
    ASSUME NEW a \in Actions, NEW s, NEW m, NEW n
    PROVE  /\ action_decision(a, s, m, n)[1] \in Decisions
           /\ action_decision(a, s, m, n)[2] \in ActionReasons
  BY DEF action_decision, Decisions, ActionReasons

\* valid_proposal answers "none" or a reason to block.
LEMMA ValidProposalType ==
    ASSUME NEW p \in ProposalRecords, NEW row, NEW b
    PROVE  valid_proposal(p, row, b) \in
               (BlockReasons \ {"mutation_changed"}) \cup {"none"}
  <1>1. p.action \in Actions
    BY DEF ProposalRecords
  <1>2. action_decision(p.action, row.state, row.revision, p.revision)[2]
            \in ActionReasons
    BY <1>1, DecisionType
  <1> QED
    BY <1>2 DEF valid_proposal, BlockReasons, ActionReasons

\* An executable proposal is for the customer's current revision; and if it
\* was not denied when submitted, policy decides the same way now.
LEMMA ValidIsCurrent ==
    ASSUME NEW p \in ProposalRecords, NEW row, NEW b,
           valid_proposal(p, row, b) = "none"
    PROVE  /\ row.revision = p.revision
           /\ p.action = "send_marketing" /\ b => p.approvedBy # None
  <1> DEFINE d == action_decision(p.action, row.state, row.revision, p.revision)
  <1>1. p.action \in Actions
    BY DEF ProposalRecords
  <1>2. d[2] # "none"
    BY <1>1, DecisionType DEF ActionReasons
  <1>3. d[1] # "deny"
    BY <1>2 DEF valid_proposal
  <1>4. row.revision = p.revision
    BY <1>3 DEF action_decision
  <1>5. p.action = "send_marketing" => d[1] = "approval"
    BY <1>3 DEF action_decision
  <1> QED
    BY <1>4, <1>5 DEF valid_proposal

\* The mutation computed from a customer row is a mutation, and records whose
\* it is, what it does and for which revision.
LEMMA MutationType ==
    ASSUME NEW c \in Customers, NEW a \in Actions, NEW row \in CustomerRecords
    PROVE  /\ MutationOf(c, a, row) \in Mutations
           /\ MutationOf(c, a, row) # None
           /\ MutationOf(c, a, row).customer = c
           /\ MutationOf(c, a, row).action = a
           /\ MutationOf(c, a, row).revision = row.revision
  <1>1. row.revision \in Revisions /\ row.state \in CustomerStates
    BY DEF CustomerRecords
  <1>2. MutationOf(c, a, row)
          = MutationOf(c, a, [revision |-> row.revision, state |-> row.state])
    BY DEF MutationOf
  <1>3. MutationOf(c, a, row) \in Mutations
    BY <1>1, <1>2 DEF Mutations
  <1> QED
    BY <1>3, NoneAssumption DEF MutationOf

LEMMA NewJobType == NewJob \in JobRecords
  BY DEF NewJob, JobRecords, Statuses, Reasons

LEMMA IdleType == IdleWorker \in WorkerRecords
  BY DEF IdleWorker, WorkerRecords, Phases

\* Finishing with an outcome keeps the worker's memory well-formed.
LEMMA FinishWithType ==
    ASSUME workers \in [Workers -> WorkerRecords], NEW w \in Workers,
           NEW o \in Outcomes, FinishWith(w, o)
    PROVE  workers' \in [Workers -> WorkerRecords]
  <1>1. [workers[w] EXCEPT !.phase = "finish", !.reply = None, !.outcome = o]
          \in WorkerRecords
    BY DEF WorkerRecords, Phases
  <1> QED
    BY <1>1 DEF FinishWith

LEMMA OutcomeType ==
    ASSUME NEW s \in Statuses, NEW x \in Reasons, NEW b \in BOOLEAN
    PROVE  Outcome(s, x, b) \in Outcomes
  BY DEF Outcome, Outcomes

LEMMA OutcomeOfType ==
    ASSUME NEW reply \in Replies, NEW m
    PROVE  OutcomeOf(reply, m) \in Outcomes
  BY DEF OutcomeOf, Replies, Codes, Outcome, Outcomes, Statuses, Reasons

\* Every action keeps TypeOK.
LEMMA TypeInit == Init => TypeOK
  <1> SUFFICES ASSUME Init PROVE TypeOK
    OBVIOUS
  <1>1. customers \in [Customers -> CustomerRecords]
    BY BoundsAssumption DEF Init, CustomerRecords, Revisions
  <1>2. workers \in [Workers -> WorkerRecords]
    BY IdleType DEF Init
  <1> QED
    BY <1>1, <1>2, BoundsAssumption DEF Init, TypeOK

LEMMA TypeApi ==
    ASSUME TypeOK, ApiStep
    PROVE  TypeOK'
  <1>1. ASSUME NEW c \in Customers, NEW s \in CustomerStates, Ingest(c, s)
        PROVE  TypeOK'
    <2>1. [revision |-> customers[c].revision + 1, state |-> s] \in CustomerRecords
      BY <1>1, BoundsAssumption DEF Ingest, TypeOK, CustomerRecords, Revisions
    <2> QED
      BY <1>1, <2>1 DEF Ingest, TypeOK
  <1>2. ASSUME NEW a \in Actors, NEW r \in Requests, NEW c \in Customers,
               NEW act \in Actions, NEW n \in Revisions, Propose(a, r, c, act, n)
        PROVE  TypeOK'
    <2> DEFINE d == action_decision(act, customers[c].state,
                                    customers[c].revision, n)[1]
    <2>1. d \in Decisions
      BY DecisionType
    <2>2. [customer |-> c, actor |-> a, action |-> act, revision |-> n,
           decision |-> d, approvedBy |-> None, expired |-> FALSE,
           approvalExpired |-> FALSE] \in ProposalRecords
      BY <2>1 DEF ProposalRecords
    <2>3. proposals' \in [Requests -> ProposalRecords \cup {None}]
      BY <1>2, <2>2 DEF Propose, TypeOK
    <2>4. jobs' \in [Requests -> JobRecords \cup {None}]
      BY <1>2, NewJobType DEF Propose, TypeOK
    <2>5. exceptions' \in SUBSET ExceptionRecords
      BY <1>2 DEF Propose, TypeOK, Exception, ExceptionRecords, Categories
    <2> QED
      BY <1>2, <2>3, <2>4, <2>5 DEF Propose, TypeOK
  <1>3. ASSUME NEW r \in Requests, ProposeConflict(r)
        PROVE  TypeOK'
    BY <1>3, BoundsAssumption DEF ProposeConflict, TypeOK, Exception,
       ExceptionRecords, Categories, Disturb
  <1>4. ASSUME NEW a \in Actors, NEW r \in Requests, NEW n \in Revisions,
               Approve(a, r, n)
        PROVE  TypeOK'
    <2>1. proposals' \in [Requests -> ProposalRecords \cup {None}]
      BY <1>4 DEF Approve, TypeOK, ProposalRecords
    <2>2. jobs' \in [Requests -> JobRecords \cup {None}]
      BY <1>4, NewJobType DEF Approve, TypeOK
    <2> QED
      BY <1>4, <2>1, <2>2 DEF Approve, TypeOK
  <1>5. ASSUME NEW a \in Actors, NEW r \in Requests, NEW n \in Revisions,
               ApproveDenied(a, r, n)
        PROVE  TypeOK'
    BY <1>5, BoundsAssumption DEF ApproveDenied, TypeOK, Exception,
       ExceptionRecords, Categories, Disturb
  <1>6. ASSUME NEW e \in exceptions, Acknowledge(e)
        PROVE  TypeOK'
    BY <1>6 DEF Acknowledge, TypeOK
  <1>7. ASSUME NEW e \in exceptions, Requeue(e)
        PROVE  TypeOK'
    <2>1. e.subject \in Requests
      BY DEF TypeOK, ExceptionRecords
    <2>2. [jobs[e.subject] EXCEPT !.status = "retry", !.attempts = 0,
                                  !.lapsed = 0, !.due = TRUE] \in JobRecords
      BY ZenonT(60), <1>7, <2>1 DEF Requeue, TypeOK, JobRecords, Statuses
    <2>3. jobs' \in [Requests -> JobRecords \cup {None}]
      BY <1>7, <2>1, <2>2 DEF Requeue, TypeOK
    <2> QED
      BY <1>7, <2>3, BoundsAssumption DEF Requeue, TypeOK, Disturb
  <1> QED
    BY <1>1, <1>2, <1>3, <1>4, <1>5, <1>6, <1>7 DEF ApiStep

LEMMA TypeClock ==
    ASSUME TypeOK, ClockStep
    PROVE  TypeOK'
  <1>1. ASSUME NEW r \in Requests, ExpireProposal(r)
        PROVE  TypeOK'
    BY ZenonT(60), <1>1 DEF ExpireProposal, TypeOK, ProposalRecords
  <1>2. ASSUME NEW r \in Requests, ExpireApproval(r)
        PROVE  TypeOK'
    BY ZenonT(60), <1>2 DEF ExpireApproval, TypeOK, ProposalRecords
  <1>3. ASSUME NEW r \in Requests, Elapse(r)
        PROVE  TypeOK'
    <2>1. jobs' \in [Requests -> JobRecords \cup {None}]
      BY ZenonT(60), <1>3 DEF Elapse, TypeOK, JobRecords
    <2>2. disturbances' \in 0 .. MaxDisturbances
      BY <1>3, BoundsAssumption DEF Elapse, TypeOK, Disturb
    <2> QED
      BY <1>3, <2>1, <2>2 DEF Elapse, TypeOK
  <1> QED
    BY <1>1, <1>2, <1>3 DEF ClockStep

LEMMA TypeWorker ==
    ASSUME Inv, NEW w \in Workers, WorkerStep(w) \/ Crash(w)
    PROVE  TypeOK'
  <1> USE DEF Inv
  <1> DEFINE me == workers[w]
             r == me.job
  <1>0. me \in WorkerRecords
    BY DEF TypeOK
  <1>1. ASSUME NEW q \in Requests, Claim(w, q)
        PROVE  TypeOK'
    <2>1. jobs[q] \in JobRecords /\ issued[q] + 1 \in Nat
      BY <1>1 DEF Claim, TypeOK
    <2>2. jobs' \in [Requests -> JobRecords \cup {None}]
      <3>1. /\ jobs[q].attempts + 1 \in Nat
            /\ jobs[q].lapsed + (IF jobs[q].status = "leased" THEN 1 ELSE 0)
                 \in Nat
        BY <2>1 DEF JobRecords
      <3>2. [jobs[q] EXCEPT !.status = "leased", !.attempts = jobs[q].attempts + 1,
                            !.lapsed = jobs[q].lapsed +
                                IF jobs[q].status = "leased" THEN 1 ELSE 0,
                            !.token = issued[q] + 1, !.due = FALSE] \in JobRecords
        BY <2>1, <3>1 DEF JobRecords, Statuses
      <3> QED
        BY <1>1, <3>2 DEF Claim, TypeOK
    <2>3. [IdleWorker EXCEPT
               !.phase = IF jobs[q].uncertain THEN "lookup" ELSE "prepare",
               !.job = q, !.token = issued[q] + 1,
               !.mutation = jobs[q].mutation] \in WorkerRecords
      BY <2>1 DEF IdleWorker, WorkerRecords, Phases, JobRecords
    <2>4. workers' \in [Workers -> WorkerRecords]
      BY <1>1, <2>3 DEF Claim, TypeOK
    <2> QED
      BY <1>1, <2>1, <2>2, <2>4 DEF Claim, TypeOK
  <1>2. CASE Lookup(w)
    <2>1. workers' \in [Workers -> WorkerRecords]
      <3>1. CASE workers' = [workers EXCEPT ![w].phase = "prepare"]
        BY <3>1 DEF TypeOK, WorkerRecords, Phases
      <3>2. CASE \E o \in Outcomes : FinishWith(w, o)
        BY <3>2, FinishWithType DEF TypeOK
      <3> QED
        BY <1>2, <3>1, <3>2, OutcomeType DEF Lookup, Statuses, Reasons
    <2> QED
      BY <1>2, <2>1 DEF Lookup, TypeOK
  <1>3. CASE LookupFails(w)
    <2>1. \E o \in Outcomes : FinishWith(w, o)
      BY <1>3, OutcomeType DEF LookupFails, Statuses, Reasons
    <2>2. workers' \in [Workers -> WorkerRecords]
      BY <2>1, FinishWithType DEF TypeOK
    <2> QED
      BY <1>3, <2>2 DEF LookupFails, TypeOK
  <1>4. CASE Prepare(w)
    <2> DEFINE p == proposals[r]
               row == customers[p.customer]
               reason == valid_proposal(p, row, TRUE)
               mutation == MutationOf(p.customer, p.action, row)
    <2>1. /\ r \in Requests
          /\ jobs[r] \in JobRecords
          /\ p \in ProposalRecords
      BY <1>4 DEF Prepare, TypeOK, WorkersBound, JobsAuthorised
    <2>2. p.customer \in Customers /\ p.action \in Actions /\ row \in CustomerRecords
      BY <2>1 DEF ProposalRecords, TypeOK
    <2>3. mutation \in Mutations
      BY <2>2, MutationType
    <2>4. reason \in BlockReasons \cup {"none"}
      BY <2>1, ValidProposalType
    <2>5. CASE \E o \in Outcomes : FinishWith(w, o) /\ UNCHANGED jobs
      <3>1. workers' \in [Workers -> WorkerRecords]
        BY <2>5, FinishWithType DEF TypeOK
      <3> QED
        BY <1>4, <2>5, <3>1 DEF Prepare, TypeOK
    <2>6. CASE workers' = [workers EXCEPT ![w] = IdleWorker] /\ UNCHANGED jobs
      BY <1>4, <2>6, IdleType DEF Prepare, TypeOK
    <2>7. CASE /\ jobs' = [jobs EXCEPT
                      ![r] = [@ EXCEPT !.mutation = mutation, !.uncertain = TRUE]]
               /\ workers' = [workers EXCEPT
                      ![w] = [@ EXCEPT !.phase = "dispatch", !.mutation = mutation]]
      <3>1. jobs' \in [Requests -> JobRecords \cup {None}]
        <4>1. [jobs[r] EXCEPT !.mutation = mutation, !.uncertain = TRUE]
                \in JobRecords
          BY <2>1, <2>3 DEF JobRecords
        <4> QED
          BY <2>1, <2>7, <4>1 DEF TypeOK
      <3>2. workers' \in [Workers -> WorkerRecords]
        <4>1. [me EXCEPT !.phase = "dispatch", !.mutation = mutation]
                \in WorkerRecords
          BY <1>0, <2>3 DEF WorkerRecords, Phases
        <4> QED
          BY <2>7, <4>1 DEF TypeOK
      <3> QED
        BY <1>4, <3>1, <3>2 DEF Prepare, TypeOK
    <2>8. /\ Outcome("retry", "recovery_closed", FALSE) \in Outcomes
          /\ Outcome("blocked", "mutation_changed", FALSE) \in Outcomes
          /\ Outcome("blocked", reason, FALSE) \in Outcomes
      BY <2>4, OutcomeType DEF Statuses, Reasons, BlockReasons
    <2> QED
      BY <1>4, <2>5, <2>6, <2>7, <2>8 DEF Prepare, WithIntent
  <1>5. CASE Dispatch(w)
    <2>1. [job |-> r, token |-> me.token, mutation |-> me.mutation] \in PostRecords
      BY <1>0, <1>5 DEF Dispatch, WorkersBound, MemoryTrue, WorkerRecords, PostRecords
    <2>2. workers' \in [Workers -> WorkerRecords]
      BY <1>5 DEF Dispatch, TypeOK, WorkerRecords, Phases
    <2> QED
      BY <1>5, <2>1, <2>2 DEF Dispatch, TypeOK
  <1>6. CASE HandleReply(w)
    <2>1. me.reply \in Replies
      BY <1>0, <1>6 DEF HandleReply, WorkerRecords
    <2>2. workers' \in [Workers -> WorkerRecords]
      BY <1>6, <2>1, OutcomeOfType, FinishWithType DEF HandleReply, TypeOK
    <2> QED
      BY <1>6, <2>2 DEF HandleReply, TypeOK
  <1>7. CASE TransportError(w)
    <2>1. \E o \in Outcomes : FinishWith(w, o)
      BY <1>7, OutcomeType DEF TransportError, Statuses, Reasons
    <2>2. workers' \in [Workers -> WorkerRecords]
      BY <2>1, FinishWithType DEF TypeOK
    <2> QED
      BY <1>7, <2>2 DEF TransportError, TypeOK
  <1>8. CASE Defer(w)
    <2>1. jobs' \in [Requests -> JobRecords \cup {None}]
      <3>1. CASE Holds(w, r)
        <4>1. r \in Requests /\ jobs[r] \in JobRecords
          BY <1>8, <3>1 DEF Defer, Holds, TypeOK, WorkersBound
        <4>2. jobs[r].attempts > 0
          BY <3>1, <4>1 DEF Holds, AttemptsPaid, JobRecords
        <4>3. jobs[r].attempts - 1 \in Nat
          BY <4>1, <4>2 DEF JobRecords
        <4>4. Deferred(jobs[r]) \in JobRecords
          BY <4>1, <4>3 DEF Deferred, JobRecords, Statuses
        <4> QED
          BY <1>8, <3>1, <4>1, <4>4 DEF Defer, TypeOK
      <3>2. CASE ~Holds(w, r)
        BY <1>8, <3>2 DEF Defer, TypeOK
      <3> QED
        BY <3>1, <3>2
    <2> QED
      BY <1>8, <2>1, IdleType, BoundsAssumption DEF Defer, TypeOK, Disturb
  <1>9. CASE Finish(w)
    <2> DEFINE o == FinalOutcome(me.outcome, jobs[r].attempts)
    <2>1. CASE Holds(w, r)
      <3>1. r \in Requests /\ jobs[r] \in JobRecords
        BY <1>9, <2>1 DEF Finish, Holds, TypeOK, WorkersBound
      <3>2. me.outcome \in Outcomes
        BY <1>0, <1>9 DEF Finish, WorkersBound, WorkerRecords
      <3>3. o \in Outcomes
        BY <3>2, OutcomeType DEF FinalOutcome, Outcomes, Outcome, Statuses, Reasons
      <3>4. [jobs[r] EXCEPT !.status = o.status, !.reason = o.reason,
                            !.token = 0, !.due = FALSE,
                            !.uncertain = ~o.clear /\ jobs[r].uncertain]
              \in JobRecords
        <4>1. (~o.clear /\ jobs[r].uncertain) \in BOOLEAN
          BY <3>1 DEF JobRecords
        <4> QED
          BY <3>1, <3>3, <4>1 DEF JobRecords, Outcomes
      <3>5. jobs' \in [Requests -> JobRecords \cup {None}]
        BY <1>9, <2>1, <3>1, <3>4 DEF Finish, TypeOK
      <3>6. Exception(CategoryOf(o.reason), r, me.token) \in ExceptionRecords
        BY <1>0, <3>1 DEF Exception, CategoryOf, ExceptionRecords, Categories,
           WorkerRecords
      <3>7. exceptions' \in SUBSET ExceptionRecords
        BY <1>9, <2>1, <3>6 DEF Finish, TypeOK
      <3> QED
        BY <1>9, <3>5, <3>7, IdleType DEF Finish, TypeOK
    <2>2. CASE ~Holds(w, r)
      BY <1>9, <2>2, IdleType DEF Finish, TypeOK
    <2> QED
      BY <2>1, <2>2
  <1>10. CASE Crash(w)
    BY <1>10, IdleType, BoundsAssumption DEF Crash, TypeOK, Disturb
  <1> QED
    BY <1>1, <1>2, <1>3, <1>4, <1>5, <1>6, <1>7, <1>8, <1>9, <1>10
    DEF WorkerStep

LEMMA TypeMutate ==
    ASSUME TypeOK, NEW m \in posts, Mutate(m)
    PROVE  TypeOK'
  <1>1. m \in PostRecords
    BY DEF TypeOK
  <1>2. m.mutation \in Mutations /\ m.job \in Requests
    BY <1>1 DEF PostRecords
  <1>3. effects' \in [Requests -> Mutations \cup {None}]
    BY <1>2 DEF Mutate, TypeOK
  <1>4. \E reply \in Replies : Deliver(m, reply)
    BY <1>2 DEF Mutate, Reply, Replies, Codes, TypeOK
  <1>5. workers' \in [Workers -> WorkerRecords]
    BY <1>4 DEF Deliver, TypeOK, WorkerRecords
  <1> QED
    BY <1>3, <1>5 DEF Mutate, TypeOK

LEMMA TypeStep ==
    ASSUME Inv, [Next]_vars
    PROVE  TypeOK'
  <1>0. TypeOK
    BY DEF Inv
  <1>1. CASE ApiStep
    BY <1>0, <1>1, TypeApi
  <1>2. CASE ClockStep
    BY <1>0, <1>2, TypeClock
  <1>3. CASE GateStep
    BY <1>0, <1>3, BoundsAssumption
    DEF GateStep, CloseGate, OpenGate, TypeOK, Disturb
  <1>4. CASE \E w \in Workers : WorkerStep(w) \/ Crash(w)
    BY <1>4, TypeWorker
  <1>5. CASE \E m \in posts : Mutate(m)
    BY <1>0, <1>5, TypeMutate
  <1>6. CASE UNCHANGED vars
    BY <1>0, <1>6 DEF vars, TypeOK
  <1> QED
    BY <1>1, <1>2, <1>3, <1>4, <1>5, <1>6 DEF Next

-----------------------------------------------------------------------------
(***************************************************************************)
(* What no step takes back.                                                *)
(***************************************************************************)

\* A customer's revision only grows, and determines its record.
CustomersGrow ==
    \A c \in Customers :
        \/ customers'[c] = customers[c]
        \/ customers'[c].revision > customers[c].revision

\* A proposal keeps what it was submitted with, and its first approval.
ProposalsKept ==
    \A r \in Requests :
        proposals[r] # None =>
            /\ proposals'[r] # None
            /\ proposals'[r].customer = proposals[r].customer
            /\ proposals'[r].actor = proposals[r].actor
            /\ proposals'[r].action = proposals[r].action
            /\ proposals'[r].revision = proposals[r].revision
            /\ proposals'[r].decision = proposals[r].decision
            /\ proposals[r].approvedBy # None =>
                   proposals'[r].approvedBy = proposals[r].approvedBy

\* A job is never deleted, and its mutation never changed once stored.
JobsKept ==
    \A r \in Requests :
        jobs[r] # None =>
            /\ jobs'[r] # None
            /\ jobs[r].mutation # None => jobs'[r].mutation = jobs[r].mutation

EffectsKept ==
    \A r \in Requests : effects[r] # None => effects'[r] = effects[r]

LEMMA CustomersGrowStep ==
    ASSUME TypeOK, [Next]_vars
    PROVE  CustomersGrow
  <1>1. ASSUME NEW c \in Customers, NEW s \in CustomerStates, Ingest(c, s)
        PROVE  CustomersGrow
    <2>1. customers'[c].revision = customers[c].revision + 1
      BY <1>1 DEF Ingest, TypeOK, CustomerRecords
    <2>2. customers[c].revision \in Nat
      BY DEF TypeOK, CustomerRecords, Revisions
    <2> QED
      BY <1>1, <2>1, <2>2 DEF Ingest, TypeOK, CustomersGrow
  <1>2. CASE UNCHANGED customers
    BY <1>2 DEF CustomersGrow
  <1> QED
    BY ZenonT(60), <1>1, <1>2 DEF Next, vars, ApiStep, Propose, ProposeConflict, Approve,
       ApproveDenied, Acknowledge, Requeue, ClockStep, ExpireProposal,
       ExpireApproval, Elapse, GateStep, CloseGate, OpenGate, WorkerStep, Claim,
       Lookup, LookupFails, Prepare, Dispatch, HandleReply, TransportError,
       Defer, Finish, Crash, Mutate

LEMMA ProposalsKeptStep ==
    ASSUME TypeOK, [Next]_vars
    PROVE  ProposalsKept
  <1>0. \A r \in Requests : proposals[r] # None => proposals[r] \in ProposalRecords
    BY DEF TypeOK
  <1>1. ASSUME NEW a \in Actors, NEW r \in Requests, NEW c \in Customers,
               NEW act \in Actions, NEW n \in Revisions, Propose(a, r, c, act, n)
        PROVE  ProposalsKept
    BY <1>1 DEF Propose, TypeOK, ProposalsKept
  <1>2. ASSUME NEW a \in Actors, NEW r \in Requests, NEW n \in Revisions,
               Approve(a, r, n)
        PROVE  ProposalsKept
    <2>1. proposals'[r] = [proposals[r] EXCEPT !.approvedBy = a]
      BY <1>2 DEF Approve, TypeOK
    <2>2. proposals[r] \in ProposalRecords
      BY <1>0, <1>2 DEF Approve
    <2>3. proposals'[r] \in ProposalRecords
      BY <2>1, <2>2 DEF ProposalRecords
    <2> QED
      BY <1>0, <1>2, <2>1, <2>2, <2>3, NoneAssumption
      DEF Approve, TypeOK, ProposalsKept, ProposalRecords
  <1>3. ASSUME NEW r \in Requests, ExpireProposal(r)
        PROVE  ProposalsKept
    <2>1. proposals'[r]
            = [proposals[r] EXCEPT !.expired = TRUE, !.approvalExpired = TRUE]
      BY <1>3 DEF ExpireProposal, TypeOK
    <2>2. proposals[r] \in ProposalRecords
      BY <1>0, <1>3 DEF ExpireProposal
    <2>3. proposals'[r] \in ProposalRecords
      BY <2>1, <2>2 DEF ProposalRecords
    <2> QED
      BY <1>0, <1>3, <2>1, <2>2, <2>3, NoneAssumption
      DEF ExpireProposal, TypeOK, ProposalsKept, ProposalRecords
  <1>4. ASSUME NEW r \in Requests, ExpireApproval(r)
        PROVE  ProposalsKept
    <2>1. proposals'[r] = [proposals[r] EXCEPT !.approvalExpired = TRUE]
      BY <1>4 DEF ExpireApproval, TypeOK
    <2>2. proposals[r] \in ProposalRecords
      BY <1>0, <1>4 DEF ExpireApproval
    <2>3. proposals'[r] \in ProposalRecords
      BY <2>1, <2>2 DEF ProposalRecords
    <2> QED
      BY <1>0, <1>4, <2>1, <2>2, <2>3, NoneAssumption
      DEF ExpireApproval, TypeOK, ProposalsKept, ProposalRecords
  <1>5. CASE UNCHANGED proposals
    BY <1>5 DEF ProposalsKept
  <1> QED
    BY <1>1, <1>2, <1>3, <1>4, <1>5 DEF Next, vars, ApiStep, Ingest,
       ProposeConflict, ApproveDenied, Acknowledge, Requeue, ClockStep, Elapse,
       GateStep, CloseGate, OpenGate, WorkerStep, Claim, Lookup, LookupFails,
       Prepare, Dispatch, HandleReply, TransportError, Defer, Finish, Crash,
       Mutate

-----------------------------------------------------------------------------
(***************************************************************************)
(* What each step does to the rows and the memory it changes, field by     *)
(* field.                                                                  *)
(***************************************************************************)
OnlyJob(r) == \A q \in Requests : q # r => jobs'[q] = jobs[q]

OnlyWorker(w) == \A v \in Workers : v # w => workers'[v] = workers[v]

LEMMA RequeueEffect ==
    ASSUME Inv, NEW e \in exceptions, Requeue(e)
    PROVE  /\ e.subject \in Requests
           /\ jobs[e.subject] \in JobRecords
           /\ jobs'[e.subject] \in JobRecords
           /\ jobs[e.subject].status = "dead"
           /\ jobs'[e.subject].status = "retry"
           /\ jobs'[e.subject].attempts = 0
           /\ jobs'[e.subject].lapsed = 0
           /\ jobs'[e.subject].token = jobs[e.subject].token
           /\ jobs'[e.subject].mutation = jobs[e.subject].mutation
           /\ jobs'[e.subject].uncertain = jobs[e.subject].uncertain
           /\ jobs'[e.subject].reason = jobs[e.subject].reason
           /\ OnlyJob(e.subject)
  <1> DEFINE r == e.subject
  <1>1. r \in Requests /\ jobs \in [Requests -> JobRecords \cup {None}]
    BY DEF Inv, TypeOK, ExceptionRecords
  <1>2. jobs[r] \in JobRecords /\ jobs[r].status = "dead"
    BY <1>1 DEF Requeue
  <1>3. /\ jobs'[r] = [jobs[r] EXCEPT !.status = "retry", !.attempts = 0,
                                      !.lapsed = 0, !.due = TRUE]
        /\ OnlyJob(r)
    BY <1>1 DEF Requeue, OnlyJob
  <1>4. jobs'[r] \in JobRecords
    <2>1. [jobs[r] EXCEPT !.status = "retry", !.attempts = 0, !.lapsed = 0,
                          !.due = TRUE]
            \in JobRecords
      BY <1>2 DEF JobRecords, Statuses
    <2> QED
      BY <1>3, <2>1
  <1> QED
    BY <1>1, <1>2, <1>3, <1>4 DEF JobRecords

LEMMA ElapseEffect ==
    ASSUME Inv, NEW r \in Requests, Elapse(r)
    PROVE  /\ jobs[r] \in JobRecords
           /\ jobs'[r] \in JobRecords
           /\ jobs[r].status \in {"retry", "leased"}
           /\ jobs'[r].status = jobs[r].status
           /\ jobs'[r].attempts = jobs[r].attempts
           /\ jobs'[r].lapsed = jobs[r].lapsed
           /\ jobs'[r].token = jobs[r].token
           /\ jobs'[r].mutation = jobs[r].mutation
           /\ jobs'[r].uncertain = jobs[r].uncertain
           /\ jobs'[r].reason = jobs[r].reason
           /\ OnlyJob(r)
  <1>1. jobs \in [Requests -> JobRecords \cup {None}]
    BY DEF Inv, TypeOK
  <1>2. jobs[r] \in JobRecords /\ jobs[r].status \in {"retry", "leased"}
    BY <1>1 DEF Elapse
  <1>3. jobs'[r] = [jobs[r] EXCEPT !.due = TRUE] /\ OnlyJob(r)
    BY <1>1 DEF Elapse, OnlyJob
  <1>4. jobs'[r] \in JobRecords
    BY <1>2, <1>3 DEF JobRecords
  <1> QED
    BY <1>2, <1>3, <1>4 DEF JobRecords

LEMMA ClaimEffect ==
    ASSUME Inv, NEW w \in Workers, NEW r \in Requests, Claim(w, r)
    PROVE  /\ jobs[r] \in JobRecords
           /\ jobs'[r] \in JobRecords
           /\ workers[w].phase = "idle"
           /\ jobs[r].due
           /\ jobs[r].status \in {"ready", "retry", "leased"}
           /\ jobs'[r].status = "leased"
           /\ jobs'[r].attempts = jobs[r].attempts + 1
           /\ jobs'[r].lapsed = jobs[r].lapsed +
                 IF jobs[r].status = "leased" THEN 1 ELSE 0
           /\ jobs'[r].token = issued[r] + 1
           /\ jobs'[r].due = FALSE
           /\ jobs'[r].mutation = jobs[r].mutation
           /\ jobs'[r].uncertain = jobs[r].uncertain
           /\ jobs'[r].reason = jobs[r].reason
           /\ OnlyJob(r)
           /\ issued'[r] = issued[r] + 1
           /\ \A q \in Requests : q # r => issued'[q] = issued[q]
           /\ workers'[w].phase = IF jobs[r].uncertain THEN "lookup" ELSE "prepare"
           /\ workers'[w].job = r
           /\ workers'[w].token = issued[r] + 1
           /\ workers'[w].mutation = jobs[r].mutation
           /\ workers'[w].reply = None
           /\ OnlyWorker(w)
  <1>1. /\ jobs \in [Requests -> JobRecords \cup {None}]
        /\ issued \in [Requests -> Nat]
        /\ workers \in [Workers -> WorkerRecords]
    BY DEF Inv, TypeOK
  <1>2. /\ jobs[r] \in JobRecords
        /\ jobs[r].status \in {"ready", "retry", "leased"}
        /\ jobs[r].due
        /\ workers[w].phase = "idle"
    BY <1>1 DEF Claim, Claimable
  <1>3. /\ jobs'[r] = [jobs[r] EXCEPT !.status = "leased",
                                      !.attempts = jobs[r].attempts + 1,
                                      !.lapsed = jobs[r].lapsed +
                                          IF jobs[r].status = "leased"
                                          THEN 1 ELSE 0,
                                      !.token = issued[r] + 1,
                                      !.due = FALSE]
        /\ OnlyJob(r)
    BY <1>1 DEF Claim, OnlyJob
  <1>4. /\ jobs[r].attempts + 1 \in Nat
        /\ issued[r] + 1 \in Nat
        /\ jobs[r].lapsed + (IF jobs[r].status = "leased" THEN 1 ELSE 0) \in Nat
    BY <1>1, <1>2 DEF JobRecords
  <1>5. jobs'[r] \in JobRecords
    BY <1>2, <1>3, <1>4 DEF JobRecords, Statuses
  <1>6. /\ issued'[r] = issued[r] + 1
        /\ \A q \in Requests : q # r => issued'[q] = issued[q]
    BY <1>1 DEF Claim
  <1>7. /\ workers'[w] = [IdleWorker EXCEPT
               !.phase = IF jobs[r].uncertain THEN "lookup" ELSE "prepare",
               !.job = r,
               !.token = issued[r] + 1,
               !.mutation = jobs[r].mutation]
        /\ OnlyWorker(w)
    BY <1>1 DEF Claim, OnlyWorker
  <1> QED
    BY <1>2, <1>3, <1>5, <1>6, <1>7 DEF JobRecords, IdleWorker

\* A worker decides what to record, and it is true.
Decides(w) ==
    \E o \in Outcomes : TrueOutcome(o, workers[w].job) /\ FinishWith(w, o)

LEMMA FinishWithEffect ==
    ASSUME TypeOK, NEW w \in Workers, NEW o, FinishWith(w, o)
    PROVE  /\ workers'[w].phase = "finish"
           /\ workers'[w].job = workers[w].job
           /\ workers'[w].token = workers[w].token
           /\ workers'[w].outcome = o
           /\ workers'[w].reply = None
           /\ OnlyWorker(w)
  <1>1. workers \in [Workers -> WorkerRecords]
    BY DEF TypeOK
  <1>2. /\ workers'[w] = [workers[w] EXCEPT !.phase = "finish", !.reply = None,
                                            !.outcome = o]
        /\ OnlyWorker(w)
    BY <1>1 DEF FinishWith, OnlyWorker
  <1> QED
    BY <1>1, <1>2 DEF WorkerRecords

\* The branches of prepare: a decision to record, a lost lease, or a committed
\* authorisation.
Authorises(w) ==
    LET r == workers[w].job
        p == proposals[r]
        m == MutationOf(p.customer, p.action, customers[p.customer])
    IN  /\ gate = "open"
        /\ Holds(w, r)
        /\ valid_proposal(p, customers[p.customer], TRUE) = "none"
        /\ jobs[r].mutation \in {None, m}
        /\ jobs'[r] \in JobRecords
        /\ jobs'[r].status = jobs[r].status
        /\ jobs'[r].attempts = jobs[r].attempts
        /\ jobs'[r].lapsed = jobs[r].lapsed
        /\ jobs'[r].token = jobs[r].token
        /\ jobs'[r].due = jobs[r].due
        /\ jobs'[r].mutation = m
        /\ jobs'[r].uncertain
        /\ jobs'[r].reason = jobs[r].reason
        /\ OnlyJob(r)
        /\ workers'[w].phase = "dispatch"
        /\ workers'[w].job = r
        /\ workers'[w].token = workers[w].token
        /\ workers'[w].mutation = m
        /\ workers'[w].reply = workers[w].reply
        /\ OnlyWorker(w)

LEMMA PrepareEffect ==
    ASSUME Inv, NEW w \in Workers, Prepare(w)
    PROVE  LET r == workers[w].job
               p == proposals[r]
           IN  /\ r \in Requests
               /\ jobs[r] \in JobRecords
               /\ p \in ProposalRecords
               /\ customers[p.customer] \in CustomerRecords
               /\ workers[w].phase = "prepare"
               /\ \/ UNCHANGED jobs /\ Decides(w)
                  \/ UNCHANGED jobs /\ workers' = [workers EXCEPT ![w] = IdleWorker]
                  \/ Authorises(w)
  <1> DEFINE r == workers[w].job
             p == proposals[r]
             row == customers[p.customer]
             m == MutationOf(p.customer, p.action, row)
  <1>1. TypeOK
    BY DEF Inv
  <1>2. r \in Requests /\ jobs[r] # None /\ workers[w].phase = "prepare"
    BY DEF Prepare, Inv, WorkersBound
  <1>3. jobs[r] \in JobRecords /\ p \in ProposalRecords
    BY <1>1, <1>2 DEF TypeOK, Inv, JobsAuthorised
  <1>4. p.customer \in Customers /\ p.action \in Actions /\ row \in CustomerRecords
    BY <1>1, <1>3 DEF ProposalRecords, TypeOK
  <1>5. m \in Mutations
    BY <1>4, MutationType
  <1>6. ASSUME gate = "open", Holds(w, r), valid_proposal(p, row, TRUE) = "none",
               jobs[r].mutation \in {None, m},
               jobs' = [jobs EXCEPT
                   ![r] = [@ EXCEPT !.mutation = m, !.uncertain = TRUE]],
               workers' = [workers EXCEPT
                   ![w] = [@ EXCEPT !.phase = "dispatch", !.mutation = m]]
        PROVE  Authorises(w)
    <2>1. /\ jobs'[r] = [jobs[r] EXCEPT !.mutation = m, !.uncertain = TRUE]
          /\ OnlyJob(r)
      BY <1>1, <1>2, <1>6 DEF TypeOK, OnlyJob
    <2>2. /\ workers'[w] = [workers[w] EXCEPT !.phase = "dispatch", !.mutation = m]
          /\ OnlyWorker(w)
      BY <1>1, <1>6 DEF TypeOK, OnlyWorker
    <2>3. jobs'[r] \in JobRecords
      BY <1>3, <1>5, <2>1 DEF JobRecords
    <2>4. /\ jobs'[r].status = jobs[r].status
          /\ jobs'[r].attempts = jobs[r].attempts
          /\ jobs'[r].lapsed = jobs[r].lapsed
          /\ jobs'[r].token = jobs[r].token
          /\ jobs'[r].due = jobs[r].due
          /\ jobs'[r].mutation = m
          /\ jobs'[r].uncertain
          /\ jobs'[r].reason = jobs[r].reason
      BY <1>3, <2>1 DEF JobRecords
    <2>5. workers[w] \in WorkerRecords
      BY <1>1 DEF TypeOK
    <2>6. /\ workers'[w].phase = "dispatch"
          /\ workers'[w].job = r
          /\ workers'[w].token = workers[w].token
          /\ workers'[w].mutation = m
          /\ workers'[w].reply = workers[w].reply
      BY <2>2, <2>5 DEF WorkerRecords
    <2> QED
      BY <1>6, <2>1, <2>2, <2>3, <2>4, <2>6 DEF Authorises
  <1>7. ASSUME NEW x \in Reasons \ {"mutation_changed", "retry_exhausted",
                                    "remote_rejected", "remote_identity_conflict"},
               NEW s \in {"retry", "blocked"},
               FinishWith(w, Outcome(s, x, FALSE))
        PROVE  Decides(w)
    BY <1>7, OutcomeType DEF Decides, TrueOutcome, Outcome, Statuses
  <1>8. valid_proposal(p, row, TRUE) # "none" =>
            valid_proposal(p, row, TRUE) \in
                Reasons \ {"mutation_changed", "retry_exhausted",
                           "remote_rejected", "remote_identity_conflict"}
    BY <1>3, ValidProposalType DEF Reasons, BlockReasons, ActionReasons
  <1>9. valid_proposal(p, row, TRUE) = "none" => jobs[r].mutation \in {None, m}
    <2>1. valid_proposal(p, row, TRUE) = "none" => row.revision = p.revision
      BY <1>3, ValidIsCurrent
    <2> QED
      BY <1>2, <2>1 DEF Inv, MutationCurrent
  <1>10. "recovery_closed" \in Reasons \ {"mutation_changed", "retry_exhausted",
                                    "remote_rejected", "remote_identity_conflict"}
    BY DEF Reasons
  <1> QED
    BY <1>2, <1>3, <1>4, <1>6, <1>7, <1>8, <1>9, <1>10 DEF Prepare, WithIntent

LEMMA DispatchEffect ==
    ASSUME Inv, NEW w \in Workers, Dispatch(w)
    PROVE  /\ workers[w].phase = "dispatch"
           /\ workers'[w].phase = "await"
           /\ workers'[w].job = workers[w].job
           /\ workers'[w].token = workers[w].token
           /\ workers'[w].mutation = workers[w].mutation
           /\ workers'[w].reply = workers[w].reply
           /\ OnlyWorker(w)
  <1>1. workers \in [Workers -> WorkerRecords]
    BY DEF Inv, TypeOK
  <1>2. workers'[w] = [workers[w] EXCEPT !.phase = "await"] /\ OnlyWorker(w)
    BY <1>1 DEF Dispatch, OnlyWorker
  <1> QED
    BY <1>1, <1>2 DEF Dispatch, WorkerRecords

LEMMA DeferEffect ==
    ASSUME Inv, NEW w \in Workers, Defer(w), Holds(w, workers[w].job)
    PROVE  LET r == workers[w].job
           IN  /\ r \in Requests
               /\ jobs[r] \in JobRecords
               /\ jobs'[r] \in JobRecords
               /\ jobs[r].status = "leased"
               /\ jobs'[r].status = "retry"
               /\ jobs'[r].attempts = jobs[r].attempts - 1
               /\ jobs'[r].lapsed = jobs[r].lapsed
               /\ jobs'[r].token = 0
               /\ jobs'[r].mutation = jobs[r].mutation
               /\ jobs'[r].uncertain = jobs[r].uncertain
               /\ jobs'[r].reason = jobs[r].reason
               /\ OnlyJob(r)
  <1> DEFINE r == workers[w].job
  <1>1. jobs \in [Requests -> JobRecords \cup {None}]
    BY DEF Inv, TypeOK
  <1>2. r \in Requests
    BY DEF Defer, Inv, WorkersBound
  <1>3. jobs[r] \in JobRecords /\ jobs[r].status = "leased"
    BY <1>1, <1>2 DEF Holds
  <1>4. /\ jobs'[r] = Deferred(jobs[r])
        /\ OnlyJob(r)
    BY <1>1, <1>2 DEF Defer, OnlyJob
  <1>5. jobs[r].attempts - 1 \in Nat
    <2>1. jobs[r].attempts > 0
      BY <1>2, <1>3, NoneAssumption DEF Inv, AttemptsPaid, JobRecords
    <2> QED
      BY <1>3, <2>1 DEF JobRecords
  <1>6. jobs'[r] \in JobRecords
    <2>1. Deferred(jobs[r]) \in JobRecords
      BY <1>3, <1>5 DEF Deferred, JobRecords, Statuses
    <2> QED
      BY <1>4, <2>1
  <1> QED
    BY <1>2, <1>3, <1>4, <1>6 DEF Deferred, JobRecords

LEMMA FinishEffect ==
    ASSUME Inv, NEW w \in Workers, Finish(w), Holds(w, workers[w].job)
    PROVE  LET r == workers[w].job
               o == FinalOutcome(workers[w].outcome, jobs[r].attempts)
           IN  /\ r \in Requests
               /\ workers[w].outcome \in Outcomes
               /\ o \in Outcomes
               /\ jobs[r] \in JobRecords
               /\ jobs'[r] \in JobRecords
               /\ jobs[r].status = "leased"
               /\ jobs'[r].status = o.status
               /\ jobs'[r].attempts = jobs[r].attempts
               /\ jobs'[r].lapsed = jobs[r].lapsed
               /\ jobs'[r].token = 0
               /\ jobs'[r].mutation = jobs[r].mutation
               /\ jobs'[r].uncertain = (~o.clear /\ jobs[r].uncertain)
               /\ jobs'[r].reason = o.reason
               /\ OnlyJob(r)
  <1> DEFINE r == workers[w].job
             o == FinalOutcome(workers[w].outcome, jobs[r].attempts)
  <1>1. /\ jobs \in [Requests -> JobRecords \cup {None}]
        /\ workers[w] \in WorkerRecords
    BY DEF Inv, TypeOK
  <1>2. r \in Requests /\ workers[w].outcome \in Outcomes
    BY <1>1 DEF Finish, Inv, WorkersBound, WorkerRecords
  <1>3. jobs[r] \in JobRecords /\ jobs[r].status = "leased"
    BY <1>1, <1>2 DEF Holds
  <1>4. o \in Outcomes
    BY <1>2 DEF FinalOutcome, Outcome, Outcomes, Statuses, Reasons
  <1>5. /\ jobs'[r] = [jobs[r] EXCEPT
                          !.status = o.status, !.reason = o.reason,
                          !.token = 0, !.due = FALSE,
                          !.uncertain = ~o.clear /\ jobs[r].uncertain]
        /\ OnlyJob(r)
    BY <1>1, <1>2 DEF Finish, OnlyJob
  <1>6. (~o.clear /\ jobs[r].uncertain) \in BOOLEAN
    BY <1>3 DEF JobRecords
  <1>7. jobs'[r] \in JobRecords
    <2>1. [jobs[r] EXCEPT !.status = o.status, !.reason = o.reason,
                          !.token = 0, !.due = FALSE,
                          !.uncertain = ~o.clear /\ jobs[r].uncertain]
            \in JobRecords
      BY <1>3, <1>4, <1>6 DEF JobRecords, Outcomes
    <2> QED
      BY <1>5, <2>1
  <1> QED
    BY <1>2, <1>3, <1>4, <1>5, <1>7 DEF JobRecords

\* A worker that gives up its work forgets it.
LEMMA IdleEffect ==
    ASSUME Inv, NEW w \in Workers, workers' = [workers EXCEPT ![w] = IdleWorker]
    PROVE  /\ workers'[w].phase = "idle"
           /\ workers'[w].reply = None
           /\ OnlyWorker(w)
  BY DEF Inv, TypeOK, IdleWorker, OnlyWorker

\* A reply reaches only workers that wait for it.
LEMMA MutateEffect ==
    ASSUME Inv, NEW m \in posts, Mutate(m)
    PROVE  /\ m \in PostRecords
           /\ \A r \in Requests : r # m.job => effects'[r] = effects[r]
           /\ \/ effects'[m.job] = effects[m.job]
              \/ effects[m.job] = None /\ effects'[m.job] = m.mutation
           /\ \A w \in Workers :
                /\ workers'[w].phase = workers[w].phase
                /\ workers'[w].job = workers[w].job
                /\ workers'[w].token = workers[w].token
                /\ workers'[w].mutation = workers[w].mutation
                /\ workers'[w].outcome = workers[w].outcome
                /\ \/ workers'[w].reply = workers[w].reply
                   \/ /\ workers[w].job = m.job
                      /\ workers[w].phase = "await"
                      /\ workers'[w].reply.code = "2xx" =>
                             /\ workers'[w].reply.hash = m.mutation
                             /\ effects'[m.job] = m.mutation
  <1>1. /\ m \in PostRecords
        /\ effects \in [Requests -> Mutations \cup {None}]
        /\ workers \in [Workers -> WorkerRecords]
    BY DEF Inv, TypeOK
  <1>2. ASSUME NEW reply, Deliver(m, reply), NEW w \in Workers
        PROVE  /\ workers'[w].phase = workers[w].phase
               /\ workers'[w].job = workers[w].job
               /\ workers'[w].token = workers[w].token
               /\ workers'[w].mutation = workers[w].mutation
               /\ workers'[w].outcome = workers[w].outcome
               /\ \/ workers'[w].reply = workers[w].reply
                  \/ /\ workers[w].job = m.job
                     /\ workers[w].phase = "await"
                     /\ workers'[w].reply = reply
    <2>1. workers[w] \in WorkerRecords
      BY <1>1
    <2>2. \/ workers'[w] = workers[w]
          \/ /\ workers[w].job = m.job
             /\ workers[w].phase = "await"
             /\ workers'[w] = [workers[w] EXCEPT !.reply = reply]
      BY <1>1, <1>2 DEF Deliver
    <2> QED
      BY <2>1, <2>2 DEF WorkerRecords
  <1>3. /\ \A r \in Requests : r # m.job => effects'[r] = effects[r]
        /\ \/ effects'[m.job] = effects[m.job]
           \/ effects[m.job] = None /\ effects'[m.job] = m.mutation
    BY <1>1 DEF Mutate, PostRecords
  <1>4. \E reply : /\ Deliver(m, reply)
                   /\ reply.code = "2xx" => /\ reply.hash = m.mutation
                                            /\ effects'[m.job] = m.mutation
    BY <1>1 DEF Mutate, Reply, PostRecords
  <1> QED
    BY <1>1, <1>2, <1>3, <1>4

LEMMA JobsKeptStep ==
    ASSUME Inv, [Next]_vars
    PROVE  JobsKept
  <1>0. /\ jobs \in [Requests -> JobRecords \cup {None}]
        /\ jobs' \in [Requests -> JobRecords \cup {None}]
    BY TypeStep DEF Inv, TypeOK
  <1>a. ASSUME NEW r \in Requests, OnlyJob(r), jobs'[r] \in JobRecords,
               \/ jobs[r].mutation = None
               \/ jobs'[r].mutation = jobs[r].mutation
        PROVE  JobsKept
    BY <1>a, NoneAssumption DEF JobsKept, OnlyJob
  <1>1. ASSUME NEW a \in Actors, NEW r \in Requests, NEW c \in Customers,
               NEW act \in Actions, NEW n \in Revisions, Propose(a, r, c, act, n)
        PROVE  JobsKept
    <2>1. jobs[r] = None
      BY <1>1 DEF Propose, Inv, JobsAuthorised
    <2> QED
      BY <1>0, <1>1, <2>1 DEF Propose, JobsKept
  <1>2. ASSUME NEW a \in Actors, NEW r \in Requests, NEW n \in Revisions,
               Approve(a, r, n)
        PROVE  JobsKept
    BY <1>0, <1>2 DEF Approve, JobsKept
  <1>3. ASSUME NEW e \in exceptions, Requeue(e)
        PROVE  JobsKept
    BY <1>3, <1>a, RequeueEffect
  <1>4. ASSUME NEW r \in Requests, Elapse(r)
        PROVE  JobsKept
    BY <1>4, <1>a, ElapseEffect
  <1>5. ASSUME NEW w \in Workers, NEW r \in Requests, Claim(w, r)
        PROVE  JobsKept
    BY <1>5, <1>a, ClaimEffect
  <1>6. ASSUME NEW w \in Workers, Prepare(w)
        PROVE  JobsKept
    BY <1>6, <1>a, PrepareEffect DEF Authorises, JobsKept
  <1>7. ASSUME NEW w \in Workers, Defer(w)
        PROVE  JobsKept
    <2>1. CASE UNCHANGED jobs
      BY <2>1 DEF JobsKept
    <2>2. CASE Holds(w, workers[w].job)
      BY <1>7, <1>a, <2>2, DeferEffect
    <2> QED
      BY <1>7, <2>1, <2>2 DEF Defer
  <1>8. ASSUME NEW w \in Workers, Finish(w)
        PROVE  JobsKept
    <2>1. CASE UNCHANGED jobs
      BY <2>1 DEF JobsKept
    <2>2. CASE Holds(w, workers[w].job)
      BY <1>8, <1>a, <2>2, FinishEffect
    <2> QED
      BY <1>8, <2>1, <2>2 DEF Finish
  <1>9. CASE UNCHANGED jobs
    BY <1>9 DEF JobsKept
  <1> QED
    BY <1>1, <1>2, <1>3, <1>4, <1>5, <1>6, <1>7, <1>8, <1>9 DEF Next, vars,
       ApiStep, Ingest, ProposeConflict, ApproveDenied, Acknowledge, ClockStep,
       ExpireProposal, ExpireApproval, GateStep, CloseGate, OpenGate,
       WorkerStep, Lookup, LookupFails, Dispatch, HandleReply, TransportError,
       Crash, Mutate

LEMMA EffectsKeptStep ==
    ASSUME TypeOK, [Next]_vars
    PROVE  EffectsKept
  <1>1. ASSUME NEW m \in posts, Mutate(m)
        PROVE  EffectsKept
    BY <1>1 DEF Mutate, TypeOK, EffectsKept
  <1>2. CASE UNCHANGED effects
    BY <1>2 DEF EffectsKept
  <1> QED
    BY ZenonT(60), <1>1, <1>2 DEF Next, vars, ApiStep, Ingest, Propose, ProposeConflict,
       Approve, ApproveDenied, Acknowledge, Requeue, ClockStep, ExpireProposal,
       ExpireApproval, Elapse, GateStep, CloseGate, OpenGate, WorkerStep, Claim,
       Lookup, LookupFails, Prepare, Dispatch, HandleReply, TransportError,
       Defer, Finish, Crash

\* A lookup that finds nothing goes on to prepare.
LEMMA LookupEffect ==
    ASSUME Inv, NEW w \in Workers, Lookup(w)
    PROVE  /\ workers[w].phase = "lookup"
           /\ \/ /\ workers'[w].phase = "prepare"
                 /\ workers'[w].job = workers[w].job
                 /\ workers'[w].token = workers[w].token
                 /\ workers'[w].reply = workers[w].reply
                 /\ OnlyWorker(w)
              \/ Decides(w)
  <1>1. workers[w].phase = "lookup"
    BY DEF Lookup
  <1>2. workers \in [Workers -> WorkerRecords] /\ TypeOK
    BY DEF Inv, TypeOK
  <1>3. CASE workers' = [workers EXCEPT ![w].phase = "prepare"]
    <2>1. workers'[w] = [workers[w] EXCEPT !.phase = "prepare"] /\ OnlyWorker(w)
      BY <1>2, <1>3 DEF OnlyWorker
    <2> QED
      BY <1>1, <1>2, <2>1 DEF WorkerRecords
  <1>4. effects[workers[w].job] # None =>
            effects[workers[w].job] = workers[w].mutation
    BY <1>1 DEF Inv, WorkersBound, MemoryTrue, EffectMatchesIntent
  <1>5. ASSUME effects[workers[w].job] # None,
               FinishWith(w, Outcome("succeeded",
                                     "reconciled_committed_effect", TRUE))
        PROVE  Decides(w)
    BY <1>5, OutcomeType DEF Decides, TrueOutcome, Outcome, Statuses, Reasons
  <1> QED
    BY <1>1, <1>3, <1>4, <1>5 DEF Lookup

\* What the reply makes the worker record is true of the receiver.
LEMMA HandleReplyEffect ==
    ASSUME Inv, NEW w \in Workers, HandleReply(w)
    PROVE  Decides(w)
  <1> DEFINE o == OutcomeOf(workers[w].reply, workers[w].mutation)
  <1>1. workers[w].reply \in Replies
    BY DEF HandleReply, Inv, TypeOK, WorkerRecords
  <1>2. o \in Outcomes
    BY <1>1, OutcomeOfType
  <1>3. workers[w].reply.code \in Codes
    BY <1>1 DEF Replies
  <1>4. workers[w].reply.code = "2xx" =>
            /\ workers[w].reply.hash = workers[w].mutation
            /\ effects[workers[w].job] # None
    BY DEF HandleReply, Inv, ReceiptsTrue
  <1>5. TrueOutcome(o, workers[w].job)
    BY <1>3, <1>4 DEF OutcomeOf, Codes, Outcome, TrueOutcome
  <1> QED
    BY <1>2, <1>5 DEF HandleReply, Decides

LEMMA NoAnswerEffect ==
    ASSUME NEW w \in Workers, LookupFails(w) \/ TransportError(w)
    PROVE  Decides(w)
  BY OutcomeType DEF LookupFails, TransportError, Decides, TrueOutcome, Outcome,
     Statuses, Reasons

LEMMA DecidesEffect ==
    ASSUME Inv, NEW w \in Workers, Decides(w)
    PROVE  /\ workers'[w].phase = "finish"
           /\ workers'[w].job = workers[w].job
           /\ workers'[w].token = workers[w].token
           /\ workers'[w].outcome \in Outcomes
           /\ TrueOutcome(workers'[w].outcome, workers[w].job)
           /\ workers'[w].reply = None
           /\ OnlyWorker(w)
  BY FinishWithEffect DEF Decides, Inv

LEMMA IssuedGrows ==
    ASSUME Inv, [Next]_vars
    PROVE  \A r \in Requests : /\ issued[r] \in Nat
                               /\ issued'[r] \in Nat
                               /\ issued'[r] >= issued[r]
  <1>0. issued \in [Requests -> Nat] /\ issued' \in [Requests -> Nat]
    BY TypeStep DEF Inv, TypeOK
  <1>1. ASSUME NEW w \in Workers, NEW r \in Requests, Claim(w, r)
        PROVE  \A q \in Requests : issued'[q] >= issued[q]
    <2>1. /\ issued'[r] = issued[r] + 1
          /\ \A q \in Requests : q # r => issued'[q] = issued[q]
      BY <1>0, <1>1 DEF Claim
    <2>2. ASSUME NEW q \in Requests
          PROVE  issued'[q] >= issued[q]
      <3>1. issued[q] \in Nat
        BY <1>0
      <3>2. issued'[q] = issued[q] + 1 \/ issued'[q] = issued[q]
        BY <2>1
      <3> QED
        BY <3>1, <3>2
    <2> QED
      BY <2>2
  <1>2. CASE UNCHANGED issued
    BY <1>0, <1>2
  <1> QED
    BY ZenonT(60), <1>0, <1>1, <1>2 DEF Next, vars, ApiStep, Ingest, Propose,
       ProposeConflict, Approve, ApproveDenied, Acknowledge, Requeue, ClockStep,
       ExpireProposal, ExpireApproval, Elapse, GateStep, CloseGate, OpenGate,
       WorkerStep, Lookup, LookupFails, Prepare, Dispatch, HandleReply,
       TransportError, Defer, Finish, Crash, Mutate

\* Worker v goes on as before; it may have received a reply, and a receipt is
\* for its mutation.
Waits(v) ==
    /\ workers'[v].phase = workers[v].phase
    /\ workers'[v].job = workers[v].job
    /\ workers'[v].token = workers[v].token
    /\ workers'[v].mutation = workers[v].mutation
    /\ workers'[v].outcome = workers[v].outcome
    /\ \/ workers'[v].reply = workers[v].reply
       \/ /\ workers[v].phase = "await"
          /\ workers'[v].reply.code = "2xx" =>
                 /\ workers'[v].reply.hash = workers[v].mutation
                 /\ effects'[workers[v].job] # None

\* Worker v drops what it was doing.
Stops(v) == workers'[v].phase = "idle" /\ workers'[v].reply = None

\* Worker v moves on with the same job, lease and reply.
Moves(v, from, to) ==
    /\ workers[v].phase = from
    /\ workers'[v].phase = to
    /\ workers'[v].job = workers[v].job
    /\ workers'[v].token = workers[v].token
    /\ workers'[v].reply = workers[v].reply

\* All that a step can do to a worker.
LEMMA WorkerCases ==
    ASSUME Inv, [Next]_vars, NEW v \in Workers
    PROVE  \/ Waits(v)
           \/ Stops(v)
           \/ \E r \in Requests : Claim(v, r)
           \/ workers[v].phase # "idle" /\ Decides(v)
           \/ Moves(v, "lookup", "prepare")
           \/ Prepare(v) /\ Authorises(v)
           \/ Moves(v, "dispatch", "await") /\ workers'[v].mutation = workers[v].mutation
  <1>1. ASSUME workers'[v] = workers[v]
        PROVE  Waits(v)
    BY <1>1 DEF Waits
  <1>2. ASSUME NEW w \in Workers, OnlyWorker(w), w # v
        PROVE  Waits(v)
    BY <1>1, <1>2 DEF OnlyWorker
  <1>3. ASSUME NEW w \in Workers, NEW r \in Requests, Claim(w, r)
        PROVE  Waits(v) \/ \E q \in Requests : Claim(v, q)
    <2>1. OnlyWorker(w)
      BY <1>3, ClaimEffect
    <2> QED
      BY <1>2, <1>3, <2>1
  <1>4. ASSUME NEW w \in Workers, Lookup(w)
        PROVE  \/ Waits(v)
               \/ workers[v].phase # "idle" /\ Decides(v)
               \/ Moves(v, "lookup", "prepare")
    BY <1>2, <1>4, LookupEffect, DecidesEffect DEF Moves
  <1>5. ASSUME NEW w \in Workers, LookupFails(w) \/ TransportError(w)
        PROVE  Waits(v) \/ (workers[v].phase # "idle" /\ Decides(v))
    <2>1. workers[w].phase # "idle"
      BY <1>5 DEF LookupFails, TransportError
    <2> QED
      BY <1>2, <1>5, <2>1, NoAnswerEffect, DecidesEffect
  <1>6. ASSUME NEW w \in Workers, Prepare(w)
        PROVE  \/ Waits(v)
               \/ Stops(v)
               \/ workers[v].phase # "idle" /\ Decides(v)
               \/ Prepare(v) /\ Authorises(v)
    <2>1. /\ workers[w].phase = "prepare"
          /\ \/ Decides(w)
             \/ workers' = [workers EXCEPT ![w] = IdleWorker]
             \/ Authorises(w)
      BY <1>6, PrepareEffect
    <2>2. OnlyWorker(w)
      BY <2>1, DecidesEffect, IdleEffect DEF Authorises
    <2> QED
      BY <1>2, <1>6, <2>1, <2>2, IdleEffect DEF Stops
  <1>7. ASSUME NEW w \in Workers, Dispatch(w)
        PROVE  \/ Waits(v)
               \/ /\ Moves(v, "dispatch", "await")
                  /\ workers'[v].mutation = workers[v].mutation
    BY <1>2, <1>7, DispatchEffect DEF Moves
  <1>8. ASSUME NEW w \in Workers, HandleReply(w)
        PROVE  Waits(v) \/ (workers[v].phase # "idle" /\ Decides(v))
    <2>1. workers[w].phase # "idle"
      BY <1>8 DEF HandleReply
    <2> QED
      BY <1>2, <1>8, <2>1, HandleReplyEffect, DecidesEffect
  <1>9. ASSUME NEW w \in Workers, Defer(w) \/ Finish(w) \/ Crash(w)
        PROVE  Waits(v) \/ Stops(v)
    <2>1. workers' = [workers EXCEPT ![w] = IdleWorker]
      BY <1>9 DEF Defer, Finish, Crash
    <2> QED
      BY <1>2, <2>1, IdleEffect DEF Stops
  <1>10. ASSUME NEW m \in posts, Mutate(m)
         PROVE  Waits(v)
    <2>1. workers[v].job = m.job /\ workers[v].phase = "await" =>
              /\ workers[v].mutation = m.mutation
              /\ m.mutation # None
      <3>1. m.mutation # None /\ m.job \in Requests
        BY <1>10, MutateEffect, NoneAssumption DEF PostRecords
      <3> QED
        BY <3>1 DEF Inv, WorkersBound, MemoryTrue, EffectMatchesIntent
    <2> QED
      BY <1>10, <2>1, MutateEffect DEF Waits
  <1>11. CASE UNCHANGED workers
    BY <1>1, <1>11
  <1> QED
    BY ZenonT(60), <1>3, <1>4, <1>5, <1>6, <1>7, <1>8, <1>9, <1>10, <1>11
    DEF Next, vars, ApiStep, Ingest, Propose, ProposeConflict, Approve,
        ApproveDenied, Acknowledge, Requeue, ClockStep, ExpireProposal,
        ExpireApproval, Elapse, GateStep, CloseGate, OpenGate, WorkerStep

\* All that a step can do to a job.
LEMMA JobCases ==
    ASSUME Inv, [Next]_vars, NEW r \in Requests
    PROVE  \/ jobs'[r] = jobs[r]
           \/ /\ jobs[r] = None
              /\ jobs'[r] = NewJob
              /\ \/ \E a \in Actors, c \in Customers, act \in Actions,
                      n \in Revisions :
                       /\ Propose(a, r, c, act, n)
                       /\ proposals'[r].decision = "allow"
                 \/ \E a \in Actors, n \in Revisions : Approve(a, r, n)
           \/ \E e \in exceptions : Requeue(e) /\ e.subject = r
           \/ Elapse(r)
           \/ \E w \in Workers : Claim(w, r)
           \/ \E w \in Workers :
                 /\ workers[w].job = r
                 /\ \/ Prepare(w) /\ Authorises(w)
                    \/ Defer(w) /\ Holds(w, r)
                    \/ Finish(w) /\ Holds(w, r)
  <1> DEFINE Goal ==
           \/ jobs'[r] = jobs[r]
           \/ /\ jobs[r] = None
              /\ jobs'[r] = NewJob
              /\ \/ \E a \in Actors, c \in Customers, act \in Actions,
                      n \in Revisions :
                       /\ Propose(a, r, c, act, n)
                       /\ proposals'[r].decision = "allow"
                 \/ \E a \in Actors, n \in Revisions : Approve(a, r, n)
           \/ \E e \in exceptions : Requeue(e) /\ e.subject = r
           \/ Elapse(r)
           \/ \E w \in Workers : Claim(w, r)
           \/ \E w \in Workers :
                 /\ workers[w].job = r
                 /\ \/ Prepare(w) /\ Authorises(w)
                    \/ Defer(w) /\ Holds(w, r)
                    \/ Finish(w) /\ Holds(w, r)
  <1> SUFFICES Goal
    OBVIOUS
  <1>0. /\ jobs \in [Requests -> JobRecords \cup {None}]
        /\ proposals \in [Requests -> ProposalRecords \cup {None}]
    BY DEF Inv, TypeOK
  <1>1. ASSUME NEW a \in Actors, NEW q \in Requests, NEW c \in Customers,
               NEW act \in Actions, NEW n \in Revisions, Propose(a, q, c, act, n)
        PROVE  Goal
    <2>1. jobs[q] = None
      BY <1>1 DEF Propose, Inv, JobsAuthorised
    <2>2. CASE q # r
      BY <1>0, <1>1, <2>2 DEF Propose
    <2>3. CASE q = r /\ proposals'[r].decision # "allow"
      BY <1>0, <1>1, <2>3 DEF Propose
    <2>4. CASE q = r /\ proposals'[r].decision = "allow"
      <3>1. jobs'[r] = NewJob
        BY <1>0, <1>1, <2>4 DEF Propose
      <3> QED
        BY <1>1, <2>1, <2>4, <3>1
    <2> QED
      BY <2>2, <2>3, <2>4
  <1>2. ASSUME NEW a \in Actors, NEW q \in Requests, NEW n \in Revisions,
               Approve(a, q, n)
        PROVE  Goal
    <2>1. CASE q # r \/ jobs[q] # None
      BY <1>0, <1>2, <2>1 DEF Approve
    <2>2. CASE q = r /\ jobs[q] = None
      <3>1. jobs'[r] = NewJob
        BY <1>0, <1>2, <2>2 DEF Approve
      <3> QED
        BY <1>2, <2>2, <3>1
    <2> QED
      BY <2>1, <2>2
  <1>3. ASSUME NEW e \in exceptions, Requeue(e)
        PROVE  Goal
    BY <1>3, RequeueEffect DEF OnlyJob
  <1>4. ASSUME NEW q \in Requests, Elapse(q)
        PROVE  Goal
    BY <1>4, ElapseEffect DEF OnlyJob
  <1>5. ASSUME NEW w \in Workers, NEW q \in Requests, Claim(w, q)
        PROVE  Goal
    <2>1. OnlyJob(q)
      BY <1>5, ClaimEffect
    <2> QED
      BY <1>5, <2>1 DEF OnlyJob
  <1>6. ASSUME NEW w \in Workers, Prepare(w)
        PROVE  Goal
    <2>1. UNCHANGED jobs \/ Authorises(w)
      BY <1>6, PrepareEffect
    <2>2. Authorises(w) => OnlyJob(workers[w].job)
      BY DEF Authorises
    <2> QED
      BY <1>6, <2>1, <2>2 DEF OnlyJob
  <1>7. ASSUME NEW w \in Workers, Defer(w)
        PROVE  Goal
    <2>1. UNCHANGED jobs \/ Holds(w, workers[w].job)
      BY <1>7 DEF Defer
    <2>2. Holds(w, workers[w].job) => OnlyJob(workers[w].job)
      BY <1>7, DeferEffect
    <2> QED
      BY <1>7, <2>1, <2>2 DEF OnlyJob
  <1>8. ASSUME NEW w \in Workers, Finish(w)
        PROVE  Goal
    <2>1. UNCHANGED jobs \/ Holds(w, workers[w].job)
      BY <1>8 DEF Finish
    <2>2. Holds(w, workers[w].job) => OnlyJob(workers[w].job)
      BY <1>8, FinishEffect
    <2> QED
      BY <1>8, <2>1, <2>2 DEF OnlyJob
  <1>9. CASE UNCHANGED jobs
    BY <1>9
  <1> HIDE DEF Goal
  <1> QED
    BY <1>1, <1>2, <1>3, <1>4, <1>5, <1>6, <1>7, <1>8, <1>9 DEF Next, vars,
       ApiStep, Ingest, ProposeConflict, ApproveDenied, Acknowledge, ClockStep,
       ExpireProposal, ExpireApproval, GateStep, CloseGate, OpenGate,
       WorkerStep, Lookup, LookupFails, Dispatch, HandleReply, TransportError,
       Crash, Mutate

\* A worker at work after a step either just claimed its job or was at work
\* on it before, under the same lease.
LEMMA SameWork ==
    ASSUME Inv, [Next]_vars, NEW v \in Workers, workers'[v].phase # "idle"
    PROVE  \/ \E r \in Requests : Claim(v, r)
           \/ /\ workers[v].phase # "idle"
              /\ workers'[v].job = workers[v].job
              /\ workers'[v].token = workers[v].token
  <1>1. CASE Waits(v)
    BY <1>1 DEF Waits
  <1>2. CASE workers[v].phase # "idle" /\ Decides(v)
    BY <1>2, DecidesEffect
  <1>3. CASE Moves(v, "lookup", "prepare") \/ Moves(v, "dispatch", "await")
    BY <1>3 DEF Moves
  <1>4. CASE Prepare(v) /\ Authorises(v)
    <2>1. workers[v].phase = "prepare"
      BY <1>4 DEF Prepare
    <2> QED
      BY <1>4, <2>1 DEF Authorises
  <1> QED
    BY <1>1, <1>2, <1>3, <1>4, WorkerCases DEF Stops

-----------------------------------------------------------------------------
(***************************************************************************)
(* Every step keeps every part of the invariant.                           *)
(***************************************************************************)
LEMMA WorkersBoundStep ==
    ASSUME Inv, [Next]_vars
    PROVE  WorkersBound'
  <1> SUFFICES ASSUME NEW v \in Workers, workers'[v].phase # "idle"
               PROVE  /\ workers'[v].job \in Requests
                      /\ jobs'[workers'[v].job] # None
                      /\ workers'[v].token \in 1 .. issued'[workers'[v].job]
                      /\ workers'[v].phase = "finish" =>
                             workers'[v].outcome # None
    BY DEF WorkersBound
  <1>1. ASSUME NEW r \in Requests, Claim(v, r)
        PROVE  /\ workers'[v].job \in Requests
               /\ jobs'[workers'[v].job] # None
               /\ workers'[v].token \in 1 .. issued'[workers'[v].job]
               /\ workers'[v].phase # "finish"
    <2>1. /\ workers'[v].job = r
          /\ workers'[v].token = issued[r] + 1
          /\ issued'[r] = issued[r] + 1
          /\ workers'[v].phase \in {"lookup", "prepare"}
          /\ jobs'[r] \in JobRecords
      BY <1>1, ClaimEffect
    <2>2. issued[r] \in Nat
      BY IssuedGrows
    <2> QED
      BY <2>1, <2>2, NoneAssumption
  <1>2. CASE /\ workers[v].phase # "idle"
             /\ workers'[v].job = workers[v].job
             /\ workers'[v].token = workers[v].token
    <2> DEFINE r == workers[v].job
    <2>1. r \in Requests /\ jobs[r] # None /\ workers[v].token \in 1 .. issued[r]
      BY <1>2 DEF Inv, WorkersBound
    <2>2. jobs'[r] # None
      BY <2>1, JobsKeptStep DEF JobsKept
    <2>3. workers[v].token \in 1 .. issued'[r]
      BY <2>1, IssuedGrows
    <2>4. workers'[v].phase = "finish" => workers'[v].outcome # None
      <3>1. CASE Waits(v)
        BY <3>1 DEF Waits, Inv, WorkersBound
      <3>2. CASE workers[v].phase # "idle" /\ Decides(v)
        BY <3>2, DecidesEffect, NoneAssumption
      <3>3. CASE \E q \in Requests : Claim(v, q)
        BY <1>1, <3>3
      <3> QED
        BY <3>1, <3>2, <3>3, WorkerCases DEF Stops, Moves, Authorises
    <2> QED
      BY <1>2, <2>1, <2>2, <2>3, <2>4
  <1> QED
    BY <1>1, <1>2, SameWork

LEMMA TokensFreshStep ==
    ASSUME Inv, [Next]_vars
    PROVE  TokensFresh'
  <1>0. /\ jobs \in [Requests -> JobRecords \cup {None}]
        /\ issued \in [Requests -> Nat]
    BY DEF Inv, TypeOK
  <1>1. ASSUME NEW r \in Requests, jobs'[r] # None
        PROVE  jobs'[r].token <= issued'[r]
    <2>1. issued[r] \in Nat /\ issued'[r] \in Nat /\ issued'[r] >= issued[r]
      BY IssuedGrows
    <2>2. CASE jobs[r] # None /\ jobs'[r].token = jobs[r].token
      <3>1. jobs[r].token <= issued[r] /\ jobs[r].token \in Nat
        BY <1>0, <2>2 DEF Inv, TokensFresh, JobRecords
      <3> QED
        BY <2>1, <2>2, <3>1
    <2>3. CASE jobs'[r].token = 0
      BY <2>1, <2>3
    <2>4. ASSUME NEW w \in Workers, Claim(w, r)
          PROVE  jobs'[r].token <= issued'[r]
      <3>1. jobs'[r].token = issued[r] + 1 /\ issued'[r] = issued[r] + 1
        BY ZenonT(60), <2>4, ClaimEffect
      <3> QED
        BY <2>1, <3>1
    <2>5. ASSUME NEW e \in exceptions, Requeue(e), e.subject = r
          PROVE  jobs[r] # None /\ jobs'[r].token = jobs[r].token
      BY <2>5, RequeueEffect, NoneAssumption
    <2>6. ASSUME Elapse(r)
          PROVE  jobs[r] # None /\ jobs'[r].token = jobs[r].token
      BY <2>6, ElapseEffect, NoneAssumption
    <2>7. ASSUME NEW w \in Workers, Authorises(w), workers[w].job = r
          PROVE  jobs[r] # None /\ jobs'[r].token = jobs[r].token
      BY <2>7 DEF Authorises, Holds
    <2>8. ASSUME NEW w \in Workers, workers[w].job = r, Holds(w, r),
                 Defer(w) \/ Finish(w)
          PROVE  jobs'[r].token = 0
      BY <2>8, DeferEffect, FinishEffect
    <2> QED
      BY <1>1, <2>2, <2>3, <2>4, <2>5, <2>6, <2>7, <2>8, JobCases DEF NewJob
  <1>2. ASSUME NEW v \in Workers, NEW w \in Workers,
               workers'[v].phase # "idle", workers'[w].phase # "idle",
               workers'[v].job = workers'[w].job,
               workers'[v].token = workers'[w].token
        PROVE  v = w
    <2>1. ASSUME NEW x \in Workers, NEW y \in Workers, x # y,
                 NEW r \in Requests, Claim(x, r),
                 workers'[y].phase # "idle", workers'[y].job = workers'[x].job,
                 workers'[y].token = workers'[x].token
          PROVE  FALSE
      <3>1. /\ workers'[x].job = r
            /\ workers'[x].token = issued[r] + 1
            /\ OnlyWorker(x)
        BY ZenonT(60), <2>1, ClaimEffect
      <3>2. workers'[y] = workers[y]
        BY <2>1, <3>1 DEF OnlyWorker
      <3>3. workers[y].token \in 1 .. issued[r]
        BY <2>1, <3>1, <3>2 DEF Inv, WorkersBound
      <3> QED
        BY <1>0, <2>1, <3>1, <3>2, <3>3
    <2>2. CASE \E r \in Requests : Claim(v, r)
      BY <1>2, <2>1, <2>2
    <2>3. CASE \E r \in Requests : Claim(w, r)
      BY <1>2, <2>1, <2>3
    <2>4. CASE /\ workers[v].phase # "idle" /\ workers'[v].job = workers[v].job
               /\ workers'[v].token = workers[v].token
               /\ workers[w].phase # "idle" /\ workers'[w].job = workers[w].job
               /\ workers'[w].token = workers[w].token
      BY <1>2, <2>4 DEF Inv, TokensFresh
    <2> QED
      BY <1>2, <2>2, <2>3, <2>4, SameWork
  <1> QED
    BY <1>1, <1>2 DEF TokensFresh

\* A proposal appears by Propose only.
LEMMA NewProposal ==
    ASSUME Inv, [Next]_vars, NEW r \in Requests, proposals[r] = None,
           proposals'[r] # None
    PROVE  \E a \in Actors, c \in Customers, act \in Actions, n \in Revisions :
              Propose(a, r, c, act, n)
  <1>0. proposals \in [Requests -> ProposalRecords \cup {None}]
    BY DEF Inv, TypeOK
  <1>1. ASSUME NEW a \in Actors, NEW q \in Requests, NEW c \in Customers,
               NEW act \in Actions, NEW n \in Revisions, Propose(a, q, c, act, n)
        PROVE  Propose(a, r, c, act, n)
    <2>1. CASE q # r
      BY <1>0, <1>1, <2>1 DEF Propose
    <2> QED
      BY <1>1, <2>1
  <1>2. ASSUME NEW q \in Requests,
               \/ \E a \in Actors, n \in Revisions : Approve(a, q, n)
               \/ ExpireProposal(q)
               \/ ExpireApproval(q)
        PROVE  FALSE
    BY <1>0, <1>2 DEF Approve, ExpireProposal, ExpireApproval
  <1>3. CASE UNCHANGED proposals
    BY <1>3
  <1> QED
    BY ZenonT(60), <1>1, <1>2, <1>3 DEF Next, vars, ApiStep, Ingest, ProposeConflict,
       ApproveDenied, Acknowledge, Requeue, ClockStep, Elapse, GateStep,
       CloseGate, OpenGate, WorkerStep, Claim, Lookup, LookupFails, Prepare,
       Dispatch, HandleReply, TransportError, Defer, Finish, Crash, Mutate

\* A job appears by a proposal allowed outright or by an approval only.
LEMMA NewJobCases ==
    ASSUME Inv, [Next]_vars, NEW r \in Requests, jobs[r] = None,
           jobs'[r] # None
    PROVE  \/ \E a \in Actors, c \in Customers, act \in Actions, n \in Revisions :
                 /\ Propose(a, r, c, act, n)
                 /\ proposals'[r].decision = "allow"
           \/ \E a \in Actors, n \in Revisions : Approve(a, r, n)
  <1>1. ASSUME NEW e \in exceptions, Requeue(e), e.subject = r
        PROVE  FALSE
    BY <1>1, RequeueEffect, NoneAssumption
  <1>2. ASSUME Elapse(r)
        PROVE  FALSE
    BY <1>2 DEF Elapse
  <1>3. ASSUME NEW w \in Workers, Claim(w, r)
        PROVE  FALSE
    BY <1>3 DEF Claim
  <1>4. ASSUME NEW w \in Workers, workers[w].job = r, Authorises(w) \/ Holds(w, r)
        PROVE  FALSE
    BY <1>4 DEF Authorises, Holds
  <1> QED
    BY <1>1, <1>2, <1>3, <1>4, JobCases

LEMMA JobsAuthorisedStep ==
    ASSUME Inv, [Next]_vars
    PROVE  JobsAuthorised'
  <1>0. /\ jobs \in [Requests -> JobRecords \cup {None}]
        /\ proposals \in [Requests -> ProposalRecords \cup {None}]
    BY DEF Inv, TypeOK
  <1>1. ASSUME NEW r \in Requests, proposals'[r] # None,
               proposals'[r].decision = "allow"
        PROVE  proposals'[r].action # "send_marketing"
    <2>1. CASE proposals[r] # None
      BY <1>1, <2>1, ProposalsKeptStep DEF Inv, ProposalsKept, JobsAuthorised
    <2>2. ASSUME NEW a \in Actors, NEW c \in Customers, NEW act \in Actions,
                 NEW n \in Revisions, Propose(a, r, c, act, n)
          PROVE  proposals'[r].action # "send_marketing"
      <3> DEFINE d == action_decision(act, customers[c].state,
                                      customers[c].revision, n)[1]
      <3>1. proposals'[r].action = act /\ proposals'[r].decision = d
        BY <1>0, <2>2 DEF Propose
      <3>2. d = "allow" => act # "send_marketing"
        BY DEF action_decision
      <3> QED
        BY <1>1, <3>1, <3>2
    <2> QED
      BY <1>1, <2>1, <2>2, NewProposal
  <1>2. ASSUME NEW r \in Requests, jobs'[r] # None
        PROVE  /\ proposals'[r] # None
               /\ proposals'[r].decision \in {"allow", "approval"}
               /\ proposals'[r].decision = "approval" =>
                      proposals'[r].approvedBy \notin {None, proposals'[r].actor}
    <2>1. CASE jobs[r] # None
      BY <1>2, <2>1, ProposalsKeptStep DEF Inv, ProposalsKept, JobsAuthorised
    <2>2. ASSUME NEW a \in Actors, NEW c \in Customers, NEW act \in Actions,
                 NEW n \in Revisions, Propose(a, r, c, act, n)
          PROVE  proposals'[r] # None
      <3> DEFINE d == action_decision(act, customers[c].state,
                                      customers[c].revision, n)[1]
                 p == [customer |-> c, actor |-> a, action |-> act,
                       revision |-> n, decision |-> d, approvedBy |-> None,
                       expired |-> FALSE, approvalExpired |-> FALSE]
      <3>1. d \in Decisions
        BY DecisionType
      <3>2. p \in ProposalRecords
        BY <3>1 DEF ProposalRecords
      <3>3. proposals'[r] = p
        BY <1>0, <2>2 DEF Propose
      <3> QED
        BY <3>2, <3>3, NoneAssumption
    <2>3. ASSUME NEW a \in Actors, NEW n \in Revisions, Approve(a, r, n)
          PROVE  /\ proposals'[r] # None
                 /\ proposals'[r].decision = "approval"
                 /\ proposals'[r].approvedBy \notin {None, proposals'[r].actor}
      <3>1. /\ proposals'[r] = [proposals[r] EXCEPT !.approvedBy = a]
            /\ proposals[r] \in ProposalRecords
            /\ proposals[r].decision = "approval"
            /\ a # proposals[r].actor
        BY <1>0, <2>3 DEF Approve, Approvable
      <3>2. proposals'[r] # None
        BY <2>3, ProposalsKeptStep DEF Inv, ProposalsKept, Approve
      <3> QED
        BY <3>1, <3>2, NoneAssumption DEF ProposalRecords
    <2> QED
      BY <1>2, <2>1, <2>2, <2>3, NewJobCases
  <1> QED
    BY <1>1, <1>2 DEF JobsAuthorised

\* A job's mutation is the one it had, or was just authorised.
LEMMA MutationCases ==
    ASSUME Inv, [Next]_vars, NEW r \in Requests, jobs'[r] # None,
           jobs'[r].mutation # None
    PROVE  \/ jobs[r] # None /\ jobs[r].mutation = jobs'[r].mutation
           \/ \E w \in Workers :
                 workers[w].job = r /\ Prepare(w) /\ Authorises(w)
  <1>1. CASE jobs'[r] = NewJob
    BY <1>1 DEF NewJob
  <1>2. ASSUME NEW e \in exceptions, Requeue(e), e.subject = r
        PROVE  jobs[r] # None /\ jobs[r].mutation = jobs'[r].mutation
    BY <1>2, RequeueEffect, NoneAssumption
  <1>3. ASSUME Elapse(r)
        PROVE  jobs[r] # None /\ jobs[r].mutation = jobs'[r].mutation
    BY <1>3, ElapseEffect, NoneAssumption
  <1>4. ASSUME NEW w \in Workers, Claim(w, r)
        PROVE  jobs[r] # None /\ jobs[r].mutation = jobs'[r].mutation
    <2>1. jobs'[r].mutation = jobs[r].mutation
      BY <1>4, ClaimEffect
    <2> QED
      BY <1>4, <2>1 DEF Claim
  <1>5. ASSUME NEW w \in Workers, workers[w].job = r, Holds(w, r),
               Defer(w) \/ Finish(w)
        PROVE  jobs[r] # None /\ jobs[r].mutation = jobs'[r].mutation
    BY <1>5, DeferEffect, FinishEffect, NoneAssumption
  <1> QED
    BY <1>1, <1>2, <1>3, <1>4, <1>5, JobCases

LEMMA MutationCurrentStep ==
    ASSUME Inv, [Next]_vars
    PROVE  MutationCurrent'
  <1> SUFFICES ASSUME NEW r \in Requests, jobs'[r] # None,
                      jobs'[r].mutation # None
               PROVE  LET p == proposals'[r]
                          m == jobs'[r].mutation
                          row == customers'[p.customer]
                      IN  /\ m.customer = p.customer
                          /\ m.action = p.action
                          /\ m.revision = p.revision
                          /\ row.revision >= p.revision
                          /\ row.revision = p.revision =>
                                 m = MutationOf(p.customer, p.action, row)
    BY DEF MutationCurrent
  <1> DEFINE p == proposals[r]
             c == p.customer
  <1>1. ASSUME jobs[r] # None
        PROVE  /\ p \in ProposalRecords
               /\ c \in Customers
               /\ customers[c] \in CustomerRecords
               /\ customers'[c] \in CustomerRecords
               /\ proposals'[r].customer = c
               /\ proposals'[r].action = p.action
               /\ proposals'[r].revision = p.revision
    <2>1. p # None
      BY <1>1 DEF Inv, JobsAuthorised
    <2>2. p \in ProposalRecords
      BY <2>1 DEF Inv, TypeOK
    <2> QED
      BY <2>1, <2>2, ProposalsKeptStep, TypeStep
      DEF Inv, ProposalsKept, TypeOK, ProposalRecords
  <1>2. CASE jobs[r] # None /\ jobs[r].mutation = jobs'[r].mutation
    <2>1. /\ jobs[r].mutation.customer = c
          /\ jobs[r].mutation.action = p.action
          /\ jobs[r].mutation.revision = p.revision
          /\ customers[c].revision >= p.revision
          /\ customers[c].revision = p.revision =>
                 jobs[r].mutation = MutationOf(c, p.action, customers[c])
      BY <1>2 DEF Inv, MutationCurrent
    <2>2. \/ customers'[c] = customers[c]
          \/ customers'[c].revision > customers[c].revision
      BY <1>1, <1>2, CustomersGrowStep DEF CustomersGrow, Inv
    <2>3. /\ customers[c].revision \in Nat
          /\ customers'[c].revision \in Nat
          /\ p.revision \in Nat
      BY <1>1, <1>2 DEF CustomerRecords, ProposalRecords, Revisions
    <2>4. customers'[c].revision >= p.revision
      BY <2>1, <2>2, <2>3
    <2>5. customers'[c].revision = p.revision => customers'[c] = customers[c]
      BY <2>1, <2>2, <2>3
    <2> QED
      BY <1>1, <1>2, <2>1, <2>4, <2>5
  <1>3. ASSUME NEW w \in Workers, workers[w].job = r, Prepare(w), Authorises(w)
        PROVE  /\ jobs[r] # None
               /\ jobs'[r].mutation = MutationOf(c, p.action, customers[c])
               /\ customers[c].revision = p.revision
               /\ UNCHANGED customers
    <2>1. jobs[r] # None /\ valid_proposal(p, customers[c], TRUE) = "none"
      BY <1>3 DEF Authorises, Holds
    <2>2. customers[c].revision = p.revision
      BY <1>1, <2>1, ValidIsCurrent
    <2> QED
      BY <1>3, <2>1, <2>2 DEF Authorises, Prepare
  <1>4. CASE \E w \in Workers :
                 workers[w].job = r /\ Prepare(w) /\ Authorises(w)
    <2>1. /\ jobs[r] # None
          /\ jobs'[r].mutation = MutationOf(c, p.action, customers[c])
          /\ customers[c].revision = p.revision
          /\ UNCHANGED customers
      BY <1>3, <1>4
    <2>2. p.action \in Actions /\ p.revision \in Nat
      BY <1>1, <2>1 DEF ProposalRecords, Revisions
    <2> QED
      BY <1>1, <2>1, <2>2, MutationType
  <1> QED
    BY <1>2, <1>4, MutationCases

LEMMA MemoryTrueStep ==
    ASSUME Inv, [Next]_vars
    PROVE  MemoryTrue'
  <1>0. /\ jobs \in [Requests -> JobRecords \cup {None}]
        /\ \A w \in Workers : workers[w].phase # "idle" =>
               workers[w].job \in Requests /\ jobs[workers[w].job] # None
    BY DEF Inv, TypeOK, WorkersBound
  <1>a. ASSUME NEW w \in Workers, Authorises(w), Prepare(w)
        PROVE  /\ jobs'[workers[w].job].mutation # None
               /\ workers'[w].mutation = jobs'[workers[w].job].mutation
    <2> DEFINE r == workers[w].job
               p == proposals[r]
               m == MutationOf(p.customer, p.action, customers[p.customer])
    <2>1. p \in ProposalRecords /\ customers[p.customer] \in CustomerRecords
      BY <1>a, PrepareEffect
    <2>2. m # None
      BY <2>1, MutationType DEF ProposalRecords
    <2> QED
      BY <1>a, <2>2 DEF Authorises
  <1>1. ASSUME NEW r \in Requests, jobs'[r] # None, jobs'[r].uncertain
        PROVE  jobs'[r].mutation # None
    <2>1. ASSUME jobs[r] # None, jobs[r].uncertain
          PROVE  jobs'[r].mutation # None
      BY <2>1, JobsKeptStep DEF JobsKept, Inv, MemoryTrue
    <2>2. CASE jobs'[r] = NewJob
      BY <1>1, <2>2 DEF NewJob
    <2>3. ASSUME NEW e \in exceptions, Requeue(e), e.subject = r
          PROVE  jobs[r] # None /\ jobs[r].uncertain
      BY <1>1, <2>3, RequeueEffect, NoneAssumption
    <2>4. ASSUME Elapse(r)
          PROVE  jobs[r] # None /\ jobs[r].uncertain
      BY <1>1, <2>4, ElapseEffect, NoneAssumption
    <2>5. ASSUME NEW w \in Workers, Claim(w, r)
          PROVE  jobs[r] # None /\ jobs[r].uncertain
      <3>1. jobs'[r].uncertain = jobs[r].uncertain
        BY <2>5, ClaimEffect
      <3> QED
        BY <1>1, <2>5, <3>1 DEF Claim
    <2>6. ASSUME NEW w \in Workers, workers[w].job = r, Holds(w, r),
                 Defer(w) \/ Finish(w)
          PROVE  jobs[r] # None /\ jobs[r].uncertain
      BY <1>1, <2>6, DeferEffect, FinishEffect, NoneAssumption
    <2> QED
      BY <1>1, <1>a, <2>1, <2>2, <2>3, <2>4, <2>5, <2>6, JobCases
  <1>2. ASSUME NEW v \in Workers,
               workers'[v].phase \in {"lookup", "dispatch", "await"}
        PROVE  /\ workers'[v].mutation # None
               /\ workers'[v].mutation = jobs'[workers'[v].job].mutation
    <2>1. ASSUME workers[v].phase \in {"lookup", "dispatch", "await"},
                 workers'[v].job = workers[v].job,
                 workers'[v].mutation = workers[v].mutation
          PROVE  /\ workers'[v].mutation # None
                 /\ workers'[v].mutation = jobs'[workers'[v].job].mutation
      BY <1>0, <2>1, JobsKeptStep DEF Inv, MemoryTrue, JobsKept
    <2>2. CASE Waits(v)
      BY <1>2, <2>1, <2>2 DEF Waits
    <2>3. CASE /\ Moves(v, "dispatch", "await")
               /\ workers'[v].mutation = workers[v].mutation
      BY <2>1, <2>3 DEF Moves
    <2>4. CASE Prepare(v) /\ Authorises(v)
      BY <1>a, <2>4 DEF Authorises
    <2>5. ASSUME NEW r \in Requests, Claim(v, r)
          PROVE  /\ workers'[v].mutation # None
                 /\ workers'[v].mutation = jobs'[workers'[v].job].mutation
      <3>1. /\ workers'[v].phase = IF jobs[r].uncertain THEN "lookup" ELSE "prepare"
            /\ workers'[v].job = r
            /\ workers'[v].mutation = jobs[r].mutation
            /\ jobs'[r].mutation = jobs[r].mutation
        BY ZenonT(60), <2>5, ClaimEffect
      <3>2. jobs[r] # None /\ jobs[r].uncertain
        BY <1>2, <2>5, <3>1 DEF Claim
      <3> QED
        BY <3>1, <3>2 DEF Inv, MemoryTrue
    <2>6. CASE workers[v].phase # "idle" /\ Decides(v)
      BY <1>2, <2>6, DecidesEffect
    <2> QED
      BY <1>2, <2>2, <2>3, <2>4, <2>5, <2>6, WorkerCases DEF Stops, Moves
  <1> QED
    BY <1>1, <1>2 DEF MemoryTrue

\* What is at the receiver after a step was there, or was on its way; what is
\* on its way was, or a worker held it.
LEMMA EffectCases ==
    ASSUME Inv, [Next]_vars, NEW r \in Requests
    PROVE  /\ effects'[r] # None =>
                  \/ effects'[r] = effects[r]
                  \/ \E m \in posts : m.job = r /\ m.mutation = effects'[r]
           /\ \A m \in posts' :
                  \/ m \in posts
                  \/ \E w \in Workers :
                        /\ workers[w].phase = "dispatch"
                        /\ workers[w].job = m.job
                        /\ workers[w].mutation = m.mutation
  <1>1. ASSUME NEW m \in posts, Mutate(m)
        PROVE  /\ effects'[r] = effects[r] \/ (m.job = r /\ m.mutation = effects'[r])
               /\ posts' \subseteq posts
    BY <1>1, MutateEffect DEF Mutate
  <1>2. CASE UNCHANGED <<effects, posts>>
    BY <1>2
  <1>3. ASSUME NEW w \in Workers, Dispatch(w)
        PROVE  /\ effects'[r] = effects[r]
               /\ \A m \in posts' :
                     \/ m \in posts
                     \/ /\ workers[w].phase = "dispatch"
                        /\ workers[w].job = m.job
                        /\ workers[w].mutation = m.mutation
    BY <1>3 DEF Dispatch
  <1> QED
    BY ZenonT(60), <1>1, <1>2, <1>3 DEF Next, vars, ApiStep, Ingest, Propose, ProposeConflict,
       Approve, ApproveDenied, Acknowledge, Requeue, ClockStep, ExpireProposal,
       ExpireApproval, Elapse, GateStep, CloseGate, OpenGate, WorkerStep, Claim,
       Lookup, LookupFails, Prepare, HandleReply, TransportError, Defer,
       Finish, Crash

LEMMA EffectMatchesIntentStep ==
    ASSUME Inv, [Next]_vars
    PROVE  EffectMatchesIntent'
  <1>0. /\ effects \in [Requests -> Mutations \cup {None}]
        /\ posts \in SUBSET PostRecords
        /\ posts' \in SUBSET PostRecords
    BY TypeStep DEF Inv, TypeOK
  <1>1. ASSUME NEW r \in Requests, NEW x, x # None, jobs[r] # None,
               jobs[r].mutation = x
        PROVE  jobs'[r] # None /\ jobs'[r].mutation = x
    BY <1>1, JobsKeptStep DEF JobsKept
  <1>2. \A m \in PostRecords : m.mutation # None
    BY NoneAssumption DEF PostRecords
  <1>3. ASSUME NEW r \in Requests, NEW m \in posts, m.job = r
        PROVE  jobs'[r] # None /\ jobs'[r].mutation = m.mutation
    BY <1>0, <1>1, <1>2, <1>3 DEF Inv, EffectMatchesIntent
  <1>4. ASSUME NEW r \in Requests, effects'[r] # None
        PROVE  jobs'[r] # None /\ jobs'[r].mutation = effects'[r]
    <2>1. CASE effects'[r] = effects[r]
      BY <1>1, <1>4, <2>1 DEF Inv, EffectMatchesIntent
    <2> QED
      BY <1>3, <1>4, <2>1, EffectCases
  <1>5. ASSUME NEW r \in Requests, NEW m \in posts', m.job = r
        PROVE  jobs'[r] # None /\ jobs'[r].mutation = m.mutation
    <2>1. ASSUME NEW w \in Workers, workers[w].phase = "dispatch",
                 workers[w].job = r, workers[w].mutation = m.mutation
          PROVE  jobs'[r] # None /\ jobs'[r].mutation = m.mutation
      <3>1. jobs[r] # None /\ m.mutation # None /\ jobs[r].mutation = m.mutation
        BY <2>1 DEF Inv, WorkersBound, MemoryTrue
      <3> QED
        BY <1>1, <3>1
    <2> QED
      BY <1>3, <1>5, <2>1, EffectCases
  <1> QED
    BY <1>4, <1>5 DEF EffectMatchesIntent

LEMMA ReceiptsTrueStep ==
    ASSUME Inv, [Next]_vars
    PROVE  ReceiptsTrue'
  <1> SUFFICES ASSUME NEW v \in Workers, workers'[v].reply # None
               PROVE  /\ workers'[v].phase = "await"
                      /\ workers'[v].reply.code = "2xx" =>
                             /\ workers'[v].reply.hash = workers'[v].mutation
                             /\ effects'[workers'[v].job] # None
    BY DEF ReceiptsTrue
  <1>1. ASSUME workers'[v].reply = workers[v].reply
        PROVE  workers[v].phase = "await"
    BY <1>1 DEF Inv, ReceiptsTrue
  <1>2. CASE Waits(v)
    <2>1. workers[v].phase = "await"
      BY <1>1, <1>2 DEF Waits
    <2>2. workers[v].job \in Requests
      BY <2>1 DEF Inv, WorkersBound
    <2>3. effects[workers[v].job] # None => effects'[workers[v].job] # None
      BY <2>2, EffectsKeptStep DEF EffectsKept, Inv
    <2>4. CASE workers'[v].reply = workers[v].reply
      BY <1>2, <2>1, <2>3, <2>4 DEF Waits, Inv, ReceiptsTrue
    <2>5. CASE workers'[v].reply # workers[v].reply
      BY <1>2, <2>1, <2>5 DEF Waits
    <2> QED
      BY <2>4, <2>5
  <1>3. ASSUME NEW r \in Requests, Claim(v, r)
        PROVE  workers'[v].reply = None
    BY <1>3, ClaimEffect
  <1>4. ASSUME Decides(v)
        PROVE  workers'[v].reply = None
    BY <1>4, DecidesEffect
  <1>5. CASE Prepare(v) /\ Authorises(v)
    BY <1>1, <1>5 DEF Prepare, Authorises
  <1> QED
    BY <1>1, <1>2, <1>3, <1>4, <1>5, WorkerCases DEF Stops, Moves

LEMMA OutcomesTrueStep ==
    ASSUME Inv, [Next]_vars
    PROVE  OutcomesTrue'
  <1> SUFFICES ASSUME NEW v \in Workers, workers'[v].phase = "finish"
               PROVE  TrueOutcome(workers[v].outcome, workers[v].job)'
    BY DEF OutcomesTrue
  <1>1. ASSUME workers[v].phase # "idle", NEW o,
               TrueOutcome(o, workers[v].job), o = workers'[v].outcome,
               workers'[v].job = workers[v].job
        PROVE  TrueOutcome(workers[v].outcome, workers[v].job)'
    <2>1. workers[v].job \in Requests
      BY <1>1 DEF Inv, WorkersBound
    <2>2. effects[workers[v].job] # None => effects'[workers[v].job] # None
      BY <2>1, EffectsKeptStep DEF EffectsKept, Inv
    <2> QED
      BY <1>1, <2>2 DEF TrueOutcome
  <1>2. CASE Waits(v)
    BY <1>1, <1>2 DEF Waits, Inv, OutcomesTrue
  <1>3. CASE workers[v].phase # "idle" /\ Decides(v)
    <2>1. /\ workers'[v].job = workers[v].job
          /\ TrueOutcome(workers'[v].outcome, workers[v].job)
      BY <1>3, DecidesEffect
    <2> QED
      BY <1>1, <1>3, <2>1
  <1>4. ASSUME NEW r \in Requests, Claim(v, r)
        PROVE  FALSE
    <2>1. workers'[v].phase = IF jobs[r].uncertain THEN "lookup" ELSE "prepare"
      BY <1>4, ClaimEffect
    <2> QED
      BY <2>1
  <1> QED
    BY <1>2, <1>3, <1>4, WorkerCases DEF Stops, Moves, Authorises

\* A job keeps its status and reason, becomes ready or retry or leased with
\* its reason kept, or its holder records an outcome.
LEMMA StatusCases ==
    ASSUME Inv, [Next]_vars, NEW r \in Requests, jobs'[r] # None
    PROVE  \/ jobs'[r] = jobs[r]
           \/ jobs'[r] = NewJob
           \/ /\ jobs[r] # None
              /\ jobs'[r].status \in {"retry", "leased"}
              /\ jobs'[r].reason = jobs[r].reason
           \/ \E w \in Workers :
                 workers[w].job = r /\ Finish(w) /\ Holds(w, r)
  <1>1. ASSUME NEW e \in exceptions, Requeue(e), e.subject = r
        PROVE  /\ jobs[r] # None
               /\ jobs'[r].status \in {"retry", "leased"}
               /\ jobs'[r].reason = jobs[r].reason
    BY <1>1, RequeueEffect, NoneAssumption
  <1>2. ASSUME Elapse(r)
        PROVE  /\ jobs[r] # None
               /\ jobs'[r].status \in {"retry", "leased"}
               /\ jobs'[r].reason = jobs[r].reason
    BY <1>2, ElapseEffect, NoneAssumption
  <1>3. ASSUME NEW w \in Workers, Claim(w, r)
        PROVE  /\ jobs[r] # None
               /\ jobs'[r].status \in {"retry", "leased"}
               /\ jobs'[r].reason = jobs[r].reason
    <2>1. jobs'[r].status = "leased" /\ jobs'[r].reason = jobs[r].reason
      BY <1>3, ClaimEffect
    <2> QED
      BY <1>3, <2>1 DEF Claim
  <1>4. ASSUME NEW w \in Workers, workers[w].job = r,
               (Prepare(w) /\ Authorises(w)) \/ (Defer(w) /\ Holds(w, r))
        PROVE  /\ jobs[r] # None
               /\ jobs'[r].status \in {"retry", "leased"}
               /\ jobs'[r].reason = jobs[r].reason
    BY <1>4, DeferEffect DEF Authorises, Holds
  <1> QED
    BY <1>1, <1>2, <1>3, <1>4, JobCases

\* What finish writes for a holder.
LEMMA FinishRecords ==
    ASSUME Inv, NEW w \in Workers, Finish(w), Holds(w, workers[w].job)
    PROVE  LET r == workers[w].job
               o == workers[w].outcome
           IN  /\ r \in Requests
               /\ jobs[r].status = "leased"
               /\ jobs'[r].status \in {"succeeded", "retry", "dead", "blocked"}
               /\ jobs'[r].reason \notin {"mutation_changed",
                                          "remote_identity_conflict"}
               /\ jobs'[r].reason \in Requeueable => jobs'[r].status = "dead"
               /\ jobs'[r].status = "succeeded" =>
                      effects[r] # None /\ ~jobs'[r].uncertain
               /\ jobs'[r].status = "retry" => jobs[r].attempts < MaxAttempts
               /\ jobs'[r].attempts = jobs[r].attempts
               /\ jobs'[r].lapsed = jobs[r].lapsed
  <1> DEFINE r == workers[w].job
             o == FinalOutcome(workers[w].outcome, jobs[r].attempts)
  <1>1. /\ r \in Requests
        /\ jobs[r] \in JobRecords
        /\ o \in Outcomes
        /\ jobs[r].status = "leased"
        /\ jobs'[r].status = o.status
        /\ jobs'[r].attempts = jobs[r].attempts
        /\ jobs'[r].lapsed = jobs[r].lapsed
        /\ jobs'[r].uncertain = (~o.clear /\ jobs[r].uncertain)
        /\ jobs'[r].reason = o.reason
    BY FinishEffect
  <1>2. TrueOutcome(workers[w].outcome, r)
    BY DEF Finish, Inv, OutcomesTrue
  <1>3. CASE workers[w].outcome.status = "retry" /\ jobs[r].attempts >= MaxAttempts
    <2>1. o.status = "dead" /\ o.reason = "retry_exhausted"
      BY <1>3 DEF FinalOutcome, Outcome
    <2> QED
      BY <1>1, <2>1
  <1>4. CASE ~(workers[w].outcome.status = "retry" /\ jobs[r].attempts >= MaxAttempts)
    <2>1. o = workers[w].outcome
      BY <1>4 DEF FinalOutcome
    <2>2. jobs[r].attempts \in Nat /\ MaxAttempts \in Nat
      BY <1>1, BoundsAssumption DEF JobRecords
    <2>3. o.status = "retry" => jobs[r].attempts < MaxAttempts
      BY <1>4, <2>1, <2>2
    <2> QED
      BY <1>1, <1>2, <2>1, <2>3 DEF TrueOutcome, Requeueable
  <1> QED
    BY <1>3, <1>4

LEMMA NoIdentityConflictStep ==
    ASSUME Inv, [Next]_vars
    PROVE  NoIdentityConflict'
  <1> SUFFICES ASSUME NEW r \in Requests, jobs'[r] # None
               PROVE  jobs'[r].reason \notin {"mutation_changed",
                                              "remote_identity_conflict"}
    BY DEF NoIdentityConflict
  <1>1. CASE jobs'[r] = NewJob
    BY <1>1 DEF NewJob
  <1>2. ASSUME NEW w \in Workers, workers[w].job = r, Finish(w), Holds(w, r)
        PROVE  jobs'[r].reason \notin {"mutation_changed",
                                       "remote_identity_conflict"}
    BY <1>2, FinishRecords
  <1> QED
    BY <1>1, <1>2, StatusCases DEF Inv, NoIdentityConflict

LEMMA SuccessHasEffectStep ==
    ASSUME Inv, [Next]_vars
    PROVE  SuccessHasEffect'
  <1> SUFFICES ASSUME NEW r \in Requests, jobs'[r] # None,
                      jobs'[r].status = "succeeded"
               PROVE  effects'[r] # None /\ ~jobs'[r].uncertain
    BY DEF SuccessHasEffect
  <1>0. effects[r] # None => effects'[r] # None
    BY EffectsKeptStep DEF Inv, EffectsKept
  <1>1. CASE jobs'[r] = jobs[r]
    BY <1>0, <1>1 DEF Inv, SuccessHasEffect
  <1>2. CASE jobs'[r] = NewJob
    BY <1>2 DEF NewJob
  <1>3. ASSUME NEW w \in Workers, workers[w].job = r, Finish(w), Holds(w, r)
        PROVE  effects[r] # None /\ ~jobs'[r].uncertain
    BY <1>3, FinishRecords
  <1> QED
    BY <1>0, <1>1, <1>2, <1>3, StatusCases

\* A lease that still stands was left alone, ran out, or was just given or
\* used for an authorisation.
LEMMA LeaseCases ==
    ASSUME Inv, [Next]_vars, NEW r \in Requests, jobs'[r] # None,
           jobs'[r].status = "leased"
    PROVE  \/ jobs'[r] = jobs[r]
           \/ Elapse(r)
           \/ \E w \in Workers : Claim(w, r)
           \/ \E w \in Workers :
                 workers[w].job = r /\ Prepare(w) /\ Authorises(w)
  <1>1. CASE jobs'[r] = NewJob
    BY <1>1 DEF NewJob
  <1>2. ASSUME NEW e \in exceptions, Requeue(e), e.subject = r
        PROVE  FALSE
    BY <1>2, RequeueEffect
  <1>3. ASSUME NEW w \in Workers, workers[w].job = r, Defer(w), Holds(w, r)
        PROVE  FALSE
    BY <1>3, DeferEffect
  <1>4. ASSUME NEW w \in Workers, workers[w].job = r, Finish(w), Holds(w, r)
        PROVE  FALSE
    BY <1>4, FinishRecords
  <1> QED
    BY <1>1, <1>2, <1>3, <1>4, JobCases

LEMMA InFlightIsUncertainStep ==
    ASSUME Inv, [Next]_vars
    PROVE  InFlightIsUncertain'
  <1> SUFFICES ASSUME NEW v \in Workers,
                      workers'[v].phase \in {"dispatch", "await"},
                      Holds(v, workers[v].job)'
               PROVE  /\ jobs'[workers'[v].job].uncertain
                      /\ jobs'[workers'[v].job].mutation = workers'[v].mutation
    BY DEF InFlightIsUncertain
  <1> DEFINE r == workers'[v].job
  <1>1. jobs'[r].mutation = workers'[v].mutation
    BY MemoryTrueStep DEF MemoryTrue
  <1>2. /\ jobs'[r] # None
        /\ jobs'[r].status = "leased"
        /\ jobs'[r].token = workers'[v].token
    BY DEF Holds
  <1>3. ASSUME workers[v].phase \in {"dispatch", "await"},
               workers'[v].job = workers[v].job,
               workers'[v].token = workers[v].token
        PROVE  jobs'[r].uncertain
    <2>0. r \in Requests /\ workers[v].token \in 1 .. issued[r] /\ issued[r] \in Nat
      BY <1>3 DEF Inv, WorkersBound, TypeOK
    <2>1. ASSUME Holds(v, r)
          PROVE  jobs[r].uncertain
      BY <1>3, <2>1 DEF Inv, InFlightIsUncertain
    <2>2. CASE jobs'[r] = jobs[r]
      BY <1>2, <1>3, <2>1, <2>2 DEF Holds
    <2>3. CASE Elapse(r)
      <3>1. /\ jobs[r] \in JobRecords
            /\ jobs[r].status = jobs'[r].status
            /\ jobs[r].token = jobs'[r].token
            /\ jobs[r].uncertain = jobs'[r].uncertain
        BY <2>0, <2>3, ElapseEffect
      <3> QED
        BY <1>2, <1>3, <2>1, <3>1, NoneAssumption DEF Holds
    <2>4. ASSUME NEW w \in Workers, Claim(w, r)
          PROVE  FALSE
      <3>1. jobs'[r].token = issued[r] + 1
        BY <2>0, <2>4, ClaimEffect
      <3> QED
        BY <1>2, <1>3, <2>0, <3>1
    <2>5. ASSUME NEW w \in Workers, workers[w].job = r, Authorises(w)
          PROVE  jobs'[r].uncertain
      BY <2>5 DEF Authorises
    <2> QED
      BY <1>2, <2>0, <2>2, <2>3, <2>4, <2>5, LeaseCases
  <1>4. jobs'[r].uncertain
    <2>1. CASE Waits(v)
      BY <1>3, <2>1 DEF Waits
    <2>2. CASE Moves(v, "dispatch", "await")
      BY <1>3, <2>2 DEF Moves
    <2>3. CASE Authorises(v)
      BY <2>3 DEF Authorises
    <2>4. ASSUME Decides(v)
          PROVE  FALSE
      BY <2>4, DecidesEffect
    <2>5. ASSUME NEW q \in Requests, Claim(v, q)
          PROVE  FALSE
      <3>1. workers'[v].phase = IF jobs[q].uncertain THEN "lookup" ELSE "prepare"
        BY <2>5, ClaimEffect
      <3> QED
        BY <3>1
    <2> QED
      BY <2>1, <2>2, <2>3, <2>4, <2>5, WorkerCases DEF Stops, Moves
  <1> QED
    BY <1>1, <1>4

\* A dead job stays as it is unless it is requeued.
LEMMA DeadStays ==
    ASSUME Inv, [Next]_vars, NEW r \in Requests, jobs[r] # None,
           jobs[r].status \in {"dead", "succeeded", "blocked"}
    PROVE  jobs'[r] = jobs[r] \/ \E e \in exceptions : Requeue(e) /\ e.subject = r
  <1>1. ASSUME Elapse(r)
        PROVE  FALSE
    BY <1>1, ElapseEffect
  <1>2. ASSUME NEW w \in Workers, Claim(w, r)
        PROVE  FALSE
    BY <1>2 DEF Claim, Claimable
  <1>3. ASSUME NEW w \in Workers, workers[w].job = r, Authorises(w) \/ Holds(w, r)
        PROVE  FALSE
    BY <1>3 DEF Authorises, Holds
  <1> QED
    BY <1>1, <1>2, <1>3, JobCases

\* The exception that the holder of job e.subject opens by recording a failure
\* after which it may be requeued.
Recorded(e) ==
    LET r == e.subject
    IN  /\ r \in Requests
        /\ jobs[r] # None
        /\ jobs[r].status = "leased"
        /\ jobs'[r] # None
        /\ jobs'[r].status = "dead"
        /\ jobs'[r].reason = e.category
        /\ e = Exception(e.category, r, jobs[r].token)

LEMMA RequeueableCases ==
    ASSUME Inv, [Next]_vars, NEW e \in exceptions', e.category \in Requeueable
    PROVE  e \in exceptions \/ Recorded(e)
  <1>1. ASSUME NEW w \in Workers, Finish(w), e \notin exceptions
        PROVE  Recorded(e)
    <2> DEFINE r == workers[w].job
               o == FinalOutcome(workers[w].outcome, jobs[r].attempts)
    <2>1. Holds(w, r) /\ e = Exception(CategoryOf(o.reason), r, workers[w].token)
      BY <1>1 DEF Finish
    <2>2. jobs[r] # None /\ jobs[r].status = "leased" /\ jobs[r].token = workers[w].token
      BY <2>1 DEF Holds
    <2>3. r \in Requests /\ jobs'[r] \in JobRecords /\ jobs'[r].reason = o.reason
      BY <1>1, <2>1, FinishEffect
    <2>4. e.subject = r /\ e.category = CategoryOf(o.reason)
      BY <2>1 DEF Exception
    <2>5. e.category = o.reason
      BY <2>4 DEF CategoryOf, Requeueable
    <2>6. jobs'[r].status = "dead"
      BY <1>1, <2>1, <2>3, <2>5, FinishRecords
    <2> QED
      BY <2>1, <2>2, <2>3, <2>4, <2>5, <2>6, NoneAssumption DEF Recorded
  <1>2. CASE \/ UNCHANGED exceptions
             \/ \E x \in exceptions : exceptions' = exceptions \ {x}
    BY <1>2
  <1>3. ASSUME NEW x, NEW r, x \in Categories \ (Requeueable \cup {"execution_blocked"}),
               exceptions' = exceptions \cup {Exception(x, r, 0)}
        PROVE  e \in exceptions
    BY <1>3 DEF Exception
  <1>4. ASSUME NEW a \in Actors, NEW r \in Requests, NEW c \in Customers,
               NEW act \in Actions, NEW n \in Revisions, Propose(a, r, c, act, n)
        PROVE  e \in exceptions
    BY <1>3, <1>4 DEF Propose, Categories, Requeueable
  <1>5. ASSUME NEW r \in Requests, ProposeConflict(r)
        PROVE  e \in exceptions
    BY <1>3, <1>5 DEF ProposeConflict, Categories, Requeueable
  <1>6. ASSUME NEW a \in Actors, NEW r \in Requests, NEW n \in Revisions,
               ApproveDenied(a, r, n)
        PROVE  e \in exceptions
    BY <1>3, <1>6 DEF ApproveDenied, Categories, Requeueable
  <1> QED
    BY <1>1, <1>2, <1>4, <1>5, <1>6 DEF Next, vars, ApiStep, Ingest, Approve,
       Acknowledge, Requeue, ClockStep, ExpireProposal, ExpireApproval, Elapse,
       GateStep, CloseGate, OpenGate, WorkerStep, Claim, Lookup, LookupFails,
       Prepare, Dispatch, HandleReply, TransportError, Defer, Crash, Mutate

LEMMA RequeueIsUniqueStep ==
    ASSUME Inv, [Next]_vars
    PROVE  RequeueIsUnique'
  <1> SUFFICES ASSUME NEW e \in exceptions', e.category \in Requeueable
               PROVE  /\ jobs'[e.subject] # None
                      /\ jobs'[e.subject].status = "dead"
                      /\ jobs'[e.subject].reason = e.category
                      /\ \A f \in exceptions' :
                            f.category \in Requeueable /\ f.subject = e.subject
                            => f = e
    BY DEF RequeueIsUnique
  <1> DEFINE r == e.subject
  <1>1. CASE e \in exceptions
    <2>1. /\ r \in Requests
          /\ jobs[r] # None
          /\ jobs[r].status = "dead"
          /\ jobs[r].reason = e.category
          /\ \A f \in exceptions :
                f.category \in Requeueable /\ f.subject = r => f = e
      BY <1>1 DEF Inv, RequeueIsUnique, TypeOK, ExceptionRecords
    <2>2. ASSUME NEW x \in exceptions, Requeue(x), x.subject = r
          PROVE  FALSE
      BY <2>1, <2>2 DEF Requeue
    <2>3. jobs'[r] = jobs[r]
      BY <2>1, <2>2, DeadStays
    <2>4. ASSUME NEW f \in exceptions', f.category \in Requeueable, f.subject = r
          PROVE  f = e
      BY <2>1, <2>4, RequeueableCases DEF Recorded
    <2> QED
      BY <2>1, <2>3, <2>4
  <1>2. CASE Recorded(e)
    <2>1. ASSUME NEW f \in exceptions, f.category \in Requeueable, f.subject = r
          PROVE  FALSE
      BY <1>2, <2>1 DEF Recorded, Inv, RequeueIsUnique
    <2>2. ASSUME NEW f \in exceptions', f.category \in Requeueable, f.subject = r
          PROVE  f = e
      <3>1. Recorded(f)
        BY <2>1, <2>2, RequeueableCases
      <3> QED
        BY <1>2, <2>2, <3>1 DEF Recorded
    <2> QED
      BY <1>2, <2>2 DEF Recorded
  <1> QED
    BY <1>1, <1>2, RequeueableCases

LEMMA AttemptsPaidStep ==
    ASSUME Inv, [Next]_vars
    PROVE  AttemptsPaid'
  <1> SUFFICES ASSUME NEW r \in Requests, jobs'[r] # None
               PROVE  /\ jobs'[r].attempts >= jobs'[r].lapsed
                      /\ jobs'[r].attempts <= jobs'[r].lapsed + MaxAttempts
                      /\ jobs'[r].status \in {"ready", "retry"} =>
                             jobs'[r].attempts < jobs'[r].lapsed + MaxAttempts
                      /\ jobs'[r].status = "leased" =>
                             jobs'[r].attempts > jobs'[r].lapsed
    BY DEF AttemptsPaid
  <1> DEFINE n == jobs[r].attempts
             l == jobs[r].lapsed
  <1>0. MaxAttempts \in Nat /\ MaxAttempts > 0
    BY BoundsAssumption
  <1>1. ASSUME jobs[r] # None
        PROVE  /\ n \in Nat
               /\ l \in Nat
               /\ n >= l
               /\ n <= l + MaxAttempts
               /\ jobs[r].status \in {"ready", "retry"} => n < l + MaxAttempts
               /\ jobs[r].status = "leased" => n > l
    BY <1>1 DEF Inv, TypeOK, JobRecords, AttemptsPaid
  <1>2. CASE jobs'[r] = jobs[r]
    BY <1>1, <1>2
  <1>3. CASE jobs'[r] = NewJob
    BY <1>0, <1>3 DEF NewJob
  <1>4. CASE \E e \in exceptions : Requeue(e) /\ e.subject = r
    <2>1. /\ jobs'[r].status = "retry"
          /\ jobs'[r].attempts = 0
          /\ jobs'[r].lapsed = 0
      BY <1>4, RequeueEffect
    <2> QED
      BY <1>0, <2>1
  <1>5. CASE Elapse(r)
    <2>1. /\ jobs[r] # None
          /\ jobs'[r].status = jobs[r].status
          /\ jobs'[r].attempts = n
          /\ jobs'[r].lapsed = l
      BY <1>5, ElapseEffect, NoneAssumption
    <2> QED
      BY <1>1, <2>1
  <1>6. CASE \E w \in Workers : Claim(w, r)
    <2>1. /\ jobs[r] # None
          /\ jobs[r].status \in {"ready", "retry", "leased"}
          /\ jobs'[r].status = "leased"
          /\ jobs'[r].attempts = n + 1
          /\ jobs'[r].lapsed = l + IF jobs[r].status = "leased" THEN 1 ELSE 0
      <3>1. PICK w \in Workers : Claim(w, r)
        BY <1>6
      <3>2. /\ jobs[r] \in JobRecords
            /\ jobs[r].status \in {"ready", "retry", "leased"}
            /\ jobs'[r].status = "leased"
            /\ jobs'[r].attempts = n + 1
            /\ jobs'[r].lapsed = l + IF jobs[r].status = "leased" THEN 1 ELSE 0
        BY <3>1, ClaimEffect
      <3>3. jobs[r] # None
        BY <3>2, NoneAssumption
      <3> QED
        BY <3>2, <3>3
    <2> QED
      BY <1>0, <1>1, <2>1
  <1>7. CASE \E w \in Workers : workers[w].job = r /\ Authorises(w)
    <2>1. /\ jobs[r] # None
          /\ jobs'[r].status = jobs[r].status
          /\ jobs'[r].attempts = n
          /\ jobs'[r].lapsed = l
      BY <1>7 DEF Authorises, Holds
    <2> QED
      BY <1>1, <2>1
  <1>8. CASE \E w \in Workers : workers[w].job = r /\ Defer(w) /\ Holds(w, r)
    <2>1. /\ jobs[r] # None
          /\ jobs[r].status = "leased"
          /\ jobs'[r].status = "retry"
          /\ jobs'[r].attempts = n - 1
          /\ jobs'[r].lapsed = l
      BY <1>8, DeferEffect, NoneAssumption
    <2> QED
      BY <1>0, <1>1, <2>1
  <1>9. CASE \E w \in Workers : workers[w].job = r /\ Finish(w) /\ Holds(w, r)
    <2>1. /\ jobs[r] # None
          /\ jobs'[r].status \in {"succeeded", "retry", "dead", "blocked"}
          /\ jobs'[r].attempts = n
          /\ jobs'[r].lapsed = l
          /\ jobs'[r].status = "retry" => n < MaxAttempts
      BY <1>9, FinishRecords DEF Holds
    <2> QED
      BY <1>0, <1>1, <2>1
  <1> QED
    BY <1>2, <1>3, <1>4, <1>5, <1>6, <1>7, <1>8, <1>9, JobCases

-----------------------------------------------------------------------------
(***************************************************************************)
(* The theorems.                                                           *)
(***************************************************************************)
LEMMA InvInit == Init => Inv
  <1> SUFFICES ASSUME Init
               PROVE  Inv
    OBVIOUS
  <1>1. TypeOK
    BY TypeInit
  <1>2. \A w \in Workers : workers[w].phase = "idle" /\ workers[w].reply = None
    BY DEF Init, IdleWorker
  <1>3. \A r \in Requests : jobs[r] = None /\ proposals[r] = None /\ effects[r] = None
    BY DEF Init
  <1>4. exceptions = {} /\ posts = {}
    BY DEF Init
  <1> QED
    BY <1>1, <1>2, <1>3, <1>4
    DEF Inv, WorkersBound, TokensFresh, JobsAuthorised, MutationCurrent,
        MemoryTrue, EffectMatchesIntent, ReceiptsTrue, OutcomesTrue,
        NoIdentityConflict, SuccessHasEffect, InFlightIsUncertain,
        RequeueIsUnique, AttemptsPaid

LEMMA InvStep ==
    ASSUME Inv, [Next]_vars
    PROVE  Inv'
  BY TypeStep, WorkersBoundStep, TokensFreshStep, JobsAuthorisedStep,
     MutationCurrentStep, MemoryTrueStep, EffectMatchesIntentStep,
     ReceiptsTrueStep, OutcomesTrueStep, NoIdentityConflictStep,
     SuccessHasEffectStep, InFlightIsUncertainStep, RequeueIsUniqueStep,
     AttemptsPaidStep DEF Inv

\* The strengthening Inv is an invariant of the outbox: no interleaving of API
\* calls, workers, crashes, expiries and late requests breaks any part of it.
THEOREM Invariance == Spec => []Inv
  <1>1. Init => Inv
    BY InvInit
  <1>2. Inv /\ [Next]_vars => Inv'
    BY InvStep
  <1> QED
    BY <1>1, <1>2, PTL DEF Spec

\* Every row and every worker's memory keeps its shape (schema.sql, worker.py).
THEOREM TypeCorrect == Spec => []TypeOK
  <1>1. Inv => TypeOK
    BY DEF Inv
  <1> QED
    BY <1>1, Invariance, PTL

\* The receiver only ever holds, or is sent, the one stored mutation of a key
\* (worker.prepare, mock.mutate).
THEOREM IntentIsDurable == Spec => []EffectMatchesIntent
  <1>1. Inv => EffectMatchesIntent
    BY DEF Inv
  <1> QED
    BY <1>1, Invariance, PTL

\* worker.prepare never finds a changed mutation, and worker.execute never a
\* receipt for another one.
THEOREM IdentityHolds == Spec => []NoIdentityConflict
  <1>1. Inv => NoIdentityConflict
    BY DEF Inv
  <1> QED
    BY <1>1, Invariance, PTL

\* An effect at the receiver was allowed by policy, and marketing was approved
\* by another actor (service.propose, service.approve, worker.prepare).
THEOREM Authorised == Spec => []EffectAuthorised
  <1>1. Inv => EffectAuthorised
    <2> SUFFICES ASSUME Inv, NEW r \in Requests, effects[r] # None
                 PROVE  /\ proposals[r] # None
                        /\ proposals[r].decision # "deny"
                        /\ effects[r].customer = proposals[r].customer
                        /\ effects[r].action = proposals[r].action
                        /\ effects[r].revision = proposals[r].revision
                        /\ effects[r].action = "send_marketing" =>
                               proposals[r].approvedBy
                                   \notin {None, proposals[r].actor}
      BY DEF EffectAuthorised
    <2>1. jobs[r] # None /\ jobs[r].mutation = effects[r]
      BY DEF Inv, EffectMatchesIntent
    <2>2. /\ effects[r].customer = proposals[r].customer
          /\ effects[r].action = proposals[r].action
          /\ effects[r].revision = proposals[r].revision
      BY <2>1 DEF Inv, MutationCurrent
    <2>3. /\ proposals[r] # None
          /\ proposals[r].decision \in {"allow", "approval"}
          /\ proposals[r].decision = "approval" =>
                 proposals[r].approvedBy \notin {None, proposals[r].actor}
          /\ proposals[r].decision = "allow" =>
                 proposals[r].action # "send_marketing"
      BY <2>1 DEF Inv, JobsAuthorised
    <2> QED
      BY <2>2, <2>3
  <1> QED
    BY <1>1, Invariance, PTL

\* A job is reported as succeeded only when its effect is at the receiver, and
\* then its outcome is not uncertain (worker.execute, worker.finish).
THEOREM SuccessIsTrue == Spec => []SuccessHasEffect
  <1>1. Inv => SuccessHasEffect
    BY DEF Inv
  <1> QED
    BY <1>1, Invariance, PTL

\* Whoever takes over from a worker that may have sent a request finds the row
\* uncertain, with the mutation sent (worker.prepare, worker.claim).
THEOREM UncertaintyIsDurable == Spec => []InFlightIsUncertain
  <1>1. Inv => InFlightIsUncertain
    BY DEF Inv
  <1> QED
    BY <1>1, Invariance, PTL

\* One open exception at most lets an operator requeue a job, and only while
\* the job is dead for the reason it names (service.resolve, worker.finish).
THEOREM RequeueIsSafe == Spec => []RequeueIsUnique
  <1>1. Inv => RequeueIsUnique
    BY DEF Inv
  <1> QED
    BY <1>1, Invariance, PTL

\* Whatever MaxAttempts is, only the leases a worker let lapse, one attempt each,
\* come on top of it; deferrals and requeues are accounted for exactly
\* (worker.claim, worker.finish, capacity.defer, service.resolve).
THEOREM AttemptsAreBounded == Spec => []AttemptsBounded
  <1>1. Inv => AttemptsBounded
    BY BoundsAssumption, NoneAssumption
    DEF Inv, TypeOK, JobRecords, AttemptsPaid, AttemptsBounded
  <1> QED
    BY <1>1, Invariance, PTL

\* Once the source withdrew what a request was proposed for, before any
\* dispatch was authorised, it is never sent (worker.prepare).
THEOREM WithdrawalIsFinal == Spec => WithdrawnStaysWithdrawn
  <1>1. ASSUME Inv, [Next]_vars
        PROVE  \A r \in Requests : Withdrawn(r) => Withdrawn(r)'
    <2> SUFFICES ASSUME NEW r \in Requests, Withdrawn(r)
                 PROVE  Withdrawn(r)'
      OBVIOUS
    <2> DEFINE p == proposals[r]
               c == p.customer
    <2>1. /\ p \in ProposalRecords
          /\ c \in Customers
          /\ customers[c].revision \in Nat
          /\ customers'[c].revision \in Nat
          /\ p.revision \in Nat
      <3>1. p \in ProposalRecords
        BY <1>1 DEF Withdrawn, Inv, TypeOK
      <3> QED
        BY <1>1, <3>1, TypeStep
        DEF Inv, TypeOK, ProposalRecords, CustomerRecords, Revisions
    <2>2. /\ proposals'[r] # None
          /\ proposals'[r].customer = c
          /\ proposals'[r].revision = p.revision
      BY <1>1, ProposalsKeptStep DEF Inv, ProposalsKept, Withdrawn
    <2>3. customers'[c].revision > p.revision
      <3>1. \/ customers'[c] = customers[c]
            \/ customers'[c].revision > customers[c].revision
        BY <1>1, <2>1, CustomersGrowStep DEF Inv, CustomersGrow
      <3>2. customers[c].revision > p.revision
        BY DEF Withdrawn
      <3> QED
        BY <2>1, <3>1, <3>2
    <2>4. effects'[r] = None /\ \A m \in posts' : m.job # r
      BY <1>1, EffectCases DEF Withdrawn
    <2>5. ASSUME NEW v \in Workers, workers'[v].phase = "dispatch",
                 workers'[v].job = r
          PROVE  FALSE
      <3>1. ASSUME Waits(v)
            PROVE  FALSE
        BY <2>5, <3>1 DEF Waits, Withdrawn
      <3>2. ASSUME Authorises(v)
            PROVE  FALSE
        <4>1. workers[v].job = r /\ valid_proposal(p, customers[c], TRUE) = "none"
          BY <2>5, <3>2 DEF Authorises
        <4>2. customers[c].revision = p.revision
          BY <2>1, <4>1, ValidIsCurrent
        <4> QED
          BY <2>1, <4>2 DEF Withdrawn
      <3>3. ASSUME NEW q \in Requests, Claim(v, q)
            PROVE  FALSE
        <4>1. workers'[v].phase = IF jobs[q].uncertain THEN "lookup" ELSE "prepare"
          BY <1>1, <3>3, ClaimEffect
        <4> QED
          BY <2>5, <4>1
      <3>4. ASSUME Decides(v)
            PROVE  FALSE
        BY <1>1, <2>5, <3>4, DecidesEffect
      <3> QED
        BY <1>1, <2>5, <3>1, <3>2, <3>3, <3>4, WorkerCases DEF Stops, Moves
    <2> QED
      BY <2>2, <2>3, <2>4, <2>5 DEF Withdrawn
  <1>2. Inv /\ [Next]_vars
          => [\A r \in Requests : Withdrawn(r) => Withdrawn(r)']_vars
    BY <1>1
  <1> QED
    BY <1>2, Invariance, PTL DEF Spec, WithdrawnStaysWithdrawn

\* Only the worker whose lease it is ends it: a worker that was fenced out can
\* neither complete, fail nor defer the job (worker.finish, capacity.defer).
THEOREM LeasesAreFenced == Spec => OnlyHolderEndsLease
  <1>1. ASSUME Inv, [Next]_vars, NEW r \in Requests, jobs[r] # None,
               jobs[r].status = "leased", jobs'[r].status # "leased"
        PROVE  \E w \in Workers :
                  /\ workers[w].job = r
                  /\ workers[w].phase # "idle"
                  /\ workers[w].token = jobs[r].token
                  /\ workers'[w].phase = "idle"
    <2>1. ASSUME NEW e \in exceptions, Requeue(e), e.subject = r
          PROVE  FALSE
      BY <1>1, <2>1 DEF Requeue
    <2>2. ASSUME Elapse(r)
          PROVE  FALSE
      BY <1>1, <2>2, ElapseEffect
    <2>3. ASSUME NEW w \in Workers, Claim(w, r)
          PROVE  FALSE
      BY <1>1, <2>3, ClaimEffect
    <2>4. ASSUME NEW w \in Workers, workers[w].job = r, Authorises(w)
          PROVE  FALSE
      BY <1>1, <2>4 DEF Authorises
    <2>5. ASSUME NEW w \in Workers, workers[w].job = r, Holds(w, r),
                 Defer(w) \/ Finish(w)
          PROVE  /\ workers[w].phase # "idle"
                 /\ workers[w].token = jobs[r].token
                 /\ workers'[w].phase = "idle"
      <3>1. workers' = [workers EXCEPT ![w] = IdleWorker]
        BY <2>5 DEF Defer, Finish
      <3> QED
        BY <1>1, <2>5, <3>1, IdleEffect DEF Defer, Finish, Holds
    <2> QED
      BY <1>1, <2>1, <2>2, <2>3, <2>4, <2>5, JobCases
  <1>2. Inv /\ [Next]_vars
          => [\A r \in Requests :
                 /\ jobs[r] # None
                 /\ jobs[r].status = "leased"
                 /\ jobs'[r].status # "leased"
                 => \E w \in Workers :
                       /\ workers[w].job = r
                       /\ workers[w].phase # "idle"
                       /\ workers[w].token = jobs[r].token
                       /\ workers'[w].phase = "idle"]_vars
    BY <1>1
  <1> QED
    BY <1>2, Invariance, PTL DEF Spec, OnlyHolderEndsLease

\* A job that succeeded or was blocked never changes again (worker.finish,
\* service.resolve).
THEOREM SettlementIsFinal == Spec => SettledIsFinal
  <1>1. ASSUME Inv, [Next]_vars, NEW r \in Requests, jobs[r] # None,
               jobs[r].status \in {"succeeded", "blocked"}
        PROVE  jobs'[r] = jobs[r]
    BY <1>1, DeadStays DEF Requeue
  <1>2. Inv /\ [Next]_vars
          => [\A r \in Requests :
                 jobs[r] # None /\ jobs[r].status \in {"succeeded", "blocked"} =>
                     jobs'[r] = jobs[r]]_vars
    BY <1>1
  <1> QED
    BY <1>2, Invariance, PTL DEF Spec, SettledIsFinal

-----------------------------------------------------------------------------
(***************************************************************************)
(* The outbox implements the effect ledger.                                *)
(***************************************************************************)

\* What each step means to the ledger.
LEMMA LedgerStep ==
    ASSUME Inv, [Next]_vars
    PROVE  [Ledger!Next]_(Ledger!ledgerVars)
  <1>0. /\ jobs \in [Requests -> JobRecords \cup {None}]
        /\ effects \in [Requests -> Mutations \cup {None}]
        /\ effects' \in [Requests -> Mutations \cup {None}]
    BY TypeStep DEF Inv, TypeOK
  <1>1. ASSUME \A r \in Requests : Intent'[r] = Intent[r]
        PROVE  Intent' = Intent
    BY <1>1 DEF Intent
  <1>2. ASSUME NEW m \in posts, Mutate(m)
        PROVE  [Ledger!Next]_(Ledger!ledgerVars)
    <2> DEFINE r == m.job
    <2>1. r \in Requests /\ m.mutation # None
      BY <1>2, MutateEffect, NoneAssumption DEF PostRecords
    <2>2. UNCHANGED <<Intent, Reported>>
      BY <1>2 DEF Mutate, Intent, Reported
    <2>3. CASE UNCHANGED effects
      BY <2>2, <2>3 DEF Ledger!ledgerVars
    <2>4. CASE effects[r] = None /\ effects' = [effects EXCEPT ![r] = m.mutation]
      <3>1. Intent[r] = m.mutation
        BY <2>1 DEF Intent, Inv, EffectMatchesIntent
      <3>2. Ledger!Happen(r)
        BY <2>1, <2>2, <2>4, <3>1 DEF Ledger!Happen
      <3> QED
        BY <2>1, <3>2 DEF Ledger!Next
    <2> QED
      BY <1>2, <2>3, <2>4 DEF Mutate
  <1>3. ASSUME NEW w \in Workers, Prepare(w), Authorises(w)
        PROVE  [Ledger!Next]_(Ledger!ledgerVars)
    <2> DEFINE r == workers[w].job
               p == proposals[r]
               m == MutationOf(p.customer, p.action, customers[p.customer])
    <2>1. /\ r \in Requests
          /\ p \in ProposalRecords
          /\ customers[p.customer] \in CustomerRecords
      BY <1>3, PrepareEffect
    <2>2. m \in Mutations /\ m # None
      BY <2>1, MutationType DEF ProposalRecords
    <2>3. /\ jobs[r] # None
          /\ jobs'[r] # None
          /\ jobs[r].mutation \in {None, m}
          /\ jobs'[r].mutation = m
          /\ jobs'[r].status = jobs[r].status
          /\ OnlyJob(r)
      BY <1>3, NoneAssumption DEF Authorises, Holds
    <2>4. UNCHANGED <<effects, Reported>>
      <3>1. effects' = effects
        BY <1>3 DEF Prepare
      <3>2. ASSUME NEW q \in Requests
            PROVE  q \in Reported' <=> q \in Reported
        <4>1. CASE q = r
          BY <2>3, <4>1 DEF Reported
        <4>2. CASE q # r
          BY <2>3, <4>2 DEF Reported, OnlyJob
        <4> QED
          BY <4>1, <4>2
      <3>3. Reported \subseteq Requests /\ Reported' \subseteq Requests
        BY DEF Reported
      <3> QED
        BY <3>1, <3>2, <3>3
    <2>5. Intent' = [Intent EXCEPT ![r] = m]
      BY <2>1, <2>3 DEF Intent, OnlyJob
    <2>6. CASE Intent[r] = None
      <3>1. Ledger!Commit(r, m)
        BY <2>4, <2>5, <2>6 DEF Ledger!Commit
      <3> QED
        BY <2>1, <2>2, <3>1 DEF Ledger!Next
    <2>7. CASE Intent[r] = m
      <3>1. Intent' = Intent
        BY <2>5, <2>7 DEF Intent
      <3> QED
        BY <2>4, <3>1 DEF Ledger!ledgerVars
    <2> QED
      BY <2>1, <2>3, <2>6, <2>7 DEF Intent
  <1>4. ASSUME NEW w \in Workers, Finish(w), Holds(w, workers[w].job)
        PROVE  [Ledger!Next]_(Ledger!ledgerVars)
    <2> DEFINE r == workers[w].job
    <2>1. /\ r \in Requests
          /\ jobs[r] # None
          /\ jobs[r].status = "leased"
          /\ jobs'[r] # None
          /\ jobs'[r].mutation = jobs[r].mutation
          /\ OnlyJob(r)
      BY <1>4, FinishEffect, NoneAssumption DEF Holds
    <2>2. effects' = effects
      BY <1>4 DEF Finish
    <2>3. Intent' = Intent
      BY <1>1, <2>1 DEF Intent, OnlyJob
    <2>4. CASE jobs'[r].status = "succeeded"
      <3>1. effects[r] # None
        BY <1>4, <2>4, FinishRecords
      <3>2. Reported' = Reported \cup {r}
        BY <2>1, <2>4 DEF Reported, OnlyJob
      <3>3. Ledger!Report(r)
        BY <2>2, <2>3, <3>1, <3>2 DEF Ledger!Report
      <3> QED
        BY <2>1, <3>3 DEF Ledger!Next
    <2>5. CASE jobs'[r].status # "succeeded"
      <3>1. Reported' = Reported
        BY <2>1, <2>5 DEF Reported, OnlyJob
      <3> QED
        BY <2>2, <2>3, <3>1 DEF Ledger!ledgerVars
    <2> QED
      BY <2>4, <2>5
  <1>5. ASSUME effects' = effects,
               \A r \in Requests :
                  \/ jobs'[r] = jobs[r]
                  \/ /\ jobs[r] = None
                     /\ jobs'[r] = NewJob
                  \/ /\ jobs[r] # None
                     /\ jobs'[r] # None
                     /\ jobs'[r].mutation = jobs[r].mutation
                     /\ jobs[r].status # "succeeded"
                     /\ jobs'[r].status # "succeeded"
        PROVE  [Ledger!Next]_(Ledger!ledgerVars)
    <2>1. NewJob # None /\ NewJob.mutation = None /\ NewJob.status # "succeeded"
      BY NewJobType, NoneAssumption DEF NewJob
    <2>2. Intent' = Intent
      BY <1>1, <1>5, <2>1 DEF Intent
    <2>3. Reported' = Reported
      BY <1>5, <2>1 DEF Reported
    <2> QED
      BY <1>5, <2>2, <2>3 DEF Ledger!ledgerVars
  <1>6. ASSUME NEW r \in Requests, OnlyJob(r), jobs[r] # None, jobs'[r] # None,
               jobs'[r].mutation = jobs[r].mutation,
               jobs[r].status # "succeeded", jobs'[r].status # "succeeded",
               effects' = effects
        PROVE  [Ledger!Next]_(Ledger!ledgerVars)
    BY <1>5, <1>6 DEF OnlyJob
  <1>7. ASSUME NEW e \in exceptions, Requeue(e)
        PROVE  [Ledger!Next]_(Ledger!ledgerVars)
    <2>1. effects' = effects
      BY <1>7 DEF Requeue
    <2> QED
      BY <1>6, <1>7, <2>1, RequeueEffect, NoneAssumption
  <1>8. ASSUME NEW r \in Requests, Elapse(r)
        PROVE  [Ledger!Next]_(Ledger!ledgerVars)
    <2>1. effects' = effects
      BY <1>8 DEF Elapse
    <2> QED
      BY <1>6, <1>8, <2>1, ElapseEffect, NoneAssumption
  <1>9. ASSUME NEW w \in Workers, NEW r \in Requests, Claim(w, r)
        PROVE  [Ledger!Next]_(Ledger!ledgerVars)
    <2>1. /\ jobs[r] # None
          /\ jobs[r].status # "succeeded"
          /\ effects' = effects
      BY <1>9 DEF Claim, Claimable
    <2>2. /\ jobs'[r] \in JobRecords
          /\ jobs'[r].status = "leased"
          /\ jobs'[r].mutation = jobs[r].mutation
          /\ OnlyJob(r)
      BY <1>9, ClaimEffect
    <2> QED
      BY <1>6, <2>1, <2>2, NoneAssumption
  <1>10. ASSUME NEW w \in Workers, Defer(w), Holds(w, workers[w].job)
         PROVE  [Ledger!Next]_(Ledger!ledgerVars)
    <2>1. effects' = effects
      BY <1>10 DEF Defer
    <2> QED
      BY <1>6, <1>10, <2>1, DeferEffect, NoneAssumption
  <1>11. ASSUME NEW a \in Actors, NEW r \in Requests, NEW c \in Customers,
                NEW act \in Actions, NEW n \in Revisions, Propose(a, r, c, act, n)
         PROVE  [Ledger!Next]_(Ledger!ledgerVars)
    <2>1. jobs[r] = None
      BY <1>11 DEF Propose, Inv, JobsAuthorised
    <2>2. \A q \in Requests :
              jobs'[q] = jobs[q] \/ (jobs[q] = None /\ jobs'[q] = NewJob)
      BY <1>0, <1>11, <2>1 DEF Propose
    <2> QED
      BY <1>5, <1>11, <2>2 DEF Propose
  <1>12. ASSUME NEW a \in Actors, NEW r \in Requests, NEW n \in Revisions,
                Approve(a, r, n)
         PROVE  [Ledger!Next]_(Ledger!ledgerVars)
    <2>1. \A q \in Requests :
              jobs'[q] = jobs[q] \/ (jobs[q] = None /\ jobs'[q] = NewJob)
      BY <1>0, <1>12 DEF Approve
    <2> QED
      BY <1>5, <1>12, <2>1 DEF Approve
  <1>13. CASE UNCHANGED <<jobs, effects>>
    BY <1>5, <1>13
  <1>14. ASSUME NEW w \in Workers, Prepare(w)
         PROVE  [Ledger!Next]_(Ledger!ledgerVars)
    <2>1. CASE UNCHANGED jobs
      BY <1>13, <1>14, <2>1 DEF Prepare
    <2> QED
      BY <1>3, <1>14, <2>1, PrepareEffect
  <1>15. ASSUME NEW w \in Workers, Defer(w) \/ Finish(w)
         PROVE  [Ledger!Next]_(Ledger!ledgerVars)
    <2>1. CASE ~Holds(w, workers[w].job)
      BY <1>13, <1>15, <2>1 DEF Defer, Finish
    <2> QED
      BY <1>4, <1>10, <1>15, <2>1
  <1> QED
    BY <1>2, <1>7, <1>8, <1>9, <1>11, <1>12, <1>13, <1>14, <1>15
    DEF Next, vars, ApiStep, Ingest, ProposeConflict, ApproveDenied,
        Acknowledge, ClockStep, ExpireProposal, ExpireApproval, GateStep,
        CloseGate, OpenGate, WorkerStep, Lookup, LookupFails, Dispatch,
        HandleReply, TransportError, Crash

\* With all its leases, retries, crashes and duplicated or late requests, the
\* outbox is an effect ledger: one intent per key, one effect as intended,
\* success reported only for an effect (worker.py, mock.py).
THEOREM OutboxImplementsLedger == Spec => ImplementsLedger
  <1>1. Init => Ledger!Init
    BY DEF Init, Ledger!Init, Intent, Reported
  <1>2. Inv /\ [Next]_vars => [Ledger!Next]_(Ledger!ledgerVars)
    BY LedgerStep
  <1> QED
    BY <1>1, <1>2, Invariance, PTL DEF Spec, ImplementsLedger, Ledger!Spec

=============================================================================
