------------------------------- MODULE Outbox -------------------------------
(***************************************************************************)
(* The leased PostgreSQL outbox: proposals and their approval              *)
(* (service.py), the workers that claim a job, look up a receipt,          *)
(* authorise a dispatch, send it and record its outcome (worker.py), and   *)
(* the idempotent receiver they talk to (mock.py).                         *)
(*                                                                         *)
(* One action is one database transaction or one step of the network.      *)
(* Between two transactions of a worker anything may happen: its lease may *)
(* expire and be claimed by another worker, the customer may change, the   *)
(* recovery gate may close, the worker may die.  An HTTP request that left *)
(* the worker stays in posts until the receiver handles it, whether or not *)
(* the worker still waits for the reply.                                   *)
(*                                                                         *)
(* Time is abstracted to flags that some action raises: a proposal is      *)
(* expired or not, an approval is expired or not, and a job is due when    *)
(* available_at (status ready, retry) or lease_until (status leased) has   *)
(* passed.                                                                 *)
(***************************************************************************)
EXTENDS Policy

CONSTANTS
    Customers,       \* customer ids
    CustomerStates,  \* the governed states a customer may have
    Actors,          \* authenticated agents and reviewers
    Requests,        \* request ids: id of the proposal, the job and the effect
    Workers,         \* worker processes
    None,            \* an absent row or column
    MaxAttempts,     \* POLICY["max_attempts"]
    Isolated,        \* destinations are configured: a request needs a permit
    MaxRevision,     \* bound: source observations accepted per customer
    MaxDisturbances  \* bound: crashes, stalls, deferrals, requeues, refused
                     \* calls and closures of the gate together

ASSUME StatesAssumption ==
    /\ CustomerStates # {}
    /\ CustomerStates \subseteq
         [suppressed: BOOLEAN, consent: BOOLEAN, email: STRING, profile: STRING]

ASSUME BoundsAssumption ==
    /\ MaxAttempts \in Nat \ {0}
    /\ MaxRevision \in Nat
    /\ MaxDisturbances \in Nat
    /\ Isolated \in BOOLEAN

VARIABLES
    gate,        \* cp.recovery_gate.mode
    customers,   \* cp.customers: revision and state
    proposals,   \* cp.proposals
    jobs,        \* cp.jobs
    exceptions,  \* the open rows of cp.exceptions
    issued,      \* lease tokens drawn for each job: the next one is fresh
    workers,     \* what each worker process holds in memory
    posts,       \* POST /effects requests the receiver has not handled yet
    effects,     \* remote.effects: the committed mutation of each key
    disturbances \* disturbances spent

vars == <<gate, customers, proposals, jobs, exceptions, issued, workers,
          posts, effects, disturbances>>

-----------------------------------------------------------------------------
(***************************************************************************)
(* Values.                                                                 *)
(***************************************************************************)
Revisions == 0 .. MaxRevision

\* The fields of the customer that prepare copies into the mutation.
PayloadFields(action) ==
    IF action = "send_marketing" THEN {"email"} ELSE {"email", "profile"}

MutationOf(c, action, customer) ==
    [customer |-> c, action |-> action, revision |-> customer.revision,
     payload |-> [f \in PayloadFields(action) |-> customer.state[f]]]

Mutations ==
    {MutationOf(c, a, [revision |-> n, state |-> s]) :
        c \in Customers, a \in Actions, n \in Revisions, s \in CustomerStates}

CustomerRecords == [revision: Revisions, state: CustomerStates]

ProposalRecords ==
    [customer: Customers, actor: Actors, action: Actions,
     revision: Revisions, decision: Decisions,
     approvedBy: Actors \cup {None}, expired: BOOLEAN, approvalExpired: BOOLEAN]

Statuses == {"ready", "leased", "retry", "succeeded", "blocked", "dead"}

BlockReasons == ActionReasons \cup
    {"proposal_expired", "approval_missing", "approval_expired",
     "mutation_changed"}

Reasons == BlockReasons \cup
    {"none", "recovery_closed", "reconciled_committed_effect",
     "remote_identity_conflict", "reconciliation_unavailable",
     "remote_committed", "rate_limited", "remote_rejected",
     "remote_server_error", "remote_outcome_unknown", "retry_exhausted"}

\* token = 0 stands for lease_token IS NULL.  lapsed is no column: it counts the
\* claims of the current budget that took over an expired lease, which claim
\* writes to the audit log as recovered; no step reads it.
JobRecords ==
    [status: Statuses, attempts: Nat, lapsed: Nat, token: Nat, due: BOOLEAN,
     uncertain: BOOLEAN, mutation: Mutations \cup {None}, reason: Reasons]

NewJob == [status |-> "ready", attempts |-> 0, lapsed |-> 0, token |-> 0,
           due |-> TRUE, uncertain |-> FALSE, mutation |-> None,
           reason |-> "none"]

Requeueable == {"retry_exhausted", "remote_rejected"}

Categories == Requeueable \cup
    {"execution_blocked", "proposal_denied", "approval_denied",
     "proposal_idempotency_conflict"}

ExceptionRecords == [category: Categories, subject: Requests, token: Nat]

\* An exception about a job names the lease under which it arose.
Exception(category, r, token) ==
    [category |-> category, subject |-> r, token |-> token]

\* What a worker is about to do next.
Phases == {"idle", "lookup", "prepare", "dispatch", "await", "finish"}

\* Arguments of finish; clear says whether it is called with uncertain=False.
Outcomes == [status: Statuses, reason: Reasons, clear: BOOLEAN]

Outcome(status, reason, clear) ==
    [status |-> status, reason |-> reason, clear |-> clear]

Codes == {"2xx", "429", "4xx", "5xx"}

\* A reply to a POST; hash identifies the mutation a receipt is for.
Replies == [code: Codes, hash: Mutations \cup {None}]

WorkerRecords ==
    [phase: Phases, job: Requests \cup {None}, token: Nat,
     mutation: Mutations \cup {None}, reply: Replies \cup {None},
     outcome: Outcomes \cup {None}]

IdleWorker == [phase |-> "idle", job |-> None, token |-> 0, mutation |-> None,
               reply |-> None, outcome |-> None]

PostRecords == [job: Requests, token: Nat, mutation: Mutations]

\* None is none of the values it stands beside.
ASSUME NoneAssumption ==
    /\ None \notin Mutations
    /\ None \notin Actors
    /\ None \notin Requests
    /\ None \notin ProposalRecords
    /\ None \notin JobRecords
    /\ None \notin Replies
    /\ None \notin Outcomes

\* Every row and every process's memory has the shape its code gives it.
TypeOK ==
    /\ gate \in {"open", "closed"}
    /\ customers \in [Customers -> CustomerRecords]
    /\ proposals \in [Requests -> ProposalRecords \cup {None}]
    /\ jobs \in [Requests -> JobRecords \cup {None}]
    /\ exceptions \in SUBSET ExceptionRecords
    /\ issued \in [Requests -> Nat]
    /\ workers \in [Workers -> WorkerRecords]
    /\ posts \in SUBSET PostRecords
    /\ effects \in [Requests -> Mutations \cup {None}]
    /\ disturbances \in 0 .. MaxDisturbances

Init ==
    /\ gate = "open"
    /\ customers \in [Customers -> [revision: {0}, state: CustomerStates]]
    /\ proposals = [r \in Requests |-> None]
    /\ jobs = [r \in Requests |-> None]
    /\ exceptions = {}
    /\ issued = [r \in Requests |-> 0]
    /\ workers = [w \in Workers |-> IdleWorker]
    /\ posts = {}
    /\ effects = [r \in Requests |-> None]
    /\ disturbances = 0

\* Spend one of the bounded disturbances.
Disturb ==
    /\ disturbances < MaxDisturbances
    /\ disturbances' = disturbances + 1

-----------------------------------------------------------------------------
(***************************************************************************)
(* The API's transactions.  A call that changes no row (a closed gate, an  *)
(* identical repetition, a raised error) is no step of the model.          *)
(***************************************************************************)

(***************************************************************************)
(* service.ingest, as far as the outbox sees it: an accepted observation   *)
(* raises the revision and may change the state, also to an equal value,   *)
(* and whether or not the gate is open.                                    *)
(***************************************************************************)
Ingest(c, s) ==
    /\ customers[c].revision < MaxRevision
    /\ customers' = [customers EXCEPT
           ![c] = [revision |-> customers[c].revision + 1, state |-> s]]
    /\ UNCHANGED <<gate, proposals, jobs, exceptions, issued, workers, posts,
                   effects, disturbances>>

\* service.propose with a new request id: the decision, the proposal and,
\* when the action is allowed outright, its job commit together.
Propose(actor, r, c, action, expected) ==
    LET decision == action_decision(action, customers[c].state,
                                    customers[c].revision, expected)[1]
    IN  /\ gate = "open"
        /\ proposals[r] = None
        /\ proposals' = [proposals EXCEPT ![r] =
               [customer |-> c, actor |-> actor, action |-> action,
                revision |-> expected, decision |-> decision,
                approvedBy |-> None, expired |-> FALSE,
                approvalExpired |-> FALSE]]
        /\ jobs' = IF decision = "allow"
                   THEN [jobs EXCEPT ![r] = NewJob] ELSE jobs
        /\ exceptions' = IF decision = "deny"
                         THEN exceptions \cup {Exception("proposal_denied", r, 0)}
                         ELSE exceptions
        /\ UNCHANGED <<gate, customers, issued, workers, posts, effects,
                       disturbances>>

\* service.propose with a request id already used for another body or by
\* another actor: only an exception is recorded.
ProposeConflict(r) ==
    /\ gate = "open"
    /\ proposals[r] # None
    /\ exceptions' = exceptions \cup
                       {Exception("proposal_idempotency_conflict", r, 0)}
    /\ Disturb
    /\ UNCHANGED <<gate, customers, proposals, jobs, issued, workers, posts,
                   effects>>

(***************************************************************************)
(* service.valid_proposal: why proposal p may not be executed for customer *)
(* record row, or "none".  The policy hash is the same for every process   *)
(* of one deployment.                                                      *)
(***************************************************************************)
valid_proposal(p, row, requireApproval) ==
    LET d == action_decision(p.action, row.state, row.revision, p.revision)
    IN  IF p.expired THEN "proposal_expired"
        ELSE IF d[1] = "deny" THEN d[2]
        ELSE IF d[1] = "approval" /\ requireApproval /\ p.approvedBy = None
             THEN "approval_missing"
        ELSE IF d[1] = "approval" /\ requireApproval /\ p.approvalExpired
             THEN "approval_expired"
        ELSE "none"

\* Mutant of Approvable: a proposer may approve itself.
ApprovableBySelf(actor, r, expected) ==
    LET p == proposals[r]
    IN  /\ valid_proposal(p, customers[p.customer], FALSE) = "none"
        /\ p.decision = "approval"
        /\ expected = p.revision

\* Whether service.approve accepts: reviewer actor has seen this revision.
Approvable(actor, r, expected) ==
    LET p == proposals[r]
    IN  /\ valid_proposal(p, customers[p.customer], FALSE) = "none"
        /\ p.decision = "approval"
        /\ expected = p.revision
        /\ actor # p.actor

\* service.approve accepting for the first time. A repetition changes nothing:
\* it cannot refresh an expired approval.
Approve(actor, r, expected) ==
    /\ gate = "open"
    /\ proposals[r] # None
    /\ Approvable(actor, r, expected)
    /\ proposals[r].approvedBy = None
    /\ proposals' = [proposals EXCEPT ![r].approvedBy = actor]
    /\ jobs' = [jobs EXCEPT ![r] = IF @ = None THEN NewJob ELSE @]
    /\ UNCHANGED <<gate, customers, exceptions, issued, workers, posts,
                   effects, disturbances>>

\* service.approve refusing.
ApproveDenied(actor, r, expected) ==
    /\ gate = "open"
    /\ proposals[r] # None
    /\ ~Approvable(actor, r, expected)
    /\ exceptions' = exceptions \cup {Exception("approval_denied", r, 0)}
    /\ Disturb
    /\ UNCHANGED <<gate, customers, proposals, jobs, issued, workers, posts,
                   effects>>

\* service.resolve with disposition acknowledge closes any open exception.
Acknowledge(e) ==
    /\ e \in exceptions
    /\ exceptions' = exceptions \ {e}
    /\ UNCHANGED <<gate, customers, proposals, jobs, issued, workers, posts,
                   effects, disturbances>>

\* Mutant of Requeue: the exception stays open.
RequeueKeepsException(e) ==
    /\ e \in exceptions
    /\ e.category \in Requeueable
    /\ jobs[e.subject] # None
    /\ jobs[e.subject].status = "dead"
    /\ jobs' = [jobs EXCEPT
           ![e.subject] = [@ EXCEPT !.status = "retry", !.attempts = 0,
                                    !.lapsed = 0, !.due = TRUE]]
    /\ Disturb
    /\ UNCHANGED <<gate, customers, proposals, exceptions, issued, workers,
                   posts, effects>>

\* service.resolve with disposition requeue: a new attempt budget for the same
\* key and mutation, not gated by the recovery gate.
Requeue(e) ==
    /\ e \in exceptions
    /\ e.category \in Requeueable
    /\ jobs[e.subject] # None
    /\ jobs[e.subject].status = "dead"
    /\ jobs' = [jobs EXCEPT
           ![e.subject] = [@ EXCEPT !.status = "retry", !.attempts = 0,
                                    !.lapsed = 0, !.due = TRUE]]
    /\ exceptions' = exceptions \ {e}
    /\ Disturb
    /\ UNCHANGED <<gate, customers, proposals, issued, workers, posts, effects>>

\* proposal_ttl_seconds have passed; approved_until is at most expires_at.
ExpireProposal(r) ==
    /\ proposals[r] # None
    /\ ~proposals[r].expired
    /\ proposals' = [proposals EXCEPT
           ![r] = [@ EXCEPT !.expired = TRUE, !.approvalExpired = TRUE]]
    /\ UNCHANGED <<gate, customers, jobs, exceptions, issued, workers, posts,
                   effects, disturbances>>

\* approval_ttl_seconds have passed since the approval.
ExpireApproval(r) ==
    /\ proposals[r] # None
    /\ proposals[r].approvedBy # None
    /\ ~proposals[r].approvalExpired
    /\ proposals' = [proposals EXCEPT ![r].approvalExpired = TRUE]
    /\ UNCHANGED <<gate, customers, jobs, exceptions, issued, workers, posts,
                   effects, disturbances>>

\* The recovery coordinator closes and reopens the gate (module Recovery says
\* under which conditions).
CloseGate ==
    /\ gate = "open"
    /\ gate' = "closed"
    /\ Disturb
    /\ UNCHANGED <<customers, proposals, jobs, exceptions, issued, workers,
                   posts, effects>>

OpenGate ==
    /\ gate = "closed"
    /\ gate' = "open"
    /\ UNCHANGED <<customers, proposals, jobs, exceptions, issued, workers,
                   posts, effects, disturbances>>

-----------------------------------------------------------------------------
(***************************************************************************)
(* The workers.                                                            *)
(***************************************************************************)

\* Mutants of Holds: the fence ignores the token; there is no fence at all.
HoldsAnyToken(w, r) == jobs[r] # None /\ jobs[r].status = "leased"
HoldsAlways(w, r) == jobs[r] # None

\* Worker w holds the lease under which job r is leased now: the fence of
\* finish, prepare and defer.
Holds(w, r) ==
    /\ jobs[r] # None
    /\ jobs[r].status = "leased"
    /\ jobs[r].token = workers[w].token

\* Some process still works under the current lease of r.
HolderAlive(r) ==
    \E w \in Workers :
        workers[w].phase # "idle" /\ workers[w].job = r /\ Holds(w, r)

\* Backoff has elapsed for a waiting job; or the lease of a leased job has:
\* its worker is gone, or stalls for longer than the lease.
Elapse(r) ==
    /\ jobs[r] # None
    /\ jobs[r].status \in {"retry", "leased"}
    /\ ~jobs[r].due
    /\ jobs' = [jobs EXCEPT ![r].due = TRUE]
    /\ IF jobs[r].status = "leased" /\ HolderAlive(r)
       THEN Disturb ELSE UNCHANGED disturbances
    /\ UNCHANGED <<gate, customers, proposals, exceptions, issued, workers,
                   posts, effects>>

\* Mutant of Claimable: a job whose worker died is never claimed again.
ClaimableNotLeased == {"ready", "retry"}

\* The statuses worker.claim selects.
Claimable == {"ready", "retry", "leased"}

\* worker.claim: a due job, or one whose lease expired, under a fresh token.
\* The worker goes on with the row it read: a job whose outcome is uncertain
\* starts with a receipt lookup.
Claim(w, r) ==
    /\ gate = "open"
    /\ workers[w].phase = "idle"
    /\ jobs[r] # None
    /\ jobs[r].status \in Claimable
    /\ jobs[r].due
    /\ issued' = [issued EXCEPT ![r] = @ + 1]
    /\ jobs' = [jobs EXCEPT
           ![r] = [@ EXCEPT !.status = "leased",
                            !.attempts = jobs[r].attempts + 1,
                            !.lapsed = jobs[r].lapsed +
                                IF jobs[r].status = "leased" THEN 1 ELSE 0,
                            !.token = issued[r] + 1,
                            !.due = FALSE]]
    /\ workers' = [workers EXCEPT ![w] =
           [IdleWorker EXCEPT
               !.phase = IF jobs[r].uncertain THEN "lookup" ELSE "prepare",
               !.job = r,
               !.token = issued[r] + 1,
               !.mutation = jobs[r].mutation]]
    /\ UNCHANGED <<gate, customers, proposals, exceptions, posts, effects,
                   disturbances>>

\* Worker w calls finish with this outcome next.
FinishWith(w, outcome) ==
    workers' = [workers EXCEPT
        ![w] = [@ EXCEPT !.phase = "finish", !.reply = None, !.outcome = outcome]]

\* worker.execute, receipt lookup answered by mock.get_effect: the receipt is
\* compared with the mutation of the claimed row.
Lookup(w) ==
    LET me == workers[w]
    IN  /\ me.phase = "lookup"
        /\ \/ /\ effects[me.job] = None
              /\ workers' = [workers EXCEPT ![w].phase = "prepare"]
           \/ /\ effects[me.job] # None
              /\ effects[me.job] = me.mutation
              /\ FinishWith(w, Outcome("succeeded",
                                       "reconciled_committed_effect", TRUE))
           \/ /\ effects[me.job] # None
              /\ effects[me.job] # me.mutation
              /\ FinishWith(w, Outcome("dead", "remote_identity_conflict", FALSE))
        /\ UNCHANGED <<gate, customers, proposals, jobs, exceptions, issued,
                       posts, effects, disturbances>>

\* worker.execute, receipt lookup without an answer or with another status.
LookupFails(w) ==
    /\ workers[w].phase = "lookup"
    /\ \E reason \in {"reconciliation_unavailable", "remote_outcome_unknown"} :
           FinishWith(w, Outcome("retry", reason, FALSE))
    /\ UNCHANGED <<gate, customers, proposals, jobs, exceptions, issued, posts,
                   effects, disturbances>>

\* Mutants of WithIntent: the mutation, or the uncertainty, is not stored.
WithIntentForgotten(job, mutation) == [job EXCEPT !.uncertain = TRUE]
WithIntentCertain(job, mutation) == [job EXCEPT !.mutation = mutation]

\* The row worker.prepare commits before the request leaves.
WithIntent(job, mutation) ==
    [job EXCEPT !.mutation = mutation, !.uncertain = TRUE]

(***************************************************************************)
(* worker.prepare and the branch execute takes on its answer.  Dispatch is *)
(* authorised against the current customer, and the intent is committed    *)
(* (mutation, uncertain) before anything is sent.                          *)
(***************************************************************************)
Prepare(w) ==
    LET me == workers[w]
        r == me.job
        p == proposals[r]
        row == customers[p.customer]
        reason == valid_proposal(p, row, TRUE)
        mutation == MutationOf(p.customer, p.action, row)
    IN  /\ me.phase = "prepare"
        /\ \/ /\ gate = "closed"
              /\ FinishWith(w, Outcome("retry", "recovery_closed", FALSE))
              /\ UNCHANGED jobs
           \/ /\ gate = "open"
              /\ ~Holds(w, r)
              /\ workers' = [workers EXCEPT ![w] = IdleWorker]
              /\ UNCHANGED jobs
           \/ /\ gate = "open"
              /\ Holds(w, r)
              /\ reason # "none"
              /\ FinishWith(w, Outcome("blocked", reason, FALSE))
              /\ UNCHANGED jobs
           \/ /\ gate = "open"
              /\ Holds(w, r)
              /\ reason = "none"
              /\ jobs[r].mutation \notin {None, mutation}
              /\ FinishWith(w, Outcome("blocked", "mutation_changed", FALSE))
              /\ UNCHANGED jobs
           \/ /\ gate = "open"
              /\ Holds(w, r)
              /\ reason = "none"
              /\ jobs[r].mutation \in {None, mutation}
              /\ jobs' = [jobs EXCEPT ![r] = WithIntent(@, mutation)]
              /\ workers' = [workers EXCEPT
                    ![w] = [@ EXCEPT !.phase = "dispatch", !.mutation = mutation]]
        /\ UNCHANGED <<gate, customers, proposals, exceptions, issued, posts,
                       effects, disturbances>>

\* worker.execute sends POST /effects.
Dispatch(w) ==
    LET me == workers[w]
    IN  /\ me.phase = "dispatch"
        /\ posts' = posts \cup
               {[job |-> me.job, token |-> me.token, mutation |-> me.mutation]}
        /\ workers' = [workers EXCEPT ![w].phase = "await"]
        /\ UNCHANGED <<gate, customers, proposals, jobs, exceptions, issued,
                       effects, disturbances>>

\* Mutants of OutcomeOf: a refused mutation, or a failed one, counts as done.
OutcomeOfRefusedIsDone(reply, mutation) ==
    CASE reply.code \in {"2xx", "4xx"} ->
             Outcome("succeeded", "remote_committed", TRUE)
      [] reply.code = "429" -> Outcome("retry", "rate_limited", TRUE)
      [] reply.code = "5xx" -> Outcome("retry", "remote_server_error", FALSE)
OutcomeOfFailedIsDone(reply, mutation) ==
    CASE reply.code \in {"2xx", "5xx"} ->
             Outcome("succeeded", "remote_committed", TRUE)
      [] reply.code = "429" -> Outcome("retry", "rate_limited", TRUE)
      [] reply.code = "4xx" -> Outcome("dead", "remote_rejected", TRUE)

\* How worker.execute reads the reply to its POST of mutation.
OutcomeOf(reply, mutation) ==
    CASE reply.code = "2xx" /\ reply.hash = mutation ->
             Outcome("succeeded", "remote_committed", TRUE)
      [] reply.code = "2xx" /\ reply.hash # mutation ->
             Outcome("dead", "remote_identity_conflict", FALSE)
      [] reply.code = "429" -> Outcome("retry", "rate_limited", TRUE)
      [] reply.code = "4xx" -> Outcome("dead", "remote_rejected", TRUE)
      [] reply.code = "5xx" -> Outcome("retry", "remote_server_error", FALSE)

\* worker.execute reads the reply.
HandleReply(w) ==
    LET me == workers[w]
    IN  /\ me.phase = "await"
        /\ me.reply # None
        /\ FinishWith(w, OutcomeOf(me.reply, me.mutation))
        /\ UNCHANGED <<gate, customers, proposals, jobs, exceptions, issued,
                       posts, effects, disturbances>>

\* The client times out or the connection fails, before the request left, on
\* its way, or on the way back.
TransportError(w) ==
    /\ workers[w].phase \in {"dispatch", "await"}
    /\ FinishWith(w, Outcome("retry", "remote_outcome_unknown", FALSE))
    /\ UNCHANGED <<gate, customers, proposals, jobs, exceptions, issued, posts,
                   effects, disturbances>>

\* Mutant of Deferred: the deferral counts as an attempt.
DeferredCounted(job) ==
    [job EXCEPT !.status = "retry", !.token = 0, !.due = FALSE]

\* The row capacity.defer leaves: the lease ends and the attempt is given back.
Deferred(job) ==
    [job EXCEPT !.status = "retry", !.token = 0, !.due = FALSE,
                !.attempts = job.attempts - 1]

\* capacity.Client refuses a permit for the lookup or the dispatch: worker.once
\* calls capacity.defer, which changes the row if the lease is current.
Defer(w) ==
    LET r == workers[w].job
    IN  /\ Isolated
        /\ workers[w].phase \in {"lookup", "dispatch"}
        /\ jobs' = IF Holds(w, r)
                   THEN [jobs EXCEPT ![r] = Deferred(@)] ELSE jobs
        /\ workers' = [workers EXCEPT ![w] = IdleWorker]
        /\ Disturb
        /\ UNCHANGED <<gate, customers, proposals, exceptions, issued, posts,
                       effects>>

\* worker.finish replaces a retry by a dead letter when the budget is used up.
FinalOutcome(o, attempts) ==
    IF o.status = "retry" /\ attempts >= MaxAttempts
    THEN Outcome("dead", "retry_exhausted", o.clear)
    ELSE o

\* Mutant of CategoryOf: every reason is a category of its own.
CategoryOfAny(reason) == reason

\* The category worker.finish files a failure under.
CategoryOf(reason) ==
    IF reason \in Requeueable THEN reason ELSE "execution_blocked"

\* worker.finish: a fenced-out worker changes nothing.
Finish(w) ==
    LET me == workers[w]
        r == me.job
        o == FinalOutcome(me.outcome, jobs[r].attempts)
    IN  /\ me.phase = "finish"
        /\ workers' = [workers EXCEPT ![w] = IdleWorker]
        /\ IF Holds(w, r)
           THEN /\ jobs' = [jobs EXCEPT
                       ![r] = [@ EXCEPT
                           !.status = o.status, !.reason = o.reason,
                           !.token = 0, !.due = FALSE,
                           !.uncertain = ~o.clear /\ jobs[r].uncertain]]
                /\ exceptions' =
                       IF o.status \in {"dead", "blocked"}
                       THEN exceptions \cup
                              {Exception(CategoryOf(o.reason), r, me.token)}
                       ELSE exceptions
           ELSE UNCHANGED <<jobs, exceptions>>
        /\ UNCHANGED <<gate, customers, proposals, issued, posts, effects,
                       disturbances>>

\* The worker process is killed and starts again with empty memory. A request
\* it sent is not recalled.
Crash(w) ==
    /\ workers[w].phase # "idle"
    /\ workers' = [workers EXCEPT ![w] = IdleWorker]
    /\ Disturb
    /\ UNCHANGED <<gate, customers, proposals, jobs, exceptions, issued, posts,
                   effects>>

-----------------------------------------------------------------------------
(***************************************************************************)
(* The receiver, mock.mutate: handles one request at a time per key.       *)
(***************************************************************************)

\* The reply reaches the worker only if it still waits for this request.
Deliver(m, reply) ==
    workers' = [w \in Workers |->
        IF /\ workers[w].phase = "await"
           /\ workers[w].job = m.job
           /\ workers[w].token = m.token
        THEN [workers[w] EXCEPT !.reply = reply]
        ELSE workers[w]]

Reply(code, hash) == [code |-> code, hash |-> hash]

Mutate(m) ==
    /\ m \in posts
    /\ posts' = posts \ {m}
    /\ \/ /\ effects[m.job] # None
          /\ effects[m.job] = m.mutation
          /\ Deliver(m, Reply("2xx", effects[m.job]))
          /\ UNCHANGED effects
       \/ /\ effects[m.job] # None
          /\ effects[m.job] # m.mutation
          /\ Deliver(m, Reply("4xx", None))
          /\ UNCHANGED effects
       \/ /\ effects[m.job] = None
          /\ effects' = [effects EXCEPT ![m.job] = m.mutation]
          /\ Deliver(m, Reply("2xx", m.mutation))
       \/ /\ effects[m.job] = None
          /\ \E code \in {"429", "4xx", "5xx"} : Deliver(m, Reply(code, None))
          /\ UNCHANGED effects
    /\ UNCHANGED <<gate, customers, proposals, jobs, exceptions, issued,
                   disturbances>>

-----------------------------------------------------------------------------
ApiStep ==
    \/ \E c \in Customers, s \in CustomerStates : Ingest(c, s)
    \/ \E a \in Actors, r \in Requests, c \in Customers,
          act \in Actions, n \in Revisions : Propose(a, r, c, act, n)
    \/ \E r \in Requests : ProposeConflict(r)
    \/ \E a \in Actors, r \in Requests, n \in Revisions :
          Approve(a, r, n) \/ ApproveDenied(a, r, n)
    \/ \E e \in exceptions : Acknowledge(e) \/ Requeue(e)

ClockStep ==
    \E r \in Requests : ExpireProposal(r) \/ ExpireApproval(r) \/ Elapse(r)

GateStep == CloseGate \/ OpenGate

WorkerStep(w) ==
    \/ \E r \in Requests : Claim(w, r)
    \/ Lookup(w) \/ LookupFails(w) \/ Prepare(w) \/ Dispatch(w)
    \/ HandleReply(w) \/ TransportError(w) \/ Defer(w) \/ Finish(w)

Next ==
    \/ ApiStep
    \/ ClockStep
    \/ GateStep
    \/ \E w \in Workers : WorkerStep(w) \/ Crash(w)
    \/ \E m \in posts : Mutate(m)

Spec == Init /\ [][Next]_vars

(***************************************************************************)
(* Fairness.  worker.run loops for ever, every call it makes returns (the  *)
(* HTTP client and the database have timeouts), and backoffs and leases    *)
(* end.  Nothing is assumed of the receiver, the network, the API's        *)
(* callers or the recovery coordinator.                                    *)
(***************************************************************************)
Fairness ==
    /\ \A w \in Workers : WF_vars(WorkerStep(w))
    /\ \A r \in Requests : WF_vars(Elapse(r))

FairSpec == Spec /\ Fairness

-----------------------------------------------------------------------------
(***************************************************************************)
(* Properties.                                                             *)
(***************************************************************************)

\* The receiver holds, and is being sent, only the mutation the control plane
\* has stored for that key: the intent is durable before any effect, and no
\* retry, requeue or overlapping worker ever replaces it (worker.prepare).
EffectMatchesIntent ==
    \A r \in Requests :
        /\ effects[r] # None => jobs[r] # None /\ jobs[r].mutation = effects[r]
        /\ \A m \in posts :
               m.job = r => jobs[r] # None /\ jobs[r].mutation = m.mutation

\* The two integrity verdicts are unreachable with an honest receiver: since a
\* dispatch needs the proposal's revision to be current, and a revision
\* determines the customer's state, every authorisation of a key computes the
\* same mutation (worker.prepare's mutation_changed, worker.execute's
\* remote_identity_conflict).
NoIdentityConflict ==
    \A r \in Requests :
        jobs[r] # None =>
            jobs[r].reason \notin {"mutation_changed", "remote_identity_conflict"}

\* Whatever was committed outside was decided by policy for that customer and
\* revision, and marketing was approved by somebody else than its proposer
\* (service.approve, service.valid_proposal).
EffectAuthorised ==
    \A r \in Requests :
        effects[r] # None =>
            /\ proposals[r] # None
            /\ proposals[r].decision # "deny"
            /\ effects[r].customer = proposals[r].customer
            /\ effects[r].action = proposals[r].action
            /\ effects[r].revision = proposals[r].revision
            /\ effects[r].action = "send_marketing" =>
                   proposals[r].approvedBy \notin {None, proposals[r].actor}

\* A job reported as succeeded has its effect at the receiver, and its outcome
\* is certain (worker.execute, worker.finish).
SuccessHasEffect ==
    \A r \in Requests :
        jobs[r] # None /\ jobs[r].status = "succeeded" =>
            effects[r] # None /\ ~jobs[r].uncertain

\* While the holder of the current lease may have a request on the network, the
\* stored row says uncertain and carries the mutation sent: a worker that dies
\* here leaves a record its successor reconciles (worker.prepare).
InFlightIsUncertain ==
    \A w \in Workers :
        workers[w].phase \in {"dispatch", "await"} /\ Holds(w, workers[w].job) =>
            /\ jobs[workers[w].job].uncertain
            /\ jobs[workers[w].job].mutation = workers[w].mutation

\* An open exception that offers a requeue is about a job that is dead for that
\* very reason, and it is the only one for that job: resolving it can neither
\* revive a job twice nor touch one that is running (service.resolve).
RequeueIsUnique ==
    \A e \in exceptions :
        e.category \in Requeueable =>
            /\ jobs[e.subject] # None
            /\ jobs[e.subject].status = "dead"
            /\ jobs[e.subject].reason = e.category
            /\ \A f \in exceptions :
                   f.category \in Requeueable /\ f.subject = e.subject => f = e

\* The attempts a job is charged for in its budget, apart from one for every
\* lease a worker let lapse, are at most MaxAttempts and never negative: a
\* deferral costs no attempt and gives back no more than its own, a requeue
\* starts afresh, and a job whose budget is used up is not claimed again.  The
\* lapsed leases come on top because claim takes over an expired lease without
\* looking at the budget (worker.claim, worker.finish, capacity.defer,
\* service.resolve).
AttemptsBounded ==
    \A r \in Requests :
        jobs[r] # None =>
            jobs[r].attempts \in jobs[r].lapsed .. (jobs[r].lapsed + MaxAttempts)

\* The revision that r was proposed for is gone, nothing for r is at the
\* receiver or on its way, and no worker holds an authorisation for it.
Withdrawn(r) ==
    /\ proposals[r] # None
    /\ customers[proposals[r].customer].revision > proposals[r].revision
    /\ effects[r] = None
    /\ \A m \in posts : m.job # r
    /\ \A w \in Workers : ~(workers[w].phase = "dispatch" /\ workers[w].job = r)

\* A source change that commits before any dispatch is authorised is final: no
\* retry, approval, requeue or late worker produces the effect afterwards
\* (docs/failures.md on consent linearization; worker.prepare).
WithdrawnStaysWithdrawn ==
    [][\A r \in Requests : Withdrawn(r) => Withdrawn(r)']_vars

\* A job ends its lease early only by its own holder: a fenced-out worker
\* cannot complete, defer or fail the job of a newer lease (worker.finish,
\* capacity.defer).
OnlyHolderEndsLease ==
    [][\A r \in Requests :
          /\ jobs[r] # None
          /\ jobs[r].status = "leased"
          /\ jobs'[r].status # "leased"
          => \E w \in Workers :
                 /\ workers[w].job = r
                 /\ workers[w].phase # "idle"
                 /\ workers[w].token = jobs[r].token
                 /\ workers'[w].phase = "idle"]_vars

\* succeeded and blocked are final (worker.finish, service.resolve).
SettledIsFinal ==
    [][\A r \in Requests :
          jobs[r] # None /\ jobs[r].status \in {"succeeded", "blocked"} =>
              jobs'[r] = jobs[r]]_vars

Settled(r) == jobs[r] # None /\ jobs[r].status \in {"succeeded", "blocked", "dead"}

\* Unless the gate keeps closing, every admitted job is settled in the end,
\* however often workers die, stall or lose replies within the bound
\* (worker.run).
JobsSettle ==
    <>[](gate = "open") => \A r \in Requests : jobs[r] # None ~> Settled(r)

\* docs/failures.md:27 on exhausted attempts: "Dead letter; uncertainty remains
\* visible" - an exhausted job whose effect is at the receiver is marked
\* uncertain. It is not: a 429 to a later attempt makes worker.execute call
\* finish with uncertain=False while the request of an earlier attempt, whose
\* outcome was unknown, is still on its way.
ExhaustedStaysUncertain ==
    \A r \in Requests :
        /\ jobs[r] # None
        /\ jobs[r].status = "dead"
        /\ jobs[r].reason = "retry_exhausted"
        /\ effects[r] # None
        => jobs[r].uncertain

(***************************************************************************)
(* The outbox implements the effect ledger: a job's stored mutation is the *)
(* intent, the receiver's row the effect, a succeeded job the report.      *)
(***************************************************************************)
Intent == [r \in Requests |-> IF jobs[r] = None THEN None ELSE jobs[r].mutation]

Reported == {r \in Requests : jobs[r] # None /\ jobs[r].status = "succeeded"}

Ledger == INSTANCE EffectLedger
              WITH intent <- Intent, effect <- effects, reported <- Reported

\* Every behaviour of leases, retries, crashes and late requests is one of the
\* ledger: intent once, effect at most once and only as intended, success
\* reported only after the effect (worker.py, mock.py).
ImplementsLedger == Ledger!Spec

=============================================================================
