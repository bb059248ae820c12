----------------------------- MODULE Admission ------------------------------
(***************************************************************************)
(* Backlog admission of one destination (capacity.admission, check_backlog *)
(* and readmission within service.propose, approve and resolve).           *)
(*                                                                         *)
(* A transaction that adds to the backlog counts it under an advisory lock *)
(* that it keeps until it commits.  An approval adds nothing if its        *)
(* proposal is still counted as a reservation, and takes no lock: it looks *)
(* at the expiry once, by the clock of its own host, and commits later.    *)
(***************************************************************************)
EXTENDS Naturals, FiniteSets

CONSTANTS
    Keys,   \* request ids, all routed to this destination
    Apis,   \* connections of API processes
    None,   \* no transaction
    Limit   \* destinations.backlog_limit

\* capacity.sql: CHECK(backlog_limit BETWEEN 1 AND 100000).
ASSUME AdmissionAssumption ==
    /\ Limit \in Nat /\ Limit >= 1
    /\ IsFiniteSet(Keys)

VARIABLES
    status,     \* what stands for each request in the database
    passed,     \* requests whose expires_at has passed at the database server
    passedHost, \* the same, at the API host
    conns,      \* the open transaction of each connection, past its checks
    late        \* auxiliary: jobs that no check of the backlog has counted

vars == <<status, passed, passedHost, conns, late>>

-----------------------------------------------------------------------------
\* reserved is a proposal awaiting approval; pending a job that is ready, in
\* retry or leased; ended one that succeeded or was blocked.
Statuses == {"none", "reserved", "pending", "dead", "ended"}

Ops == {"propose", "reserve", "approve", "requeue"}

Transactions == [op: Ops, key: Keys]

\* Connections with an open transaction.
Busy == {a \in Apis : conns[a] # None}

ASSUME AdmissionNoneAssumption == None \notin Transactions

\* Rows and open transactions have the shape of schema.sql and service.py; a
\* request has one transaction at most (locks on its id, proposal and job).
TypeOK ==
    /\ status \in [Keys -> Statuses]
    /\ passed \in SUBSET Keys
    /\ passedHost \in SUBSET Keys
    /\ conns \in [Apis -> Transactions \cup {None}]
    /\ late \in SUBSET Keys
    /\ \A a, b \in Busy : conns[a].key = conns[b].key => a = b

Init ==
    /\ status = [k \in Keys |-> "none"]
    /\ passed = {}
    /\ passedHost = {}
    /\ conns = [a \in Apis |-> None]
    /\ late = {}

-----------------------------------------------------------------------------
\* What check_backlog counts.
Backlog ==
    {k \in Keys : \/ status[k] = "pending"
                  \/ status[k] = "reserved" /\ k \notin passed}

\* Connections that have counted the backlog and not committed.
Counters == {a \in Busy : conns[a].op # "approve"}

\* Mutant of MayAdd: the backlog is counted without the advisory lock.
MayAddUnlocked == Cardinality(Backlog) < Limit

\* check_backlog: the advisory lock is free and the backlog below its limit.
MayAdd == Counters = {} /\ Cardinality(Backlog) < Limit

\* Mutant of Untouched: the same request may be in two transactions.
UntouchedAlways(k) == TRUE

\* No other transaction holds the locks of request k.
Untouched(k) == \A a \in Busy : conns[a].key # k

Begin(a, op, k) ==
    /\ conns[a] = None
    /\ Untouched(k)
    /\ conns' = [conns EXCEPT ![a] = [op |-> op, key |-> k]]
    /\ UNCHANGED <<status, passed, passedHost, late>>

\* service.propose, up to the check: the decision is allow, or approval.
Propose(a, k) ==
    /\ status[k] = "none"
    /\ MayAdd
    /\ \/ Begin(a, "propose", k)
       \/ Begin(a, "reserve", k)

\* service.approve, up to its look at the expiry.
Approve(a, k) ==
    /\ status[k] = "reserved"
    /\ k \notin passedHost
    /\ Begin(a, "approve", k)

\* service.resolve requeues a dead letter, up to the check.
Requeue(a, k) ==
    /\ status[k] = "dead"
    /\ MayAdd
    /\ Begin(a, "requeue", k)

\* The rows of a's transaction appear.
Commit(a) ==
    LET k == conns[a].key
        op == conns[a].op
    IN  /\ conns[a] # None
        /\ status' = [status EXCEPT
               ![k] = IF op = "reserve" THEN "reserved" ELSE "pending"]
        /\ late' = IF op = "approve" /\ k \in passed
                   THEN late \cup {k} ELSE late \ {k}
        /\ conns' = [conns EXCEPT ![a] = None]
        /\ UNCHANGED <<passed, passedHost>>

\* It rolls back instead.
Abort(a) ==
    /\ conns[a] # None
    /\ conns' = [conns EXCEPT ![a] = None]
    /\ UNCHANGED <<status, passed, passedHost, late>>

\* worker.finish ends a job.
Finish(k) ==
    /\ status[k] = "pending"
    /\ \E s \in {"dead", "ended"} : status' = [status EXCEPT ![k] = s]
    /\ UNCHANGED <<passed, passedHost, conns, late>>

\* expires_at passes at the database server.
Pass(k) ==
    /\ status[k] = "reserved"
    /\ k \notin passed
    /\ passed' = passed \cup {k}
    /\ UNCHANGED <<status, passedHost, conns, late>>

\* expires_at passes at the API host.
PassHost(k) ==
    /\ status[k] = "reserved"
    /\ k \notin passedHost
    /\ passedHost' = passedHost \cup {k}
    /\ UNCHANGED <<status, passed, conns, late>>

-----------------------------------------------------------------------------
Next ==
    \/ \E a \in Apis : \/ \E k \in Keys : \/ Propose(a, k)
                                          \/ Approve(a, k)
                                          \/ Requeue(a, k)
                       \/ Commit(a)
                       \/ Abort(a)
    \/ \E k \in Keys : Finish(k) \/ Pass(k) \/ PassHost(k)

Spec == Init /\ [][Next]_vars

-----------------------------------------------------------------------------
(***************************************************************************)
(* Properties.                                                             *)
(***************************************************************************)

\* The backlog of a destination never exceeds its limit, whatever transactions
\* race ("Atomic bounded admission", docs/dependency-isolation.md).
BacklogBounded == Cardinality(Backlog) <= Limit

\* It exceeds the limit only by jobs approved after their reservation had
\* ceased to count: races of proposals and requeues never overfill it
\* (check_backlog, tests/test_capacity.py: admission race).
OverfillIsLateApproval == Cardinality(Backlog \ late) <= Limit

=============================================================================
