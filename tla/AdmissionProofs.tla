--------------------------- MODULE AdmissionProofs --------------------------
(***************************************************************************)
(* Proofs about Admission: for any requests, connections and limit, the    *)
(* backlog exceeds its limit only by late approvals.                       *)
(*                                                                         *)
(* The quantity that the checks keep bounded is Claimed: the backlog,      *)
(* without late approvals, and the request that the one transaction        *)
(* holding the advisory lock is about to add.                              *)
(***************************************************************************)
EXTENDS Admission, FiniteSetTheorems, TLAPS

Claimed == (Backlog \ late) \cup {conns[a].key : a \in Counters}

\* The advisory lock has one holder.
OneCounter == \A a, b \in Counters : a = b

\* An approval is of a reservation; a job counted by nobody is no reservation.
ApprovalsStand ==
    /\ \A a \in Busy : conns[a].op = "approve" => status[conns[a].key] = "reserved"
    /\ \A k \in late : status[k] # "reserved"

ClaimsBounded == Cardinality(Claimed) <= Limit

Inv == TypeOK /\ OneCounter /\ ApprovalsStand /\ ClaimsBounded

-----------------------------------------------------------------------------
LEMMA SmallerSet ==
    ASSUME NEW S, NEW T \in SUBSET S, IsFiniteSet(S), Cardinality(S) <= Limit
    PROVE  Cardinality(T) <= Limit
  <1>1. /\ Cardinality(T) <= Cardinality(S)
        /\ Cardinality(T) \in Nat /\ Cardinality(S) \in Nat
    BY FS_Subset, FS_CardinalityType
  <1> QED
    BY <1>1, AdmissionAssumption

LEMMA ClaimedFinite ==
    ASSUME TypeOK
    PROVE  IsFiniteSet(Claimed) /\ IsFiniteSet(Backlog)
  <1>1. Claimed \subseteq Keys /\ Backlog \subseteq Keys
    BY DEF Claimed, Backlog, Counters, Busy, TypeOK, Transactions
  <1> QED
    BY <1>1, FS_Subset, AdmissionAssumption

\* Nothing is claimed that was not claimed before.
LEMMA ClaimsShrink ==
    ASSUME Inv, Claimed' \subseteq Claimed
    PROVE  ClaimsBounded'
  <1>1. Cardinality(Claimed') <= Limit
    BY ClaimedFinite, SmallerSet DEF Inv, ClaimsBounded
  <1> QED
    BY <1>1 DEF ClaimsBounded

LEMMA InitInv ==
    ASSUME Init
    PROVE  Inv
  <1>1. TypeOK
    BY DEF Init, TypeOK, Statuses, Busy
  <1>2. Busy = {} /\ Counters = {} /\ Backlog = {} /\ late = {}
    BY DEF Init, Busy, Counters, Backlog
  <1>3. Claimed = {}
    BY <1>2 DEF Claimed
  <1>4. ClaimsBounded
    BY <1>3, FS_EmptySet, AdmissionAssumption DEF ClaimsBounded
  <1> QED
    BY <1>1, <1>2, <1>4 DEF Inv, OneCounter, ApprovalsStand

\* What begins: a transaction of its own request.
LEMMA BeginFacts ==
    ASSUME TypeOK, NEW a \in Apis, NEW k \in Keys, NEW op \in Ops,
           Begin(a, op, k)
    PROVE  /\ TypeOK'
           /\ Busy' = Busy \cup {a} /\ a \notin Busy
           /\ conns'[a].op = op /\ conns'[a].key = k
           /\ \A b \in Busy : conns'[b] = conns[b]
           /\ Backlog' = Backlog
           /\ UNCHANGED <<status, passed, passedHost, late>>
  <1> DEFINE r == [op |-> op, key |-> k]
  <1>1. /\ conns' = [conns EXCEPT ![a] = r]
        /\ conns \in [Apis -> Transactions \cup {None}]
        /\ r \in Transactions /\ r # None
        /\ r.op = op /\ r.key = k
        /\ conns[a] = None
        /\ UNCHANGED <<status, passed, passedHost, late>>
    BY AdmissionNoneAssumption DEF Begin, TypeOK, Transactions
  <1>2. Busy' = Busy \cup {a} /\ a \notin Busy
    BY <1>1 DEF Busy
  <1>3. /\ conns'[a].op = op /\ conns'[a].key = k
        /\ \A b \in Busy : conns'[b] = conns[b]
    BY <1>1 DEF Busy
  <1>4. \A b, c \in Busy' : conns'[b].key = conns'[c].key => b = c
    BY <1>2, <1>3 DEF Begin, Untouched, TypeOK
  <1>5. TypeOK'
    BY <1>1, <1>4 DEF TypeOK
  <1> QED
    BY <1>1, <1>2, <1>3, <1>5 DEF Backlog

\* A transaction that adds to the backlog has counted it.
LEMMA CountedBegin ==
    ASSUME Inv, NEW a \in Apis, NEW k \in Keys, NEW op \in Ops \ {"approve"},
           MayAdd, Begin(a, op, k)
    PROVE  Inv'
  <1>1. Counters = {} /\ Cardinality(Backlog) < Limit
    BY DEF MayAdd
  <1>2. Counters' = {a}
    BY <1>1, BeginFacts DEF Inv, Counters
  <1>3. Claimed' = (Backlog \ late) \cup {k}
    BY <1>2, BeginFacts DEF Inv, Claimed
  <1>4. /\ Claimed' \subseteq Backlog \cup {k}
        /\ IsFiniteSet(Backlog)
    BY <1>3, ClaimedFinite DEF Inv
  <1>5. Cardinality(Backlog \cup {k}) <= Limit /\ IsFiniteSet(Backlog \cup {k})
    <2>1. /\ Cardinality(Backlog \cup {k})
                 \in {Cardinality(Backlog), Cardinality(Backlog) + 1}
          /\ IsFiniteSet(Backlog \cup {k})
      BY <1>4, FS_AddElement
    <2>2. Cardinality(Backlog) \in Nat
      BY <1>4, FS_CardinalityType
    <2> QED
      BY <1>1, <2>1, <2>2, AdmissionAssumption
  <1>6. ClaimsBounded'
    <2>1. Cardinality(Claimed') <= Limit
      BY <1>4, <1>5, SmallerSet
    <2> QED
      BY <2>1 DEF ClaimsBounded
  <1>7. ApprovalsStand'
    BY BeginFacts DEF Inv, ApprovalsStand
  <1> QED
    BY <1>2, <1>6, <1>7, BeginFacts DEF Inv, OneCounter

LEMMA ApproveStep ==
    ASSUME Inv, NEW a \in Apis, NEW k \in Keys, Approve(a, k)
    PROVE  Inv'
  <1>1. Begin(a, "approve", k) /\ status[k] = "reserved" /\ "approve" \in Ops
    BY DEF Approve, Ops
  <1>2. Counters' = Counters
    BY <1>1, BeginFacts DEF Inv, Counters, Busy
  <1>3. Claimed' = Claimed
    BY <1>1, <1>2, BeginFacts DEF Inv, Claimed, Counters
  <1>4. ApprovalsStand'
    BY <1>1, BeginFacts DEF Inv, ApprovalsStand
  <1> QED
    BY <1>1, <1>2, <1>3, <1>4, BeginFacts, ClaimsShrink DEF Inv, OneCounter

\* The end of a's transaction.
LEMMA EndFacts ==
    ASSUME TypeOK, NEW a \in Busy, conns' = [conns EXCEPT ![a] = None]
    PROVE  /\ Busy' = Busy \ {a}
           /\ Counters' = Counters \ {a}
           /\ \A b \in Busy' : conns'[b] = conns[b]
           /\ conns[a] \in Transactions
  BY DEF TypeOK, Busy, Counters

LEMMA CommitStep ==
    ASSUME Inv, NEW a \in Apis, Commit(a)
    PROVE  Inv'
  <1> DEFINE k == conns[a].key
  <1> DEFINE op == conns[a].op
  <1>0. TypeOK /\ a \in Busy /\ conns[a] \in Transactions /\ k \in Keys /\ op \in Ops
    BY DEF Inv, Commit, Busy, TypeOK, Transactions
  <1>1. /\ status' = [status EXCEPT
               ![k] = IF op = "reserve" THEN "reserved" ELSE "pending"]
        /\ late' = IF op = "approve" /\ k \in passed
                   THEN late \cup {k} ELSE late \ {k}
        /\ conns' = [conns EXCEPT ![a] = None]
        /\ UNCHANGED <<passed, passedHost>>
    BY DEF Commit
  <1>2. /\ Busy' = Busy \ {a}
        /\ Counters' = Counters \ {a}
        /\ \A b \in Busy' : conns'[b] = conns[b]
    BY <1>0, <1>1, EndFacts
  <1>3. TypeOK'
    <2>1. status' \in [Keys -> Statuses] /\ late' \in SUBSET Keys
      BY <1>0, <1>1 DEF TypeOK, Statuses
    <2>2. conns' \in [Apis -> Transactions \cup {None}]
      BY <1>0, <1>1 DEF TypeOK
    <2> QED
      BY <1>0, <1>1, <1>2, <2>1, <2>2 DEF TypeOK
  <1>4. \A b \in Busy' : conns[b].key # k
    BY <1>0, <1>2 DEF TypeOK
  <1>5. ApprovalsStand'
    <2>1. \A b \in Busy' : conns'[b].op = "approve" =>
              status'[conns'[b].key] = "reserved"
      BY <1>0, <1>1, <1>2, <1>4 DEF Inv, ApprovalsStand, TypeOK
    <2>2. \A l \in late' : status'[l] # "reserved"
      BY <1>0, <1>1 DEF Inv, ApprovalsStand, TypeOK
    <2> QED
      BY <2>1, <2>2 DEF ApprovalsStand
  <1>6. \A l \in Keys : l # k => /\ l \in Backlog' <=> l \in Backlog
                                 /\ l \in late' <=> l \in late
    BY <1>0, <1>1 DEF Backlog, TypeOK
  <1>7. Claimed' \subseteq Claimed
    <2>1. \A b \in Counters' : b \in Counters /\ conns'[b].key = conns[b].key
      BY <1>2 DEF Counters
    <2>2. k \in Backlog' \ late' => k \in Claimed
      <3>1. CASE op = "approve"
        <4>1. status[k] = "reserved" /\ k \notin late
          BY <1>0, <3>1 DEF Inv, ApprovalsStand
        <4> QED
          BY <1>0, <1>1, <3>1, <4>1 DEF Claimed, Backlog
      <3>2. CASE op # "approve"
        BY <1>0, <3>2 DEF Claimed, Counters
      <3> QED
        BY <3>1, <3>2
    <2>3. Backlog' \subseteq Keys
      BY DEF Backlog
    <2>4. Backlog' \ late' \subseteq Claimed
      BY <1>6, <2>2, <2>3 DEF Claimed
    <2> QED
      BY <2>1, <2>4 DEF Claimed
  <1> QED
    BY <1>2, <1>3, <1>5, <1>7, ClaimsShrink DEF Inv, OneCounter

LEMMA AbortStep ==
    ASSUME Inv, NEW a \in Apis, Abort(a)
    PROVE  Inv'
  <1>1. /\ a \in Busy /\ TypeOK
        /\ conns' = [conns EXCEPT ![a] = None]
        /\ UNCHANGED <<status, passed, passedHost, late>>
    BY DEF Abort, Busy, Inv
  <1>2. /\ Busy' = Busy \ {a}
        /\ Counters' = Counters \ {a}
        /\ \A b \in Busy' : conns'[b] = conns[b]
    BY <1>1, EndFacts
  <1>3. TypeOK'
    BY <1>1, <1>2 DEF TypeOK
  <1>4. Claimed' \subseteq Claimed
    BY <1>1, <1>2 DEF Claimed, Counters, Backlog
  <1>5. ApprovalsStand'
    BY <1>1, <1>2 DEF Inv, ApprovalsStand
  <1> QED
    BY <1>2, <1>3, <1>4, <1>5, ClaimsShrink DEF Inv, OneCounter

\* Jobs end and reservations expire: the backlog shrinks.
LEMMA DrainStep ==
    ASSUME Inv, NEW k \in Keys, Finish(k) \/ Pass(k) \/ PassHost(k)
    PROVE  Inv'
  <1>1. /\ TypeOK
        /\ UNCHANGED <<conns, late>>
        /\ \/ status' = status
           \/ /\ status[k] = "pending"
              /\ \E s \in {"dead", "ended"} : status' = [status EXCEPT ![k] = s]
        /\ passed \subseteq passed' /\ passed' \subseteq Keys
        /\ passedHost' \subseteq Keys
    BY DEF Inv, TypeOK, Finish, Pass, PassHost
  <1>2. Busy' = Busy /\ Counters' = Counters
    BY <1>1 DEF Busy, Counters
  <1>3. TypeOK'
    <2>1. status' \in [Keys -> Statuses]
      BY <1>1 DEF TypeOK, Statuses
    <2> QED
      BY <1>1, <1>2, <2>1 DEF TypeOK
  <1>4. Backlog' \subseteq Backlog
    BY <1>1 DEF Backlog, TypeOK
  <1>5. Claimed' \subseteq Claimed
    BY <1>1, <1>2, <1>4 DEF Claimed
  <1>6. ApprovalsStand'
    <2>1. \A l \in Keys : status[l] = "reserved" <=> status'[l] = "reserved"
      BY <1>1 DEF TypeOK
    <2>2. \A b \in Busy : conns[b].key \in Keys
      BY <1>1 DEF Busy, TypeOK, Transactions
    <2>3. late \subseteq Keys
      BY <1>1 DEF TypeOK
    <2> QED
      BY <1>1, <1>2, <2>1, <2>2, <2>3 DEF Inv, ApprovalsStand
  <1> QED
    BY <1>2, <1>3, <1>5, <1>6, ClaimsShrink DEF Inv, OneCounter

LEMMA StutterStep ==
    ASSUME Inv, UNCHANGED vars
    PROVE  Inv'
  BY DEF Inv, vars, TypeOK, Busy, OneCounter, Counters, ApprovalsStand,
     ClaimsBounded, Claimed, Backlog

\* Reservations, jobs and the transactions about to add to them stay bounded
\* through every race of service.propose, approve and resolve.
THEOREM Invariance == Spec => []Inv
  <1>1. Init => Inv
    BY InitInv
  <1>2. ASSUME Inv, NEW a \in Apis, NEW k \in Keys,
               Propose(a, k) \/ Requeue(a, k)
        PROVE  Inv'
    BY <1>2, CountedBegin DEF Propose, Requeue, Ops
  <1>3. Inv /\ [Next]_vars => Inv'
    BY <1>2, ApproveStep, CommitStep, AbortStep, DrainStep, StutterStep DEF Next
  <1> QED
    BY <1>1, <1>3, PTL DEF Spec

\* Rows and open transactions keep the shape of schema.sql and service.py.
THEOREM TypeCorrect == Spec => []TypeOK
  <1>1. Inv => TypeOK
    BY DEF Inv
  <1> QED
    BY <1>1, Invariance, PTL

\* Races of proposals and requeues never overfill a destination; only an
\* approval committed after its reservation expired can
\* (capacity.check_backlog).
THEOREM OnlyLateApprovalsOverfill == Spec => []OverfillIsLateApproval
  <1>1. ASSUME Inv
        PROVE  OverfillIsLateApproval
    <2>1. Backlog \ late \subseteq Claimed
      BY DEF Claimed
    <2> QED
      BY <1>1, <2>1, ClaimedFinite, SmallerSet
         DEF Inv, ClaimsBounded, OverfillIsLateApproval
  <1>2. Inv => OverfillIsLateApproval
    BY <1>1
  <1> QED
    BY <1>2, Invariance, PTL

=============================================================================
