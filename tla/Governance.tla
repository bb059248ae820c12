----------------------------- MODULE Governance -----------------------------
(***************************************************************************)
(* Ingestion of source events and the linking of identities                *)
(* (service.ingest, service.link, policy.field_decision).                  *)
(*                                                                         *)
(* An ingestion takes the advisory lock 83191, looks the delivery, its     *)
(* subject and its email up (Begin), then decides every field and writes   *)
(* the customer, the identity, the exception and the event log in the same *)
(* transaction (Apply, Create or SetAside).  The audit trail is left out,  *)
(* and a repeated delivery, which only adds to that, is no step.           *)
(***************************************************************************)
EXTENDS Naturals, FiniteSets

CONSTANTS
    Deliveries,  \* what the sources' connectors may deliver, in any order
    Customers,   \* the uuids that uuid4 may return
    Apis,        \* connections of API processes
    Values,      \* values of the fields other than lifecycle
    None         \* no value, no customer, no transaction

\* POLICY["owners"].
Owners ==
    [email |-> "crm", phone |-> "crm", owner |-> "crm", lifecycle |-> "crm",
     score |-> "scoring", consent |-> "consent", suppressed |-> "privacy"]

Fields == DOMAIN Owners

Sources == {"crm", "scoring", "consent", "privacy"}

\* STAGES, from Lead to Customer, by their index.
Stages == 1 .. 5
Lead == 1

ValuesOf(f) == IF f = "lifecycle" THEN Stages ELSE Values

\* A delivery has the shape of contracts.SourceEvent and Attributes.
ASSUME GovernanceAssumption ==
    /\ \A d \in Deliveries :
           /\ d.source \in Sources
           /\ d.sequence \in Nat \ {0}
           /\ DOMAIN d.attributes \subseteq Fields
           /\ DOMAIN d.attributes # {}
           /\ \A f \in DOMAIN d.attributes : d.attributes[f] \in ValuesOf(f)
    /\ None \notin Customers \cup Values \cup Stages

VARIABLES
    events,      \* cp.events
    identities,  \* cp.identities: subject -> its customer
    customers,   \* cp.customers
    exceptions,  \* cp.exceptions that ingestion has raised
    conns        \* the ingestion each connection is in, past its look-ups

vars == <<events, identities, customers, exceptions, conns>>

-----------------------------------------------------------------------------
Id(d) == <<d.source, d.event_id>>

SubjectOf(d) == <<d.source, d.subject>>
Subjects == {SubjectOf(d) : d \in Deliveries}

\* provenance[field]: the observation that the value is from.
Provenances ==
    {[source |-> d.source, subject |-> d.subject, event_id |-> d.event_id,
      sequence |-> d.sequence] : d \in Deliveries}

CustomerRecords ==
    [revision: Nat,
     state: [Fields -> Values \cup Stages \cup {None}],
     provenance: [Fields -> Provenances \cup {None}]]

\* Every field has a value of its own kind or none, and a lifecycle some stage.
StateOK(state) ==
    /\ \A f \in Fields : state[f] \in ValuesOf(f) \cup {None}
    /\ state["lifecycle"] \in Stages

\* A logged event, with what its result says: the customer (None if it was set
\* aside), the fields it was accepted for, and the customer's revision.
LogRecords ==
    [delivery: Deliveries, customer: Customers \cup {None},
     accepted: SUBSET Fields, revision: Nat]

Categories == {"idempotency_conflict", "identity_ambiguous",
               "identity_review_required", "field_governance"}

\* An ingestion past its look-ups: the customer of the subject, and those that
\* have the email already.
Transactions ==
    [delivery: Deliveries, identity: Customers \cup {None}, candidates: SUBSET Customers]

Busy == {a \in Apis : conns[a] # None}

ASSUME GovernanceNoneAssumption ==
    None \notin Transactions \cup CustomerRecords \cup Provenances

\* The tables have the shape of schema.sql.
TypeOK ==
    /\ events \subseteq LogRecords
    /\ IsFiniteSet(events)
    /\ identities \in [Subjects -> Customers \cup {None}]
    /\ customers \in [Customers -> CustomerRecords \cup {None}]
    /\ \A c \in Customers : customers[c] # None => StateOK(customers[c].state)
    /\ exceptions \subseteq [category: Categories, delivery: Deliveries]
    /\ conns \in [Apis -> Transactions \cup {None}]

Init ==
    /\ events = {}
    /\ identities = [s \in Subjects |-> None]
    /\ customers = [c \in Customers |-> None]
    /\ exceptions = {}
    /\ conns = [a \in Apis |-> None]

-----------------------------------------------------------------------------
\* Mutant of Locked: no lock is taken, or one on rows that do not exist yet.
LockedNever == FALSE

\* Some transaction holds the advisory lock.
Locked == Busy # {}

Logged(d) == \E x \in events : Id(x.delivery) = Id(d)

\* The customers that have the email of delivery d.
Candidates(d) ==
    {c \in Customers : /\ "email" \in DOMAIN d.attributes
                       /\ customers[c] # None
                       /\ customers[c].state["email"] = d.attributes["email"]}

\* Mutant of Begin: the subject is looked up without its source.
BeginAnySource(a, d) ==
    /\ conns[a] = None
    /\ ~Locked
    /\ ~Logged(d)
    /\ \E s \in Subjects :
        /\ s[2] = d.subject
        /\ identities[SubjectOf(d)] # None => s = SubjectOf(d)
        /\ conns' = [conns EXCEPT ![a] =
               [delivery |-> d, identity |-> identities[s],
                candidates |-> Candidates(d)]]
    /\ UNCHANGED <<events, identities, customers, exceptions>>

\* service.ingest takes the lock and looks a new delivery up.
Begin(a, d) ==
    /\ conns[a] = None
    /\ ~Locked
    /\ ~Logged(d)
    /\ conns' = [conns EXCEPT ![a] =
           [delivery |-> d, identity |-> identities[SubjectOf(d)],
            candidates |-> Candidates(d)]]
    /\ UNCHANGED <<events, identities, customers, exceptions>>

\* The identity of d is in the log with another content.
Conflict(d) ==
    /\ ~Locked
    /\ \E x \in events : Id(x.delivery) = Id(d) /\ x.delivery # d
    /\ exceptions' = exceptions \cup
           {[category |-> "idempotency_conflict", delivery |-> d]}
    /\ UNCHANGED <<events, identities, customers, conns>>

-----------------------------------------------------------------------------
\* state.get("lifecycle", "Lead").
StageOf(row) ==
    IF row.state["lifecycle"] = None THEN Lead ELSE row.state["lifecycle"]

\* Mutant of field_decision: a late observation is not refused.
field_decision_late(d, f, row) ==
    IF Owners[f] # d.source THEN "source_not_authoritative"
    ELSE IF f = "lifecycle" /\ d.attributes[f] < StageOf(row) THEN "lifecycle_regression"
    ELSE "accepted"

\* Mutant of field_decision: any source may set a field.
field_decision_anyone(d, f, row) ==
    IF /\ row.provenance[f] # None
       /\ d.sequence <= row.provenance[f].sequence THEN "stale_source_sequence"
    ELSE IF f = "lifecycle" /\ d.attributes[f] < StageOf(row) THEN "lifecycle_regression"
    ELSE "accepted"

\* Mutant of field_decision: a newer sequence may take a lifecycle back.
field_decision_newest(d, f, row) ==
    IF Owners[f] # d.source THEN "source_not_authoritative"
    ELSE IF /\ row.provenance[f] # None
            /\ d.sequence <= row.provenance[f].sequence THEN "stale_source_sequence"
    ELSE "accepted"

\* policy.field_decision.
field_decision(d, f, row) ==
    IF Owners[f] # d.source THEN "source_not_authoritative"
    ELSE IF /\ row.provenance[f] # None
            /\ d.sequence <= row.provenance[f].sequence THEN "stale_source_sequence"
    ELSE IF f = "lifecycle" /\ d.attributes[f] < StageOf(row) THEN "lifecycle_regression"
    ELSE "accepted"

\* The fields of d that customer row takes over.
Accepted(d, row) ==
    {f \in DOMAIN d.attributes : field_decision(d, f, row) = "accepted"}

ProvenanceOf(d) ==
    [source |-> d.source, subject |-> d.subject, event_id |-> d.event_id,
     sequence |-> d.sequence]

NextState(d, row) ==
    [f \in Fields |-> IF f \in Accepted(d, row) THEN d.attributes[f] ELSE row.state[f]]

NextProvenance(d, row) ==
    [f \in Fields |-> IF f \in Accepted(d, row) THEN ProvenanceOf(d) ELSE row.provenance[f]]

\* Mutant of NextRevision: an equal value is no news.
NextRevisionByValue(d, row) ==
    IF NextState(d, row) # row.state THEN row.revision + 1 ELSE row.revision

\* int(provenance != row["provenance"]): an equal value counts as well.
NextRevision(d, row) ==
    IF NextProvenance(d, row) # row.provenance THEN row.revision + 1 ELSE row.revision

Updated(d, row) ==
    [revision |-> NextRevision(d, row), state |-> NextState(d, row),
     provenance |-> NextProvenance(d, row)]

\* Mutant of Refused: one accepted field hides the refused ones.
RefusedWholly(d, row) == Accepted(d, row) = {}

\* Some field of d is refused.
Refused(d, row) == Accepted(d, row) # DOMAIN d.attributes

\* Customer c, whose row is given, takes delivery d over.
Process(d, c, row) ==
    /\ customers' = [customers EXCEPT ![c] = Updated(d, row)]
    /\ events' = events \cup
           {[delivery |-> d, customer |-> c, accepted |-> Accepted(d, row),
             revision |-> NextRevision(d, row)]}
    /\ exceptions' = IF Refused(d, row)
                     THEN exceptions \cup {[category |-> "field_governance", delivery |-> d]}
                     ELSE exceptions

\* Mutant of NewCustomer: the schema has no default for the state.
NewCustomerBlank ==
    [revision |-> 0,
     state |-> [f \in Fields |-> None],
     provenance |-> [f \in Fields |-> None]]

\* A row of cp.customers as it is inserted.
NewCustomer ==
    [revision |-> 0,
     state |-> [f \in Fields |-> IF f = "lifecycle" THEN Lead ELSE None],
     provenance |-> [f \in Fields |-> None]]

-----------------------------------------------------------------------------
\* The end of an ingestion of a delivery whose subject is known.  PRIMARY KEY
\* of cp.events would make a second log entry fail.
Apply(a) ==
    LET t == conns[a]
    IN  /\ t # None
        /\ t.identity # None
        /\ ~Logged(t.delivery)
        /\ Process(t.delivery, t.identity, customers[t.identity])
        /\ conns' = [conns EXCEPT ![a] = None]
        /\ UNCHANGED identities

\* Only the crm, with an email that nobody has, creates a customer.
MayCreate(t) ==
    /\ t.delivery.source = "crm"
    /\ t.candidates = {}
    /\ "email" \in DOMAIN t.delivery.attributes

\* The end of an ingestion that creates a customer and binds the subject to
\* it; PRIMARY KEY of cp.identities would make a second binding fail.
Create(a) ==
    LET t == conns[a]
    IN  /\ t # None
        /\ t.identity = None
        /\ MayCreate(t)
        /\ ~Logged(t.delivery)
        /\ identities[SubjectOf(t.delivery)] = None
        /\ \E c \in Customers :
            /\ customers[c] = None
            /\ identities' = [identities EXCEPT ![SubjectOf(t.delivery)] = c]
            /\ Process(t.delivery, c, NewCustomer)
        /\ conns' = [conns EXCEPT ![a] = None]

\* The end of an ingestion of an unknown subject, left to a reviewer.
SetAside(a) ==
    LET t == conns[a]
        reason == IF Cardinality(t.candidates) > 1 THEN "identity_ambiguous"
                  ELSE "identity_review_required"
    IN  /\ t # None
        /\ t.identity = None
        /\ ~MayCreate(t)
        /\ ~Logged(t.delivery)
        /\ events' = events \cup
               {[delivery |-> t.delivery, customer |-> None, accepted |-> {},
                 revision |-> 0]}
        /\ exceptions' = exceptions \cup {[category |-> reason, delivery |-> t.delivery]}
        /\ conns' = [conns EXCEPT ![a] = None]
        /\ UNCHANGED <<identities, customers>>

\* The transaction fails, or its process dies: nothing is written.
Abort(a) ==
    /\ conns[a] # None
    /\ conns' = [conns EXCEPT ![a] = None]
    /\ UNCHANGED <<events, identities, customers, exceptions>>

\* The checks of service.link: no rebinding, and no second subject of a source.
Linkable(s, c) ==
    /\ identities[s] \in {None, c}
    /\ \A t \in Subjects : t[1] = s[1] /\ identities[t] = c => t = s

\* service.link: an operator, who saw the customer's current revision, binds
\* subject s to it.
Link(s, c) ==
    /\ ~Locked
    /\ customers[c] # None
    /\ Linkable(s, c)
    /\ identities' = [identities EXCEPT ![s] = c]
    /\ UNCHANGED <<events, customers, exceptions, conns>>

-----------------------------------------------------------------------------
Next ==
    \/ \E d \in Deliveries : (\E a \in Apis : Begin(a, d)) \/ Conflict(d)
    \/ \E a \in Apis : Apply(a) \/ Create(a) \/ SetAside(a) \/ Abort(a)
    \/ \E s \in Subjects, c \in Customers : Link(s, c)

Spec == Init /\ [][Next]_vars

-----------------------------------------------------------------------------
(***************************************************************************)
(* Properties.                                                             *)
(***************************************************************************)

\* Every value that has a provenance is the one that the log has under it: a
\* delivery of the field's owner for a subject bound to this customer
\* (docs/governance.md, field ownership).
ProvenanceTrue ==
    \A c \in Customers : customers[c] # None =>
        \A f \in Fields :
            LET p == customers[c].provenance[f]
            IN  p # None =>
                    /\ Owners[f] = p.source
                    /\ identities[<<p.source, p.subject>>] = c
                    /\ \E x \in events :
                           /\ x.customer = c
                           /\ f \in x.accepted
                           /\ ProvenanceOf(x.delivery) = p
                           /\ x.delivery.attributes[f] = customers[c].state[f]

\* No observation by a field's owner is lost: in whatever order deliveries
\* arrive, what stands is as late as each that was processed, or the lifecycle
\* has gone further than it (field_decision, "No-Regress").
NothingNewerLost ==
    \A x \in events : x.customer # None =>
        \A f \in DOMAIN x.delivery.attributes :
            Owners[f] = x.delivery.source =>
                LET row == customers[x.customer]
                IN  /\ row.provenance[f] # None
                    /\ \/ row.provenance[f].sequence >= x.delivery.sequence
                       \/ /\ f = "lifecycle"
                          /\ row.state[f] > x.delivery.attributes[f]

\* A customer's revision is the number of logged events that it accepted
\* something of, so a context that anyone reviewed can never stand again
\* ("Accepted newer observations invalidate old context", service.ingest).
RevisionCounts ==
    \A c \in Customers : customers[c] # None =>
        customers[c].revision =
            Cardinality({x \in events : x.customer = c /\ x.accepted # {}})

\* Sequences that are compared come from one record: all that a customer has
\* processed of a source is of one subject (service.link, one authoritative
\* subject per source).
SequencesComparable ==
    \A x, y \in events :
        /\ x.customer = y.customer
        /\ x.customer # None
        /\ x.delivery.source = y.delivery.source
        => x.delivery.subject = y.delivery.subject

\* Two customers share an email only since one of them changed it later: no
\* race of first deliveries creates a customer twice (the advisory lock of
\* service.ingest, "a row lock cannot protect an identity that does not exist").
EmailsCreatedApart ==
    \A x, y \in events :
        /\ x.customer # None /\ y.customer # None /\ x.customer # y.customer
        /\ "email" \in x.accepted /\ "email" \in y.accepted
        /\ x.delivery.attributes["email"] = y.delivery.attributes["email"]
        /\ \A z \in {x, y} :
               customers[z.customer].provenance["email"] = ProvenanceOf(z.delivery)
        => x.revision > 1 \/ y.revision > 1

\* Whatever a delivery was refused, in whole or in a field, is before a
\* reviewer (db.exception in service.ingest).
RefusalsAreReviewed ==
    \A x \in events :
        x.customer = None \/ x.accepted # DOMAIN x.delivery.attributes
            => \E e \in exceptions : e.delivery = x.delivery

-----------------------------------------------------------------------------
\* The abstract registers, read off the tables.
StandingOf(row) ==
    [f \in Fields |->
        IF row.provenance[f] = None THEN None
        ELSE [sequence |-> row.provenance[f].sequence, value |-> row.state[f]]]

Standing ==
    [c \in Customers |-> IF customers[c] = None THEN [f \in Fields |-> None]
                         ELSE StandingOf(customers[c])]

Decided == {Id(x.delivery) : x \in events}

R == INSTANCE Registers WITH taken <- Decided, bound <- identities, register <- Standing

\* Ingestion implements the registers of module Registers: every delivery
\* counts once, for the one customer of its subject, and no field ever goes
\* back (service.ingest, service.link, field_decision).
ImplementsRegisters == R!Spec

=============================================================================
