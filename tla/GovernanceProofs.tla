-------------------------- MODULE GovernanceProofs --------------------------
(***************************************************************************)
(* Proofs about Governance: for any deliveries, customers, connections and *)
(* values, what stands of a customer is in the log and as late as all that *)
(* was processed, and ingestion implements the registers of Registers.     *)
(***************************************************************************)
EXTENDS Governance, FiniteSetTheorems, TLAPS

\* The advisory lock has one holder,
OneTransaction == \A a, b \in Busy : a = b

\* so that what it looked up is what is there when it writes.
LookedUp ==
    \A a \in Busy :
        /\ conns[a].identity = identities[SubjectOf(conns[a].delivery)]
        /\ conns[a].candidates = Candidates(conns[a].delivery)
        /\ ~Logged(conns[a].delivery)

\* A bound subject has a customer, and a customer one subject of a source.
Bindings ==
    /\ \A s \in Subjects : identities[s] # None => customers[identities[s]] # None
    /\ \A s, t \in Subjects :
           s[1] = t[1] /\ identities[s] = identities[t] /\ identities[s] # None => s = t

\* The log has one entry for a delivery identity, of the subject's customer.
LogTrue ==
    /\ \A x, y \in events : Id(x.delivery) = Id(y.delivery) => x = y
    /\ \A x \in events :
           /\ x.accepted \subseteq DOMAIN x.delivery.attributes
           /\ x.customer # None => identities[SubjectOf(x.delivery)] = x.customer

\* A customer has processed something; what it has of nobody is the default.
RowsTrue ==
    \A c \in Customers : customers[c] # None =>
        /\ customers[c].revision >= 1
        /\ customers[c].provenance["lifecycle"] = None
               => customers[c].state["lifecycle"] = Lead

Inv ==
    /\ TypeOK
    /\ OneTransaction
    /\ LookedUp
    /\ Bindings
    /\ LogTrue
    /\ RowsTrue
    /\ ProvenanceTrue
    /\ NothingNewerLost
    /\ RevisionCounts
    /\ EmailsCreatedApart
    /\ RefusalsAreReviewed

-----------------------------------------------------------------------------
(***************************************************************************)
(* Fields, and what one delivery does to one row.                          *)
(***************************************************************************)
LEMMA FieldNames ==
    /\ "email" \in Fields /\ "lifecycle" \in Fields
    /\ Owners["email"] = "crm"
    /\ ValuesOf("lifecycle") = Stages
    /\ \A f \in Fields : f # "lifecycle" => ValuesOf(f) = Values
  BY DEF Fields, Owners, ValuesOf

LEMMA DeliveryType ==
    ASSUME NEW d \in Deliveries
    PROVE  /\ d.sequence \in Nat \ {0}
           /\ DOMAIN d.attributes \subseteq Fields
           /\ DOMAIN d.attributes # {}
           /\ \A f \in DOMAIN d.attributes : d.attributes[f] \in ValuesOf(f)
           /\ SubjectOf(d) \in Subjects
           /\ SubjectOf(d)[1] = d.source
           /\ ProvenanceOf(d) \in Provenances
           /\ ProvenanceOf(d).sequence = d.sequence
           /\ ProvenanceOf(d).source = d.source
           /\ ProvenanceOf(d).subject = d.subject
           /\ ProvenanceOf(d).event_id = d.event_id
  <1>1. /\ d.sequence \in Nat \ {0}
        /\ DOMAIN d.attributes \subseteq Fields
        /\ DOMAIN d.attributes # {}
        /\ \A f \in DOMAIN d.attributes : d.attributes[f] \in ValuesOf(f)
    BY GovernanceAssumption
  <1>2. SubjectOf(d) \in Subjects /\ SubjectOf(d)[1] = d.source
    BY DEF Subjects, SubjectOf
  <1>3. ProvenanceOf(d) \in Provenances
    BY DEF ProvenanceOf, Provenances
  <1> QED
    BY <1>1, <1>2, <1>3 DEF ProvenanceOf

LEMMA ProvenanceType ==
    ASSUME NEW p \in Provenances
    PROVE  p # None /\ p.sequence \in Nat
  BY GovernanceAssumption, GovernanceNoneAssumption DEF Provenances

LEMMA RowType ==
    ASSUME NEW row \in CustomerRecords
    PROVE  /\ row # None
           /\ row.revision \in Nat
           /\ row.state \in [Fields -> Values \cup Stages \cup {None}]
           /\ row.provenance \in [Fields -> Provenances \cup {None}]
  BY GovernanceNoneAssumption DEF CustomerRecords

LEMMA NewCustomerType ==
    /\ NewCustomer \in CustomerRecords
    /\ StateOK(NewCustomer.state)
    /\ NewCustomer.state["lifecycle"] = Lead
    /\ \A f \in Fields : NewCustomer.provenance[f] = None
    /\ NewCustomer.revision = 0
  BY FieldNames DEF NewCustomer, CustomerRecords, StateOK, Lead, Stages

LEMMA AcceptedField ==
    ASSUME NEW d \in Deliveries, NEW row \in CustomerRecords, StateOK(row.state),
           NEW f \in Accepted(d, row)
    PROVE  /\ f \in DOMAIN d.attributes /\ f \in Fields
           /\ Owners[f] = d.source
           /\ NextState(d, row)[f] = d.attributes[f]
           /\ NextProvenance(d, row)[f] = ProvenanceOf(d)
           /\ row.provenance[f] # None => d.sequence > row.provenance[f].sequence
           /\ f = "lifecycle" => d.attributes[f] >= row.state[f]
  <1>1. f \in DOMAIN d.attributes /\ f \in Fields
    BY DeliveryType DEF Accepted
  <1>2. field_decision(d, f, row) = "accepted"
    BY DEF Accepted
  <1>3. Owners[f] = d.source
    BY <1>2 DEF field_decision
  <1>4. ASSUME row.provenance[f] # None
        PROVE  d.sequence > row.provenance[f].sequence
    <2>1. row.provenance[f] \in Provenances
      BY <1>1, <1>4, RowType
    <2>2. row.provenance[f].sequence \in Nat /\ d.sequence \in Nat
      BY <2>1, ProvenanceType, DeliveryType
    <2>3. ~(d.sequence <= row.provenance[f].sequence)
      BY <1>2, <1>4 DEF field_decision
    <2> QED
      BY <2>2, <2>3
  <1>5. ASSUME f = "lifecycle"
        PROVE  d.attributes[f] >= row.state[f]
    <2>1. row.state[f] \in Stages /\ row.state[f] # None
      BY <1>5, GovernanceAssumption DEF StateOK
    <2>2. d.attributes[f] \in Stages
      BY <1>1, <1>5, DeliveryType, FieldNames
    <2>3. StageOf(row) = row.state[f]
      BY <2>1, <1>5 DEF StageOf
    <2>4. ~(d.attributes[f] < row.state[f])
      BY <1>2, <1>3, <2>3, <1>5 DEF field_decision
    <2> QED
      BY <2>1, <2>2, <2>4 DEF Stages
  <1> QED
    BY <1>1, <1>3, <1>4, <1>5 DEF NextState, NextProvenance

LEMMA RefusedField ==
    ASSUME NEW d \in Deliveries, NEW row \in CustomerRecords, StateOK(row.state),
           row.provenance["lifecycle"] = None => row.state["lifecycle"] = Lead,
           NEW f \in DOMAIN d.attributes, f \notin Accepted(d, row), Owners[f] = d.source
    PROVE  /\ row.provenance[f] # None
           /\ \/ d.sequence <= row.provenance[f].sequence
              \/ f = "lifecycle" /\ d.attributes[f] < row.state[f]
  <1>1. field_decision(d, f, row) # "accepted"
    BY DEF Accepted
  <1>2. \/ row.provenance[f] # None /\ d.sequence <= row.provenance[f].sequence
        \/ f = "lifecycle" /\ d.attributes[f] < StageOf(row)
    BY <1>1 DEF field_decision
  <1>3. CASE row.provenance[f] # None /\ d.sequence <= row.provenance[f].sequence
    BY <1>3
  <1>4. CASE f = "lifecycle" /\ d.attributes[f] < StageOf(row)
    <2>1. row.state[f] \in Stages /\ row.state[f] # None
      BY <1>4, GovernanceAssumption DEF StateOK
    <2>2. d.attributes[f] \in Stages
      BY <1>4, DeliveryType, FieldNames
    <2>3. StageOf(row) = row.state[f]
      BY <2>1, <1>4 DEF StageOf
    <2>4. d.attributes[f] < row.state[f]
      BY <1>4, <2>3
    <2>5. row.state[f] # Lead
      BY <2>1, <2>2, <2>4 DEF Stages, Lead
    <2> QED
      BY <2>4, <2>5, <1>4
  <1> QED
    BY <1>2, <1>3, <1>4

LEMMA OtherField ==
    ASSUME NEW d \in Deliveries, NEW row \in CustomerRecords,
           NEW f \in Fields, f \notin Accepted(d, row)
    PROVE  /\ NextState(d, row)[f] = row.state[f]
           /\ NextProvenance(d, row)[f] = row.provenance[f]
  BY DEF NextState, NextProvenance

\* Whatever is accepted is counted, even if the value is no other.
LEMMA RevisionStep ==
    ASSUME NEW d \in Deliveries, NEW row \in CustomerRecords, StateOK(row.state)
    PROVE  NextRevision(d, row) =
               IF Accepted(d, row) # {} THEN row.revision + 1 ELSE row.revision
  <1>1. CASE Accepted(d, row) = {}
    <2>1. \A f \in Fields : NextProvenance(d, row)[f] = row.provenance[f]
      BY <1>1, OtherField
    <2>2. NextProvenance(d, row) = row.provenance
      BY <2>1, RowType DEF NextProvenance
    <2> QED
      BY <1>1, <2>2 DEF NextRevision
  <1>2. CASE Accepted(d, row) # {}
    <2>1. PICK f \in Accepted(d, row) : TRUE
      BY <1>2
    <2>2. f \in Fields /\ NextProvenance(d, row)[f] = ProvenanceOf(d)
      BY <2>1, AcceptedField
    <2>3. ASSUME row.provenance[f] = ProvenanceOf(d)
          PROVE  FALSE
      <3>1. row.provenance[f] # None /\ row.provenance[f].sequence = d.sequence
        BY <2>3, DeliveryType, ProvenanceType
      <3>2. d.sequence > d.sequence
        BY <3>1, <2>1, AcceptedField
      <3> QED
        BY <3>2, DeliveryType
    <2>4. NextProvenance(d, row) # row.provenance
      BY <2>2, <2>3
    <2> QED
      BY <1>2, <2>4 DEF NextRevision
  <1> QED
    BY <1>1, <1>2

LEMMA UpdatedType ==
    ASSUME NEW d \in Deliveries, NEW row \in CustomerRecords, StateOK(row.state)
    PROVE  /\ Updated(d, row) \in CustomerRecords
           /\ StateOK(Updated(d, row).state)
           /\ Updated(d, row).state = NextState(d, row)
           /\ Updated(d, row).provenance = NextProvenance(d, row)
           /\ Updated(d, row).revision = NextRevision(d, row)
           /\ NextRevision(d, row) \in Nat
           /\ Accepted(d, row) \subseteq Fields
  <1>1. NextRevision(d, row) \in Nat
    BY RevisionStep, RowType
  <1>2. \A f \in Fields : NextState(d, row)[f] \in ValuesOf(f) \cup {None}
    <2>1. SUFFICES ASSUME NEW f \in Fields
                   PROVE  NextState(d, row)[f] \in ValuesOf(f) \cup {None}
      OBVIOUS
    <2>2. CASE f \in Accepted(d, row)
      BY <2>2, AcceptedField, DeliveryType
    <2>3. CASE f \notin Accepted(d, row)
      BY <2>3, OtherField DEF StateOK
    <2> QED
      BY <2>2, <2>3
  <1>3. NextState(d, row)["lifecycle"] \in Stages
    <2>1. CASE "lifecycle" \in Accepted(d, row)
      BY <2>1, AcceptedField, DeliveryType, FieldNames
    <2>2. CASE "lifecycle" \notin Accepted(d, row)
      BY <2>2, OtherField, FieldNames DEF StateOK
    <2> QED
      BY <2>1, <2>2
  <1>4. NextState(d, row) \in [Fields -> Values \cup Stages \cup {None}]
    <2>1. \A f \in Fields : ValuesOf(f) \subseteq Values \cup Stages
      BY DEF ValuesOf
    <2> QED
      BY <1>2, <2>1 DEF NextState
  <1>5. NextProvenance(d, row) \in [Fields -> Provenances \cup {None}]
    <2>1. \A f \in Fields : NextProvenance(d, row)[f] \in Provenances \cup {None}
      <3>1. TAKE f \in Fields
      <3>2. CASE f \in Accepted(d, row)
        BY <3>2, AcceptedField, DeliveryType
      <3>3. CASE f \notin Accepted(d, row)
        BY <3>3, OtherField, RowType
      <3> QED
        BY <3>2, <3>3
    <2> QED
      BY <2>1 DEF NextProvenance
  <1>6. Accepted(d, row) \subseteq Fields
    BY AcceptedField
  <1> QED
    BY <1>1, <1>2, <1>3, <1>4, <1>5, <1>6 DEF Updated, CustomerRecords, StateOK

-----------------------------------------------------------------------------
(***************************************************************************)
(* One delivery taken over by the customer of its subject, old or new.     *)
(***************************************************************************)
Row(c) == IF customers[c] = None THEN NewCustomer ELSE customers[c]

\* Nothing bound is bound anew.
Extended ==
    /\ identities' \in [Subjects -> Customers \cup {None}]
    /\ \A s \in Subjects : identities[s] # None => identities'[s] = identities[s]

\* A first delivery is accepted, and of an email that nobody has.
Founding(d, c) ==
    customers[c] = None =>
        /\ Accepted(d, NewCustomer) # {}
        /\ "email" \in DOMAIN d.attributes
        /\ \A b \in Customers : customers[b] # None =>
               customers[b].state["email"] # d.attributes["email"]

Taken(d, c) ==
    /\ ~Logged(d)
    /\ Process(d, c, Row(c))
    /\ Extended
    /\ identities'[SubjectOf(d)] = c
    /\ Founding(d, c)

Entry(d, c) ==
    [delivery |-> d, customer |-> c, accepted |-> Accepted(d, Row(c)),
     revision |-> NextRevision(d, Row(c))]

LEMMA RowFacts ==
    ASSUME Inv, NEW c \in Customers
    PROVE  /\ Row(c) \in CustomerRecords
           /\ StateOK(Row(c).state)
           /\ Row(c).provenance["lifecycle"] = None => Row(c).state["lifecycle"] = Lead
           /\ customers[c] # None => Row(c) = customers[c] /\ Row(c).revision >= 1
           /\ customers[c] = None => Row(c) = NewCustomer
  BY NewCustomerType DEF Inv, TypeOK, RowsTrue, Row

LEMMA LogEntry ==
    ASSUME Inv, NEW x \in events
    PROVE  /\ x.delivery \in Deliveries
           /\ x.customer \in Customers \cup {None}
           /\ x.revision \in Nat
           /\ x.customer # None => customers[x.customer] # None
  BY DeliveryType DEF Inv, TypeOK, LogRecords, LogTrue, Bindings

LEMMA TakenFacts ==
    ASSUME Inv, NEW d \in Deliveries, NEW c \in Customers, Taken(d, c)
    PROVE  /\ events' = events \cup {Entry(d, c)}
           /\ Entry(d, c) \in LogRecords
           /\ Entry(d, c) \notin events
           /\ c # None
           /\ \A b \in Customers : b # c => customers'[b] = customers[b]
           /\ customers'[c] = Updated(d, Row(c))
           /\ customers' \in [Customers -> CustomerRecords \cup {None}]
           /\ customers'[c] # None /\ StateOK(customers'[c].state)
           /\ customers'[c].state = NextState(d, Row(c))
           /\ customers'[c].provenance = NextProvenance(d, Row(c))
           /\ customers'[c].revision = NextRevision(d, Row(c))
  <1>1. Row(c) \in CustomerRecords /\ StateOK(Row(c).state)
    BY RowFacts
  <1>2. events' = events \cup {Entry(d, c)}
    BY DEF Taken, Process, Entry
  <1>3. Entry(d, c) \in LogRecords
    BY <1>1, UpdatedType DEF Entry, LogRecords
  <1>4. Entry(d, c).delivery = d
    BY DEF Entry
  <1>5. Entry(d, c) \notin events
    BY <1>4 DEF Taken, Logged
  <1>6. customers' = [customers EXCEPT ![c] = Updated(d, Row(c))]
    BY DEF Taken, Process
  <1>7. Updated(d, Row(c)) \in CustomerRecords
    BY <1>1, UpdatedType
  <1>8. customers \in [Customers -> CustomerRecords \cup {None}]
    BY DEF Inv, TypeOK
  <1>9. /\ \A b \in Customers : b # c => customers'[b] = customers[b]
        /\ customers'[c] = Updated(d, Row(c))
        /\ customers' \in [Customers -> CustomerRecords \cup {None}]
    BY <1>6, <1>7, <1>8
  <1>10. customers'[c] # None /\ c # None
    BY <1>7, <1>9, RowType, GovernanceAssumption
  <1> QED
    BY <1>1, <1>2, <1>3, <1>5, <1>9, <1>10, UpdatedType

LEMMA TakenType ==
    ASSUME Inv, NEW d \in Deliveries, NEW c \in Customers, Taken(d, c),
           conns' \in [Apis -> Transactions \cup {None}]
    PROVE  TypeOK'
  <1>1. events' \subseteq LogRecords /\ IsFiniteSet(events')
    BY TakenFacts, FS_AddElement DEF Inv, TypeOK
  <1>2. customers' \in [Customers -> CustomerRecords \cup {None}]
    BY TakenFacts
  <1>3. \A b \in Customers : customers'[b] # None => StateOK(customers'[b].state)
    <2>1. TAKE b \in Customers
    <2>2. CASE b = c
      BY <2>2, TakenFacts
    <2>3. CASE b # c
      BY <2>3, TakenFacts DEF Inv, TypeOK
    <2> QED
      BY <2>2, <2>3
  <1>4. exceptions' \subseteq [category: Categories, delivery: Deliveries]
    BY DEF Taken, Process, Inv, TypeOK, Categories
  <1> QED
    BY <1>1, <1>2, <1>3, <1>4 DEF TypeOK, Taken, Extended

LEMMA TakenLog ==
    ASSUME Inv, NEW d \in Deliveries, NEW c \in Customers, Taken(d, c)
    PROVE  LogTrue'
  <1> DEFINE e == Entry(d, c)
  <1>1. e.delivery = d /\ e.customer = c /\ e.accepted = Accepted(d, Row(c))
    BY DEF Entry
  <1>2. events' = events \cup {e}
    BY TakenFacts
  <1>3. \A x \in events : Id(x.delivery) # Id(d)
    BY DEF Taken, Logged
  <1> HIDE DEF e
  <1>4. \A x, y \in events' : Id(x.delivery) = Id(y.delivery) => x = y
    BY <1>1, <1>2, <1>3 DEF Inv, LogTrue
  <1>5. ASSUME NEW x \in events'
        PROVE  /\ x.accepted \subseteq DOMAIN x.delivery.attributes
               /\ x.customer # None => identities'[SubjectOf(x.delivery)] = x.customer
    <2>1. CASE x \in events
      <3>1. SubjectOf(x.delivery) \in Subjects
        BY <2>1, LogEntry, DeliveryType
      <3> QED
        BY <2>1, <3>1 DEF Inv, LogTrue, Taken, Extended
    <2>2. CASE x = e
      BY <2>2, <1>1 DEF Taken, Accepted
    <2> QED
      BY <1>2, <2>1, <2>2
  <1> QED
    BY <1>4, <1>5 DEF LogTrue

LEMMA TakenRows ==
    ASSUME Inv, NEW d \in Deliveries, NEW c \in Customers, Taken(d, c)
    PROVE  RowsTrue'
  <1> SUFFICES ASSUME NEW b \in Customers, customers'[b] # None
               PROVE  /\ customers'[b].revision >= 1
                      /\ customers'[b].provenance["lifecycle"] = None
                             => customers'[b].state["lifecycle"] = Lead
    BY DEF RowsTrue
  <1>1. CASE b # c
    BY <1>1, TakenFacts DEF Inv, RowsTrue
  <1>2. CASE b = c
    <2>1. /\ Row(c) \in CustomerRecords
          /\ StateOK(Row(c).state)
          /\ Row(c).provenance["lifecycle"] = None => Row(c).state["lifecycle"] = Lead
      BY RowFacts
    <2>2. NextRevision(d, Row(c)) >= 1
      <3>1. CASE customers[c] = None
        <4>1. Row(c) = NewCustomer /\ Accepted(d, Row(c)) # {} /\ Row(c).revision = 0
          BY <3>1, RowFacts, NewCustomerType DEF Taken, Founding
        <4> QED
          BY <4>1, <2>1, RevisionStep
      <3>2. CASE customers[c] # None
        BY <3>2, <2>1, RowFacts, RowType, RevisionStep
      <3> QED
        BY <3>1, <3>2
    <2>3. NextProvenance(d, Row(c))["lifecycle"] = None
              => NextState(d, Row(c))["lifecycle"] = Lead
      <3>1. CASE "lifecycle" \in Accepted(d, Row(c))
        BY <3>1, <2>1, AcceptedField, DeliveryType, ProvenanceType
      <3>2. CASE "lifecycle" \notin Accepted(d, Row(c))
        BY <3>2, <2>1, OtherField, FieldNames
      <3> QED
        BY <3>1, <3>2
    <2> QED
      BY <1>2, <2>2, <2>3, TakenFacts
  <1> QED
    BY <1>1, <1>2

\* What ProvenanceTrue says of one field.
Vouched(c, f) ==
    LET p == customers[c].provenance[f]
    IN  p # None =>
            /\ Owners[f] = p.source
            /\ identities[<<p.source, p.subject>>] = c
            /\ \E x \in events :
                   /\ x.customer = c
                   /\ f \in x.accepted
                   /\ ProvenanceOf(x.delivery) = p
                   /\ x.delivery.attributes[f] = customers[c].state[f]

LEMMA VouchedAll ==
    ProvenanceTrue <=>
        \A c \in Customers : customers[c] # None => \A f \in Fields : Vouched(c, f)
  BY DEF ProvenanceTrue, Vouched

LEMMA VouchedAllNext ==
    ProvenanceTrue' <=>
        \A c \in Customers : customers'[c] # None => \A f \in Fields : Vouched(c, f)'
  BY DEF ProvenanceTrue, Vouched

\* A field that stays as it was stays vouched for.
LEMMA VouchedStays ==
    ASSUME Inv, NEW b \in Customers, NEW f \in Fields, Vouched(b, f), customers[b] # None,
           Extended, events \subseteq events',
           customers'[b].provenance[f] = customers[b].provenance[f],
           customers'[b].state[f] = customers[b].state[f]
    PROVE  Vouched(b, f)'
  <1> DEFINE p == customers[b].provenance[f]
  <1>1. p \in Provenances \cup {None}
    BY RowType DEF Inv, TypeOK
  <1>2. ASSUME p # None
        PROVE  <<p.source, p.subject>> \in Subjects
    <2>1. PICK d \in Deliveries : p = ProvenanceOf(d)
      BY <1>1, <1>2 DEF Provenances, ProvenanceOf
    <2>2. <<p.source, p.subject>> = SubjectOf(d)
      BY <2>1, DeliveryType DEF SubjectOf
    <2> QED
      BY <2>2, DeliveryType
  <1>3. ASSUME p # None
        PROVE  identities'[<<p.source, p.subject>>] = b
    <2>1. identities[<<p.source, p.subject>>] = b /\ b # None
      BY <1>3, GovernanceAssumption DEF Vouched
    <2> QED
      BY <2>1, <1>2, <1>3 DEF Extended
  <1>4. ASSUME p # None
        PROVE  \E x \in events' :
                   /\ x.customer = b
                   /\ f \in x.accepted
                   /\ ProvenanceOf(x.delivery) = p
                   /\ x.delivery.attributes[f] = customers'[b].state[f]
    <2>1. PICK x \in events :
                   /\ x.customer = b
                   /\ f \in x.accepted
                   /\ ProvenanceOf(x.delivery) = p
                   /\ x.delivery.attributes[f] = customers[b].state[f]
      BY <1>4 DEF Vouched
    <2> QED
      BY <2>1
  <1>5. p # None => Owners[f] = p.source
    BY DEF Vouched
  <1> QED
    BY <1>3, <1>4, <1>5 DEF Vouched

LEMMA TakenProvenance ==
    ASSUME Inv, NEW d \in Deliveries, NEW c \in Customers, Taken(d, c)
    PROVE  ProvenanceTrue'
  <1> SUFFICES ASSUME NEW b \in Customers, customers'[b] # None, NEW f \in Fields
               PROVE  Vouched(b, f)'
    BY VouchedAllNext
  <1>0. Extended /\ events \subseteq events'
    BY TakenFacts DEF Taken
  <1>1. ASSUME b # c \/ (f \notin Accepted(d, Row(c)) /\ customers[c] # None)
        PROVE  Vouched(b, f)'
    <2>1. customers[b] # None
      BY <1>1, TakenFacts
    <2>2. /\ customers'[b].provenance[f] = customers[b].provenance[f]
          /\ customers'[b].state[f] = customers[b].state[f]
      <3>1. CASE b # c
        BY <3>1, TakenFacts
      <3>2. CASE b = c
        <4>1. f \notin Accepted(d, Row(c)) /\ Row(c) = customers[c] /\ Row(c) \in CustomerRecords
          BY <3>2, <1>1, RowFacts
        <4> QED
          BY <3>2, <4>1, TakenFacts, OtherField
      <3> QED
        BY <3>1, <3>2
    <2>3. Vouched(b, f)
      BY <2>1, VouchedAll DEF Inv
    <2> QED
      BY <1>0, <2>1, <2>2, <2>3, VouchedStays
  <1>2. ASSUME b = c, f \in Accepted(d, Row(c))
        PROVE  Vouched(b, f)'
    <2>1. Row(c) \in CustomerRecords /\ StateOK(Row(c).state)
      BY RowFacts
    <2>2. /\ customers'[c].provenance[f] = ProvenanceOf(d)
          /\ customers'[c].state[f] = d.attributes[f]
          /\ Owners[f] = d.source
      BY <1>2, <2>1, AcceptedField, TakenFacts
    <2>3. /\ Entry(d, c) \in events'
          /\ Entry(d, c).customer = c
          /\ Entry(d, c).delivery = d
          /\ f \in Entry(d, c).accepted
      BY <1>2, TakenFacts DEF Entry
    <2>4. identities'[<<d.source, d.subject>>] = c
      BY DEF Taken, SubjectOf
    <2>5. ProvenanceOf(d).source = d.source /\ ProvenanceOf(d).subject = d.subject
      BY DeliveryType
    <2> QED
      BY <1>2, <2>2, <2>3, <2>4, <2>5 DEF Vouched
  <1>3. ASSUME b = c, f \notin Accepted(d, Row(c)), customers[c] = None
        PROVE  Vouched(b, f)'
    <2>1. Row(c) = NewCustomer /\ Row(c) \in CustomerRecords
      BY <1>3, RowFacts
    <2>2. customers'[c].provenance[f] = None
      BY <1>3, <2>1, OtherField, TakenFacts, NewCustomerType
    <2> QED
      BY <1>3, <2>2 DEF Vouched
  <1> QED
    BY <1>1, <1>2, <1>3

LEMMA TakenNewest ==
    ASSUME Inv, NEW d \in Deliveries, NEW c \in Customers, Taken(d, c)
    PROVE  NothingNewerLost'
  <1> DEFINE row == Row(c)
  <1>0. /\ row \in CustomerRecords
        /\ StateOK(row.state)
        /\ row.provenance["lifecycle"] = None => row.state["lifecycle"] = Lead
    BY RowFacts
  <1> SUFFICES ASSUME NEW x \in events', x.customer # None,
                      NEW f \in DOMAIN x.delivery.attributes,
                      Owners[f] = x.delivery.source
               PROVE  /\ customers'[x.customer].provenance[f] # None
                      /\ \/ customers'[x.customer].provenance[f].sequence
                                >= x.delivery.sequence
                         \/ /\ f = "lifecycle"
                            /\ customers'[x.customer].state[f]
                                   > x.delivery.attributes[f]
    BY DEF NothingNewerLost
  <1>1. CASE x \in events /\ x.customer # c
    <2>1. customers'[x.customer] = customers[x.customer]
      BY <1>1, LogEntry, TakenFacts
    <2> QED
      BY <1>1, <2>1 DEF Inv, NothingNewerLost
  <1>2. CASE x \in events /\ x.customer = c
    <2>1. customers[c] # None /\ row = customers[c] /\ x.delivery \in Deliveries
      BY <1>2, LogEntry, RowFacts
    <2>2. /\ row.provenance[f] # None
          /\ \/ row.provenance[f].sequence >= x.delivery.sequence
             \/ f = "lifecycle" /\ row.state[f] > x.delivery.attributes[f]
      BY <1>2, <2>1 DEF Inv, NothingNewerLost
    <2>3. f \in Fields /\ x.delivery.sequence \in Nat
          /\ x.delivery.attributes[f] \in ValuesOf(f)
      BY <2>1, DeliveryType
    <2>4. CASE f \in Accepted(d, row)
      <3>1. /\ customers'[c].provenance[f] = ProvenanceOf(d)
            /\ customers'[c].state[f] = d.attributes[f]
            /\ d.sequence > row.provenance[f].sequence
            /\ f = "lifecycle" => d.attributes[f] >= row.state[f]
            /\ f \in DOMAIN d.attributes
        BY <2>2, <2>4, <1>0, AcceptedField, TakenFacts
      <3>2. /\ ProvenanceOf(d) # None
            /\ ProvenanceOf(d).sequence = d.sequence
            /\ d.sequence \in Nat
            /\ row.provenance[f].sequence \in Nat
        BY <1>0, <2>2, <2>3, DeliveryType, ProvenanceType, RowType
      <3>3. CASE row.provenance[f].sequence >= x.delivery.sequence
        BY <3>1, <3>2, <3>3, <2>3, <1>2
      <3>4. CASE f = "lifecycle" /\ row.state[f] > x.delivery.attributes[f]
        <4>1. /\ d.attributes[f] \in Stages
              /\ row.state[f] \in Stages
              /\ x.delivery.attributes[f] \in Stages
          BY <3>4, <3>1, <2>3, <1>0, DeliveryType, FieldNames DEF StateOK
        <4>2. d.attributes[f] > x.delivery.attributes[f]
          BY <4>1, <3>1, <3>4 DEF Stages
        <4> QED
          BY <4>2, <3>1, <3>2, <3>4, <1>2
      <3> QED
        BY <2>2, <3>3, <3>4
    <2>5. CASE f \notin Accepted(d, row)
      <3>1. /\ customers'[c].provenance[f] = row.provenance[f]
            /\ customers'[c].state[f] = row.state[f]
        BY <2>3, <2>5, <1>0, OtherField, TakenFacts
      <3> QED
        BY <3>1, <2>2, <1>2
    <2> QED
      BY <2>4, <2>5
  <1>3. CASE x = Entry(d, c)
    <2>1. x.delivery = d /\ x.customer = c
      BY <1>3 DEF Entry
    <2>2. /\ d.sequence \in Nat /\ f \in Fields
          /\ ProvenanceOf(d) # None /\ ProvenanceOf(d).sequence = d.sequence
      BY <2>1, DeliveryType, ProvenanceType
    <2>3. CASE f \in Accepted(d, row)
      <3>1. customers'[c].provenance[f] = ProvenanceOf(d)
        BY <2>3, <1>0, AcceptedField, TakenFacts
      <3> QED
        BY <2>1, <2>2, <3>1
    <2>4. CASE f \notin Accepted(d, row)
      <3>1. /\ customers'[c].provenance[f] = row.provenance[f]
            /\ customers'[c].state[f] = row.state[f]
        BY <2>2, <2>4, <1>0, OtherField, TakenFacts
      <3>2. /\ row.provenance[f] # None
            /\ \/ d.sequence <= row.provenance[f].sequence
               \/ f = "lifecycle" /\ d.attributes[f] < row.state[f]
        BY <2>1, <2>4, <1>0, RefusedField
      <3>3. row.provenance[f].sequence \in Nat
        BY <2>2, <3>2, <1>0, RowType, ProvenanceType
      <3>4. CASE d.sequence <= row.provenance[f].sequence
        BY <2>1, <2>2, <3>1, <3>2, <3>3, <3>4
      <3>5. CASE f = "lifecycle" /\ d.attributes[f] < row.state[f]
        <4>1. d.attributes[f] \in Stages /\ row.state[f] \in Stages
          BY <3>5, <2>1, <1>0, DeliveryType, FieldNames DEF StateOK
        <4>2. row.state[f] > d.attributes[f]
          BY <4>1, <3>5 DEF Stages
        <4> QED
          BY <4>2, <3>1, <3>2, <3>5, <2>1
      <3> QED
        BY <3>2, <3>4, <3>5
    <2> QED
      BY <2>3, <2>4
  <1> QED
    BY <1>1, <1>2, <1>3, TakenFacts

\* The events that a customer accepted something of.
Counted(c) == {x \in events : x.customer = c /\ x.accepted # {}}

LEMMA TakenRevisions ==
    ASSUME Inv, NEW d \in Deliveries, NEW c \in Customers, Taken(d, c)
    PROVE  RevisionCounts'
  <1> DEFINE row == Row(c)
             e == Entry(d, c)
  <1>0. row \in CustomerRecords /\ StateOK(row.state)
    BY RowFacts
  <1>1. events' = events \cup {e} /\ e \notin events
    BY TakenFacts
  <1>2. e.customer = c /\ e.accepted = Accepted(d, row)
    BY DEF Entry
  <1> SUFFICES ASSUME NEW b \in Customers, customers'[b] # None
               PROVE  customers'[b].revision
                          = Cardinality({x \in events' : x.customer = b /\ x.accepted # {}})
    BY DEF RevisionCounts
  <1>3. CASE b # c
    <2>1. {x \in events' : x.customer = b /\ x.accepted # {}} = Counted(b)
      BY <1>1, <1>2, <1>3 DEF Counted
    <2>2. customers'[b] = customers[b]
      BY <1>3, TakenFacts
    <2> QED
      BY <2>1, <2>2 DEF Inv, RevisionCounts, Counted
  <1>4. CASE b = c
    <2>1. row.revision = Cardinality(Counted(c))
      <3>1. CASE customers[c] = None
        <4>1. Counted(c) = {}
          BY <3>1, TakenFacts, LogEntry DEF Counted
        <4> QED
          BY <3>1, <4>1, RowFacts, NewCustomerType, FS_EmptySet
      <3>2. CASE customers[c] # None
        BY <3>2, RowFacts DEF Inv, RevisionCounts, Counted
      <3> QED
        BY <3>1, <3>2
    <2>2. IsFiniteSet(Counted(c)) /\ e \notin Counted(c)
      <3>1. Counted(c) \subseteq events
        BY DEF Counted
      <3> QED
        BY <3>1, <1>1, FS_Subset DEF Inv, TypeOK
    <2>3. customers'[c].revision = NextRevision(d, row)
      BY TakenFacts
    <2>4. CASE Accepted(d, row) # {}
      <3>1. {x \in events' : x.customer = c /\ x.accepted # {}} = Counted(c) \cup {e}
        BY <1>1, <1>2, <2>4 DEF Counted
      <3>2. Cardinality(Counted(c) \cup {e}) = Cardinality(Counted(c)) + 1
        BY <2>2, FS_AddElement
      <3> QED
        BY <1>4, <2>1, <2>3, <2>4, <3>1, <3>2, <1>0, RevisionStep
    <2>5. CASE Accepted(d, row) = {}
      <3>1. {x \in events' : x.customer = c /\ x.accepted # {}} = Counted(c)
        BY <1>1, <1>2, <2>5 DEF Counted
      <3> QED
        BY <1>4, <2>1, <2>3, <2>5, <3>1, <1>0, RevisionStep
    <2> QED
      BY <2>4, <2>5
  <1> QED
    BY <1>3, <1>4

\* One pair of entries whose email stands at two customers.
Twins(x, y) ==
    /\ x.customer # None /\ y.customer # None /\ x.customer # y.customer
    /\ "email" \in x.accepted /\ "email" \in y.accepted
    /\ x.delivery.attributes["email"] = y.delivery.attributes["email"]
    /\ customers[x.customer].provenance["email"] = ProvenanceOf(x.delivery)
    /\ customers[y.customer].provenance["email"] = ProvenanceOf(y.delivery)

LEMMA TwinsAll ==
    /\ EmailsCreatedApart
           <=> \A x, y \in events : Twins(x, y) => x.revision > 1 \/ y.revision > 1
    /\ EmailsCreatedApart'
           <=> \A x, y \in events' : Twins(x, y)' => x.revision > 1 \/ y.revision > 1
  BY DEF EmailsCreatedApart, Twins

\* The email of an entry that stands is the customer's email.
LEMMA StandingEmail ==
    ASSUME Inv, NEW y \in events, y.customer # None,
           customers[y.customer].provenance["email"] = ProvenanceOf(y.delivery)
    PROVE  customers[y.customer].state["email"] = y.delivery.attributes["email"]
  <1>1. y.delivery \in Deliveries /\ y.customer \in Customers /\ customers[y.customer] # None
    BY LogEntry
  <1>2. ProvenanceOf(y.delivery) # None
    BY <1>1, DeliveryType, ProvenanceType
  <1>0. Vouched(y.customer, "email")
    BY <1>1, VouchedAll, FieldNames DEF Inv
  <1>3. PICK x \in events :
            /\ ProvenanceOf(x.delivery) = ProvenanceOf(y.delivery)
            /\ x.delivery.attributes["email"] = customers[y.customer].state["email"]
    BY <1>0, <1>2 DEF Vouched
  <1>4. Id(x.delivery) = Id(y.delivery)
    BY <1>1, <1>3, LogEntry, DeliveryType DEF Id
  <1> QED
    BY <1>3, <1>4 DEF Inv, LogTrue

\* The new entry makes no twins at its customer's first revision.
LEMMA NoNewTwins ==
    ASSUME Inv, NEW d \in Deliveries, NEW c \in Customers, Taken(d, c),
           NEW y \in events, y.customer # None, y.customer # c,
           "email" \in Accepted(d, Row(c)),
           d.attributes["email"] = y.delivery.attributes["email"],
           customers[y.customer].provenance["email"] = ProvenanceOf(y.delivery)
    PROVE  NextRevision(d, Row(c)) > 1
  <1>1. y.customer \in Customers /\ customers[y.customer] # None
    BY LogEntry
  <1>2. customers[y.customer].state["email"] = d.attributes["email"]
    BY StandingEmail
  <1>3. customers[c] # None
    BY <1>1, <1>2 DEF Taken, Founding
  <1>4. /\ Row(c) \in CustomerRecords
        /\ StateOK(Row(c).state)
        /\ Row(c).revision >= 1
        /\ Row(c).revision \in Nat
    BY <1>3, RowFacts, RowType
  <1> QED
    BY <1>4, RevisionStep

LEMMA TakenEmails ==
    ASSUME Inv, NEW d \in Deliveries, NEW c \in Customers, Taken(d, c)
    PROVE  EmailsCreatedApart'
  <1> DEFINE row == Row(c)
             e == Entry(d, c)
  <1>0. row \in CustomerRecords /\ StateOK(row.state)
    BY RowFacts
  <1>1. events' = events \cup {e}
    BY TakenFacts
  <1>2. /\ e.delivery = d /\ e.customer = c
        /\ e.accepted = Accepted(d, row)
        /\ e.revision = NextRevision(d, row)
    BY DEF Entry
  <1>3. ASSUME NEW x \in events, x.customer # None,
               customers'[x.customer].provenance["email"] = ProvenanceOf(x.delivery)
        PROVE  customers[x.customer].provenance["email"] = ProvenanceOf(x.delivery)
    <2>1. x.delivery \in Deliveries /\ x.customer \in Customers /\ customers[x.customer] # None
      BY <1>3, LogEntry
    <2>2. CASE x.customer # c
      BY <1>3, <2>1, <2>2, TakenFacts
    <2>3. CASE x.customer = c /\ "email" \notin Accepted(d, row)
      <3>1. row = customers[c]
        BY <2>1, <2>3, RowFacts
      <3> QED
        BY <1>0, <1>3, <2>3, <3>1, OtherField, TakenFacts, FieldNames
    <2>4. CASE x.customer = c /\ "email" \in Accepted(d, row)
      <3>1. ProvenanceOf(d) = ProvenanceOf(x.delivery)
        BY <1>0, <1>3, <2>4, AcceptedField, TakenFacts
      <3>2. Id(d) = Id(x.delivery)
        BY <2>1, <3>1, DeliveryType DEF Id
      <3> QED
        BY <3>2 DEF Taken, Logged
    <2> QED
      BY <2>2, <2>3, <2>4
  <1>4. ASSUME NEW x \in events', NEW y \in events', Twins(x, y)'
        PROVE  x.revision > 1 \/ y.revision > 1
    <2>0. /\ x.customer # None /\ y.customer # None /\ x.customer # y.customer
          /\ "email" \in x.accepted /\ "email" \in y.accepted
          /\ x.delivery.attributes["email"] = y.delivery.attributes["email"]
          /\ customers'[x.customer].provenance["email"] = ProvenanceOf(x.delivery)
          /\ customers'[y.customer].provenance["email"] = ProvenanceOf(y.delivery)
      BY <1>4 DEF Twins
    <2> HIDE DEF e, row
    <2>1. CASE x \in events /\ y \in events
      <3>1. Twins(x, y)
        BY <2>0, <2>1, <1>3 DEF Twins
      <3> QED
        BY <2>1, <3>1, TwinsAll DEF Inv
    <2>2. CASE x = e /\ y \in events
      <3>1. customers[y.customer].provenance["email"] = ProvenanceOf(y.delivery)
        BY <2>0, <2>2, <1>3
      <3>2. NextRevision(d, Row(c)) > 1
        BY <2>0, <2>2, <3>1, <1>2, NoNewTwins DEF row
      <3> QED
        BY <2>2, <3>2, <1>2 DEF row
    <2>3. CASE y = e /\ x \in events
      <3>1. customers[x.customer].provenance["email"] = ProvenanceOf(x.delivery)
        BY <2>0, <2>3, <1>3
      <3>2. NextRevision(d, Row(c)) > 1
        BY <2>0, <2>3, <3>1, <1>2, NoNewTwins DEF row
      <3> QED
        BY <2>3, <3>2, <1>2 DEF row
    <2>4. CASE x = e /\ y = e
      BY <2>0, <2>4
    <2> QED
      BY <1>1, <2>1, <2>2, <2>3, <2>4
  <1> QED
    BY <1>4, TwinsAll

LEMMA TakenRefusals ==
    ASSUME Inv, NEW d \in Deliveries, NEW c \in Customers, Taken(d, c)
    PROVE  RefusalsAreReviewed'
  <1>1. exceptions \subseteq exceptions'
    BY DEF Taken, Process
  <1> SUFFICES ASSUME NEW x \in events',
                      x.customer = None \/ x.accepted # DOMAIN x.delivery.attributes
               PROVE  \E q \in exceptions' : q.delivery = x.delivery
    BY DEF RefusalsAreReviewed
  <1>2. CASE x \in events
    BY <1>1, <1>2 DEF Inv, RefusalsAreReviewed
  <1>3. CASE x = Entry(d, c)
    <2>1. Accepted(d, Row(c)) # DOMAIN d.attributes /\ x.delivery = d
      BY <1>3, TakenFacts DEF Entry
    <2>2. [category |-> "field_governance", delivery |-> d] \in exceptions'
      BY <2>1 DEF Taken, Process, Refused
    <2> QED
      BY <2>1, <2>2
  <1> QED
    BY <1>2, <1>3, TakenFacts

-----------------------------------------------------------------------------
(***************************************************************************)
(* The invariant.                                                          *)
(***************************************************************************)

\* No transaction is open: nothing is looked up.
LEMMA Idle ==
    ASSUME Busy' = {}
    PROVE  OneTransaction' /\ LookedUp'
  BY DEF OneTransaction, LookedUp

LEMMA Ends ==
    ASSUME Inv, NEW a \in Apis, conns[a] # None,
           conns' = [conns EXCEPT ![a] = None]
    PROVE  /\ Busy' = {}
           /\ conns' \in [Apis -> Transactions \cup {None}]
           /\ a \in Busy
           /\ conns[a].delivery \in Deliveries
           /\ conns[a].identity = identities[SubjectOf(conns[a].delivery)]
           /\ conns[a].candidates = Candidates(conns[a].delivery)
           /\ identities[SubjectOf(conns[a].delivery)] \in Customers \cup {None}
  <1>1. a \in Busy
    BY DEF Busy
  <1>2. conns' \in [Apis -> Transactions \cup {None}] /\ conns[a] \in Transactions
    BY DEF Inv, TypeOK
  <1>3. \A b \in Apis : conns'[b] = None
    BY <1>1, <1>2 DEF Inv, TypeOK, OneTransaction, Busy
  <1>4. conns[a].delivery \in Deliveries
    BY <1>2 DEF Transactions
  <1> QED
    BY <1>1, <1>2, <1>3, <1>4, DeliveryType DEF Inv, TypeOK, LookedUp, Busy

LEMMA InitInv ==
    ASSUME Init
    PROVE  Inv
  <1>1. TypeOK
    BY FS_EmptySet DEF Init, TypeOK
  <1>2. \A c \in Customers : customers[c] = None
    BY DEF Init
  <1>3. events = {} /\ Busy = {} /\ \A s \in Subjects : identities[s] = None
    BY DEF Init, Busy
  <1>4. OneTransaction /\ LookedUp
    BY <1>3 DEF OneTransaction, LookedUp
  <1>5. Bindings /\ LogTrue /\ RowsTrue
    BY <1>2, <1>3 DEF Bindings, LogTrue, RowsTrue
  <1>6. ProvenanceTrue /\ RevisionCounts
    BY <1>2 DEF ProvenanceTrue, RevisionCounts
  <1>7. NothingNewerLost /\ EmailsCreatedApart /\ RefusalsAreReviewed
    BY <1>3 DEF NothingNewerLost, EmailsCreatedApart, RefusalsAreReviewed
  <1> QED
    BY <1>1, <1>4, <1>5, <1>6, <1>7 DEF Inv

\* The tables stay as they are.
LEMMA TablesStay ==
    ASSUME Inv, UNCHANGED <<events, identities, customers>>
    PROVE  /\ Bindings' /\ LogTrue' /\ RowsTrue'
           /\ ProvenanceTrue' /\ NothingNewerLost' /\ RevisionCounts' /\ EmailsCreatedApart'
  <1>1. Bindings' /\ LogTrue' /\ RowsTrue'
    BY DEF Inv, Bindings, LogTrue, RowsTrue
  <1>2. ProvenanceTrue' /\ NothingNewerLost'
    BY DEF Inv, ProvenanceTrue, NothingNewerLost
  <1>3. RevisionCounts'
    BY DEF Inv, RevisionCounts
  <1>4. EmailsCreatedApart'
    <2>1. \A x, y \in events : Twins(x, y)' <=> Twins(x, y)
      BY DEF Twins
    <2> QED
      BY <2>1, TwinsAll DEF Inv
  <1> QED
    BY <1>1, <1>2, <1>3, <1>4

LEMMA BeginInv ==
    ASSUME Inv, NEW a \in Apis, NEW d \in Deliveries, Begin(a, d)
    PROVE  Inv'
  <1> DEFINE t == [delivery |-> d, identity |-> identities[SubjectOf(d)],
                   candidates |-> Candidates(d)]
  <1>1. t \in Transactions /\ t # None
    BY DeliveryType, GovernanceNoneAssumption DEF Inv, TypeOK, Transactions, Candidates
  <1>2. conns' = [conns EXCEPT ![a] = t] /\ Busy = {}
    BY DEF Begin, Locked
  <1>3. TypeOK'
    BY <1>1, <1>2 DEF Inv, TypeOK, Begin
  <1>4. Busy' = {a} /\ conns'[a] = t
    BY <1>1, <1>2 DEF Inv, TypeOK, Busy
  <1>5. OneTransaction'
    BY <1>4 DEF OneTransaction
  <1>6. LookedUp'
    <2>1. Candidates(d)' = Candidates(d) /\ Logged(d)' = Logged(d)
      BY DEF Begin, Candidates, Logged
    <2>2. identities' = identities /\ ~Logged(d)
      BY DEF Begin
    <2> QED
      BY <1>4, <2>1, <2>2 DEF LookedUp
  <1>7. UNCHANGED <<events, identities, customers, exceptions>>
    BY DEF Begin
  <1> QED
    BY <1>3, <1>5, <1>6, <1>7, TablesStay DEF Inv, RefusalsAreReviewed

LEMMA ConflictInv ==
    ASSUME Inv, NEW d \in Deliveries, Conflict(d)
    PROVE  Inv'
  <1>1. UNCHANGED <<events, identities, customers, conns>>
    BY DEF Conflict
  <1>2. TypeOK'
    BY DEF Conflict, Inv, TypeOK, Categories
  <1>3. RefusalsAreReviewed'
    BY DEF Conflict, Inv, RefusalsAreReviewed
  <1>4. Busy' = {}
    BY <1>1 DEF Conflict, Locked, Busy
  <1> QED
    BY <1>1, <1>2, <1>3, <1>4, TablesStay, Idle DEF Inv

LEMMA TakenInv ==
    ASSUME Inv, NEW d \in Deliveries, NEW c \in Customers, Taken(d, c), Bindings',
           Busy' = {}, conns' \in [Apis -> Transactions \cup {None}]
    PROVE  Inv'
  BY Idle, TakenType, TakenLog, TakenRows, TakenProvenance, TakenNewest, TakenRevisions,
     TakenEmails, TakenRefusals
     DEF Inv

\* An ingestion for a known subject is a Taken of its customer.
LEMMA ApplyTakes ==
    ASSUME Inv, NEW a \in Apis, Apply(a)
    PROVE  /\ conns[a].delivery \in Deliveries
           /\ conns[a].identity \in Customers
           /\ conns[a].identity = identities[SubjectOf(conns[a].delivery)]
           /\ Taken(conns[a].delivery, conns[a].identity)
           /\ Row(conns[a].identity) = customers[conns[a].identity]
  <1> DEFINE d == conns[a].delivery
             c == conns[a].identity
  <1>1. /\ d \in Deliveries
        /\ c \in Customers /\ c # None
        /\ c = identities[SubjectOf(d)]
        /\ SubjectOf(d) \in Subjects
    BY Ends, DeliveryType DEF Apply
  <1>2. customers[c] # None
    BY <1>1 DEF Inv, Bindings
  <1>3. Row(c) = customers[c] /\ Founding(d, c)
    BY <1>2 DEF Row, Founding
  <1>4. ~Logged(d) /\ Process(d, c, Row(c)) /\ identities' = identities
    BY <1>3 DEF Apply
  <1>5. Extended
    BY <1>4 DEF Extended, Inv, TypeOK
  <1> QED
    BY <1>1, <1>3, <1>4, <1>5 DEF Taken

LEMMA ApplyInv ==
    ASSUME Inv, NEW a \in Apis, Apply(a)
    PROVE  Inv'
  <1> DEFINE d == conns[a].delivery
             c == conns[a].identity
  <1>1. d \in Deliveries /\ c \in Customers /\ Taken(d, c)
    BY ApplyTakes
  <1>2. Busy' = {} /\ conns' \in [Apis -> Transactions \cup {None}]
    BY Ends DEF Apply
  <1>3. identities' = identities
    BY DEF Apply
  <1>4. \A b \in Customers : customers[b] # None => customers'[b] # None
    BY <1>1, TakenFacts
  <1>5. Bindings'
    BY <1>3, <1>4 DEF Bindings, Inv, TypeOK
  <1> QED
    BY <1>1, <1>2, <1>5, TakenInv

\* The first delivery of a new customer is accepted.
LEMMA FirstAccepted ==
    ASSUME NEW d \in Deliveries, d.source = "crm", "email" \in DOMAIN d.attributes
    PROVE  "email" \in Accepted(d, NewCustomer)
  <1>1. NewCustomer.provenance["email"] = None /\ Owners["email"] = "crm"
    BY NewCustomerType, FieldNames
  <1>2. field_decision(d, "email", NewCustomer) = "accepted"
    BY <1>1 DEF field_decision
  <1> QED
    BY <1>2 DEF Accepted

\* A creation is a Taken of a new customer, whom it binds the subject to.
LEMMA CreateTakes ==
    ASSUME Inv, NEW a \in Apis, Create(a)
    PROVE  \E c \in Customers :
               /\ conns[a].delivery \in Deliveries
               /\ customers[c] = None
               /\ identities[SubjectOf(conns[a].delivery)] = None
               /\ identities' = [identities EXCEPT ![SubjectOf(conns[a].delivery)] = c]
               /\ Taken(conns[a].delivery, c)
               /\ Row(c) = NewCustomer
  <1> DEFINE d == conns[a].delivery
  <1>1. /\ d \in Deliveries
        /\ SubjectOf(d) \in Subjects
        /\ conns[a].candidates = Candidates(d)
    BY Ends, DeliveryType DEF Create
  <1>2. PICK c \in Customers :
            /\ customers[c] = None
            /\ identities' = [identities EXCEPT ![SubjectOf(d)] = c]
            /\ Process(d, c, NewCustomer)
    BY DEF Create
  <1>3. identities[SubjectOf(d)] = None /\ ~Logged(d) /\ MayCreate(conns[a])
    BY DEF Create
  <1>4. /\ d.source = "crm"
        /\ "email" \in DOMAIN d.attributes
        /\ Candidates(d) = {}
    BY <1>1, <1>3 DEF MayCreate
  <1>5. Row(c) = NewCustomer
    BY <1>2 DEF Row
  <1>6. Founding(d, c)
    BY <1>1, <1>4, FirstAccepted DEF Founding, Candidates
  <1>7. Extended /\ identities'[SubjectOf(d)] = c
    BY <1>1, <1>2, <1>3 DEF Extended, Inv, TypeOK
  <1> QED
    BY <1>1, <1>2, <1>3, <1>5, <1>6, <1>7 DEF Taken

LEMMA CreateInv ==
    ASSUME Inv, NEW a \in Apis, Create(a)
    PROVE  Inv'
  <1> DEFINE d == conns[a].delivery
  <1>1. PICK c \in Customers :
            /\ d \in Deliveries
            /\ customers[c] = None
            /\ identities[SubjectOf(d)] = None
            /\ identities' = [identities EXCEPT ![SubjectOf(d)] = c]
            /\ Taken(d, c)
    BY CreateTakes
  <1>2. Busy' = {} /\ conns' \in [Apis -> Transactions \cup {None}]
    BY Ends DEF Create
  <1>3. customers'[c] # None /\ \A b \in Customers : b # c => customers'[b] = customers[b]
    BY <1>1, TakenFacts
  <1>4. /\ identities \in [Subjects -> Customers \cup {None}]
        /\ SubjectOf(d) \in Subjects
    BY <1>1, DeliveryType DEF Inv, TypeOK
  <1>5. \A s \in Subjects : identities[s] # c
    BY <1>1, <1>3, <1>4, TakenFacts DEF Inv, Bindings
  <1>6. /\ identities'[SubjectOf(d)] = c
        /\ \A s \in Subjects : s # SubjectOf(d) => identities'[s] = identities[s]
    BY <1>1, <1>4
  <1>7. \A s \in Subjects : identities'[s] # None => customers'[identities'[s]] # None
    BY <1>3, <1>4, <1>5, <1>6 DEF Inv, Bindings
  <1>8. \A s, t \in Subjects :
            /\ s[1] = t[1] /\ identities'[s] = identities'[t] /\ identities'[s] # None
            => s = t
    BY <1>5, <1>6 DEF Inv, Bindings
  <1>9. Bindings'
    BY <1>7, <1>8 DEF Bindings
  <1> QED
    BY <1>1, <1>2, <1>9, TakenInv

LEMMA SetAsideInv ==
    ASSUME Inv, NEW a \in Apis, SetAside(a)
    PROVE  Inv'
  <1> DEFINE d == conns[a].delivery
             e == [delivery |-> d, customer |-> None, accepted |-> {}, revision |-> 0]
  <1>1. /\ d \in Deliveries /\ Busy' = {} /\ conns' \in [Apis -> Transactions \cup {None}]
        /\ ~Logged(d)
        /\ events' = events \cup {e}
        /\ UNCHANGED <<identities, customers>>
    BY Ends DEF SetAside
  <1>2. PICK reason \in Categories :
            exceptions' = exceptions \cup {[category |-> reason, delivery |-> d]}
    BY DEF SetAside, Categories
  <1>3. e.delivery = d /\ e.customer = None /\ e.accepted = {} /\ e \in LogRecords
    BY <1>1 DEF LogRecords
  <1> HIDE DEF e
  <1>4. TypeOK'
    BY <1>1, <1>2, <1>3, FS_AddElement DEF Inv, TypeOK
  <1>5. Bindings' /\ RowsTrue'
    BY <1>1 DEF Inv, Bindings, RowsTrue
  <1>6. LogTrue'
    <2>1. \A x \in events : Id(x.delivery) # Id(d)
      BY <1>1 DEF Logged
    <2> QED
      BY <1>1, <1>3, <2>1 DEF Inv, LogTrue
  <1>7. ProvenanceTrue'
    <2>1. Extended
      BY <1>1 DEF Extended, Inv, TypeOK
    <2>2. \A c \in Customers : customers'[c] # None => \A f \in Fields : Vouched(c, f)'
      BY <1>1, <2>1, VouchedAll, VouchedStays DEF Inv
    <2> QED
      BY <2>2, VouchedAllNext
  <1>8. NothingNewerLost'
    BY <1>1, <1>3 DEF Inv, NothingNewerLost
  <1>9. RevisionCounts'
    <2>1. \A c \in Customers :
              {x \in events' : x.customer = c /\ x.accepted # {}}
                  = {x \in events : x.customer = c /\ x.accepted # {}}
      BY <1>1, <1>3
    <2> QED
      BY <1>1, <2>1 DEF Inv, RevisionCounts
  <1>10. EmailsCreatedApart'
    <2>1. ASSUME NEW x \in events', NEW y \in events', Twins(x, y)'
          PROVE  x.revision > 1 \/ y.revision > 1
      <3>1. x \in events /\ y \in events
        BY <2>1, <1>1, <1>3 DEF Twins
      <3>2. Twins(x, y)
        BY <2>1, <1>1 DEF Twins
      <3> QED
        BY <3>1, <3>2, TwinsAll DEF Inv
    <2> QED
      BY <2>1, TwinsAll
  <1>11. RefusalsAreReviewed'
    <2>1. [category |-> reason, delivery |-> d].delivery = d
      OBVIOUS
    <2>2. \E q \in exceptions' : q.delivery = e.delivery
      BY <1>2, <1>3, <2>1
    <2>3. \A x \in events :
              x.customer = None \/ x.accepted # DOMAIN x.delivery.attributes
                  => \E q \in exceptions' : q.delivery = x.delivery
      BY <1>2 DEF Inv, RefusalsAreReviewed
    <2> QED
      BY <1>1, <2>2, <2>3 DEF RefusalsAreReviewed
  <1> QED
    BY <1>1, <1>4, <1>5, <1>6, <1>7, <1>8, <1>9, <1>10, <1>11, Idle DEF Inv

LEMMA AbortInv ==
    ASSUME Inv, NEW a \in Apis, Abort(a)
    PROVE  Inv'
  <1>1. Busy' = {} /\ conns' \in [Apis -> Transactions \cup {None}]
    BY Ends DEF Abort
  <1>2. UNCHANGED <<events, identities, customers, exceptions>>
    BY DEF Abort
  <1>3. TypeOK' /\ RefusalsAreReviewed'
    BY <1>1, <1>2 DEF Inv, TypeOK, RefusalsAreReviewed
  <1> QED
    BY <1>1, <1>2, <1>3, Idle, TablesStay DEF Inv

LEMMA LinkExtends ==
    ASSUME Inv, NEW s \in Subjects, NEW c \in Customers, Link(s, c)
    PROVE  /\ Extended
           /\ identities' = [identities EXCEPT ![s] = c]
           /\ c # None
  BY GovernanceAssumption DEF Link, Linkable, Extended, Inv, TypeOK

LEMMA LinkInv ==
    ASSUME Inv, NEW s \in Subjects, NEW c \in Customers, Link(s, c)
    PROVE  Inv'
  <1>1. /\ UNCHANGED <<events, customers, exceptions, conns>>
        /\ customers[c] # None
        /\ \A t \in Subjects : t[1] = s[1] /\ identities[t] = c => t = s
    BY DEF Link, Linkable
  <1>2. Extended /\ identities' = [identities EXCEPT ![s] = c]
    BY LinkExtends
  <1>3. Busy' = {}
    BY <1>1 DEF Link, Locked, Busy
  <1>4. TypeOK'
    BY <1>1, <1>2 DEF Inv, TypeOK, Extended
  <1>5. /\ identities'[s] = c
        /\ \A t \in Subjects : t # s => identities'[t] = identities[t]
    BY <1>2 DEF Inv, TypeOK
  <1>6. \A t \in Subjects : identities'[t] # None => customers'[identities'[t]] # None
    BY <1>1, <1>5 DEF Inv, Bindings
  <1>7. \A t, u \in Subjects :
            /\ t[1] = u[1] /\ identities'[t] = identities'[u] /\ identities'[t] # None
            => t = u
    BY <1>1, <1>5 DEF Inv, Bindings
  <1>8. Bindings'
    BY <1>6, <1>7 DEF Bindings
  <1>9. LogTrue'
    <2>1. \A x \in events : SubjectOf(x.delivery) \in Subjects
      BY LogEntry, DeliveryType
    <2> QED
      BY <1>1, <1>2, <2>1 DEF Inv, LogTrue, Extended
  <1>10. ProvenanceTrue'
    <2>1. \A b \in Customers : customers'[b] # None => \A f \in Fields : Vouched(b, f)'
      BY <1>1, <1>2, VouchedAll, VouchedStays DEF Inv
    <2> QED
      BY <2>1, VouchedAllNext
  <1>11. RowsTrue' /\ NothingNewerLost' /\ RevisionCounts'
    BY <1>1 DEF Inv, RowsTrue, NothingNewerLost, RevisionCounts
  <1>12. EmailsCreatedApart'
    <2>1. \A x, y \in events : Twins(x, y)' <=> Twins(x, y)
      BY <1>1 DEF Twins
    <2> QED
      BY <1>1, <2>1, TwinsAll DEF Inv
  <1>13. RefusalsAreReviewed'
    BY <1>1 DEF Inv, RefusalsAreReviewed
  <1> QED
    BY <1>3, <1>4, <1>8, <1>9, <1>10, <1>11, <1>12, <1>13, Idle DEF Inv

LEMMA StutterInv ==
    ASSUME Inv, UNCHANGED vars
    PROVE  Inv'
  <1>1. TypeOK' /\ RefusalsAreReviewed'
    BY DEF Inv, TypeOK, RefusalsAreReviewed, vars
  <1>2. OneTransaction' /\ LookedUp'
    BY DEF Inv, OneTransaction, Busy, LookedUp, Candidates, Logged, vars
  <1> QED
    BY <1>1, <1>2, TablesStay DEF Inv, vars

\* Inv is inductive: the single holder of the lock writes what it looked up.
THEOREM Invariance == Spec => []Inv
  <1>1. Init => Inv
    BY InitInv
  <1>2. Inv /\ [Next]_vars => Inv'
    <2> SUFFICES ASSUME Inv, [Next]_vars
                 PROVE  Inv'
      OBVIOUS
    <2>1. ASSUME NEW d \in Deliveries, NEW a \in Apis, Begin(a, d)
          PROVE  Inv'
      BY <2>1, BeginInv
    <2>2. ASSUME NEW d \in Deliveries, Conflict(d)
          PROVE  Inv'
      BY <2>2, ConflictInv
    <2>3. ASSUME NEW a \in Apis, Apply(a)
          PROVE  Inv'
      BY <2>3, ApplyInv
    <2>4. ASSUME NEW a \in Apis, Create(a)
          PROVE  Inv'
      BY <2>4, CreateInv
    <2>5. ASSUME NEW a \in Apis, SetAside(a)
          PROVE  Inv'
      BY <2>5, SetAsideInv
    <2>6. ASSUME NEW a \in Apis, Abort(a)
          PROVE  Inv'
      BY <2>6, AbortInv
    <2>7. ASSUME NEW s \in Subjects, NEW c \in Customers, Link(s, c)
          PROVE  Inv'
      BY <2>7, LinkInv
    <2>8. CASE UNCHANGED vars
      BY <2>8, StutterInv
    <2> QED
      BY <2>1, <2>2, <2>3, <2>4, <2>5, <2>6, <2>7, <2>8 DEF Next
  <1> QED
    BY <1>1, <1>2, PTL DEF Spec

\* The tables of service.ingest and service.link keep the types of schema.sql.
THEOREM TypeCorrect == Spec => []TypeOK
  <1>1. Inv => TypeOK
    BY DEF Inv
  <1> QED
    BY <1>1, Invariance, PTL

\* Every value has the provenance it names, whatever deliveries race.
THEOREM ProvenanceIsTrue == Spec => []ProvenanceTrue
  <1>1. Inv => ProvenanceTrue
    BY DEF Inv
  <1> QED
    BY <1>1, Invariance, PTL

\* No order of deliveries loses the latest observation of a field's owner.
THEOREM LatestStands == Spec => []NothingNewerLost
  <1>1. Inv => NothingNewerLost
    BY DEF Inv
  <1> QED
    BY <1>1, Invariance, PTL

\* The revision of a customer counts the events that it took something of.
THEOREM RevisionsCount == Spec => []RevisionCounts
  <1>1. Inv => RevisionCounts
    BY DEF Inv
  <1> QED
    BY <1>1, Invariance, PTL

\* A customer never compares the sequences of two records of a source.
THEOREM OneRecordPerSource == Spec => []SequencesComparable
  <1>1. ASSUME Inv
        PROVE  SequencesComparable
    <2> SUFFICES ASSUME NEW x \in events, NEW y \in events, x.customer = y.customer,
                        x.customer # None, x.delivery.source = y.delivery.source
                 PROVE  x.delivery.subject = y.delivery.subject
      BY DEF SequencesComparable
    <2> DEFINE s == SubjectOf(x.delivery)
               t == SubjectOf(y.delivery)
    <2>1. s \in Subjects /\ t \in Subjects /\ s[1] = t[1]
      <3>1. x.delivery \in Deliveries /\ y.delivery \in Deliveries
        BY <1>1, LogEntry
      <3> QED
        BY <3>1, DeliveryType
    <2>2. identities[s] = x.customer /\ identities[t] = x.customer
      BY <1>1 DEF Inv, LogTrue
    <2>3. s = t
      BY <1>1, <2>1, <2>2 DEF Inv, Bindings
    <2> QED
      BY <2>3 DEF SubjectOf
  <1>2. Inv => SequencesComparable
    BY <1>1
  <1> QED
    BY <1>2, Invariance, PTL

\* No race of first deliveries creates two customers with one email.
THEOREM NoDoubleCreation == Spec => []EmailsCreatedApart
  <1>1. Inv => EmailsCreatedApart
    BY DEF Inv
  <1> QED
    BY <1>1, Invariance, PTL

\* Nothing that was delivered is refused without an exception to review.
THEOREM RefusalsAreVisible == Spec => []RefusalsAreReviewed
  <1>1. Inv => RefusalsAreReviewed
    BY DEF Inv
  <1> QED
    BY <1>1, Invariance, PTL

-----------------------------------------------------------------------------
(***************************************************************************)
(* Refinement of Registers.                                                *)
(***************************************************************************)
LEMMA StandingRow ==
    ASSUME Inv, NEW c \in Customers
    PROVE  Standing[c] = StandingOf(Row(c))
  <1>1. CASE customers[c] = None
    <2>1. StandingOf(NewCustomer) = [f \in Fields |-> None]
      BY NewCustomerType DEF StandingOf
    <2> QED
      BY <1>1, <2>1 DEF Standing, Row
  <1>2. CASE customers[c] # None
    BY <1>2 DEF Standing, Row
  <1> QED
    BY <1>1, <1>2

\* One delivery taken over moves the registers of the fields it is accepted for.
LEMMA TakenRegisters ==
    ASSUME Inv, NEW d \in Deliveries, NEW c \in Customers, Taken(d, c),
           \/ identities[SubjectOf(d)] = c /\ identities' = identities
           \/ identities[SubjectOf(d)] = None /\ R!Bind(SubjectOf(d), c)
    PROVE  R!Take(d, c, Accepted(d, Row(c)))
  <1> DEFINE row == Row(c)
             F == Accepted(d, row)
  <1>0. row \in CustomerRecords /\ StateOK(row.state) /\ c # None
    BY RowFacts, TakenFacts
  <1>1. R!Id(d) \notin Decided
    BY DEF R!Id, Decided, Taken, Logged, Id
  <1>2. Decided' = Decided \cup {R!Id(d)}
    <2>1. events' = events \cup {Entry(d, c)} /\ Entry(d, c).delivery = d
      BY TakenFacts DEF Entry
    <2> QED
      BY <2>1 DEF R!Id, Decided, Id
  <1>3. IF identities[R!SubjectOf(d)] = None THEN R!Bind(R!SubjectOf(d), c)
        ELSE identities[R!SubjectOf(d)] = c /\ UNCHANGED identities
    BY <1>0 DEF R!SubjectOf, SubjectOf
  <1>4. \A f \in F : /\ Owners[f] = d.source
                     /\ R!Follows(f, Standing[c][f], R!Observation(d, f))
    <2> SUFFICES ASSUME NEW f \in F
                 PROVE  /\ Owners[f] = d.source
                        /\ R!Follows(f, Standing[c][f], R!Observation(d, f))
      OBVIOUS
    <2>1. /\ f \in Fields
          /\ Owners[f] = d.source
          /\ row.provenance[f] # None => d.sequence > row.provenance[f].sequence
          /\ f = "lifecycle" => d.attributes[f] >= row.state[f]
      BY <1>0, AcceptedField
    <2>2. Standing[c][f] = IF row.provenance[f] = None THEN None
              ELSE [sequence |-> row.provenance[f].sequence, value |-> row.state[f]]
      BY <2>1, StandingRow DEF StandingOf
    <2> QED
      BY <2>1, <2>2 DEF R!Follows, R!Observation
  <1>5. Standing' = [Standing EXCEPT ![c] =
            [f \in Fields |-> IF f \in F THEN R!Observation(d, f) ELSE Standing[c][f]]]
    <2> DEFINE new == [f \in Fields |->
                           IF f \in F THEN R!Observation(d, f) ELSE Standing[c][f]]
    <2>1. \A b \in Customers : b # c => Standing'[b] = Standing[b]
      BY TakenFacts DEF Standing
    <2>2. Standing'[c] = new
      <3>1. Standing'[c] = [f \in Fields |->
                IF NextProvenance(d, row)[f] = None THEN None
                ELSE [sequence |-> NextProvenance(d, row)[f].sequence,
                      value |-> NextState(d, row)[f]]]
        BY TakenFacts DEF Standing, StandingOf
      <3>2. ASSUME NEW f \in Fields
            PROVE  new[f] = IF NextProvenance(d, row)[f] = None THEN None
                            ELSE [sequence |-> NextProvenance(d, row)[f].sequence,
                                  value |-> NextState(d, row)[f]]
        <4>1. CASE f \in F
          <5>1. /\ NextProvenance(d, row)[f] = ProvenanceOf(d)
                /\ NextState(d, row)[f] = d.attributes[f]
            BY <1>0, <4>1, AcceptedField
          <5>2. ProvenanceOf(d) # None /\ ProvenanceOf(d).sequence = d.sequence
            BY DeliveryType, ProvenanceType
          <5> QED
            BY <4>1, <5>1, <5>2 DEF R!Observation
        <4>2. CASE f \notin F
          <5>1. /\ NextProvenance(d, row)[f] = row.provenance[f]
                /\ NextState(d, row)[f] = row.state[f]
            BY <1>0, <4>2, OtherField
          <5>2. Standing[c][f] = IF row.provenance[f] = None THEN None
                    ELSE [sequence |-> row.provenance[f].sequence, value |-> row.state[f]]
            BY StandingRow DEF StandingOf
          <5>3. new[f] = Standing[c][f]
            BY <4>2
          <5> HIDE DEF new, row, F
          <5> QED
            BY <5>1, <5>2, <5>3
        <4> QED
          BY <4>1, <4>2
      <3> HIDE DEF new
      <3>3. new = [f \in Fields |-> new[f]]
        BY DEF new
      <3> QED
        BY <3>1, <3>2, <3>3
    <2> HIDE DEF new
    <2>3. /\ Standing = [b \in Customers |-> Standing[b]]
          /\ Standing' = [b \in Customers |-> Standing'[b]]
      BY DEF Standing
    <2>4. Standing' = [Standing EXCEPT ![c] = new]
      BY <2>1, <2>2, <2>3
    <2> QED
      BY <2>4 DEF new
  <1>6. R!Fields = Fields
    BY DEF R!Fields, Fields
  <1> QED
    BY <1>1, <1>2, <1>3, <1>4, <1>5, <1>6 DEF R!Take

LEMMA BindStep ==
    ASSUME NEW s \in Subjects, NEW c \in Customers,
           identities \in [Subjects -> Customers \cup {None}],
           identities[s] = None,
           \A t \in Subjects : t[1] = s[1] => identities[t] # c,
           identities' = [identities EXCEPT ![s] = c]
    PROVE  R!Bind(s, c)
  BY DEF R!Bind

LEMMA RegistersStep ==
    ASSUME Inv, [Next]_vars
    PROVE  [R!Next]_(R!registersVars)
  <1>0. identities \in [Subjects -> Customers \cup {None}]
    BY DEF Inv, TypeOK
  <1>1. ASSUME UNCHANGED <<events, identities, customers>>
        PROVE  UNCHANGED R!registersVars
    BY <1>1 DEF R!registersVars, Decided, Standing
  <1>2. ASSUME NEW a \in Apis, Apply(a)
        PROVE  R!Next
    <2> DEFINE d == conns[a].delivery
               c == conns[a].identity
    <2>1. d \in Deliveries /\ c \in Customers /\ Taken(d, c) /\ identities[SubjectOf(d)] = c
      BY <1>2, ApplyTakes
    <2>2. identities' = identities
      BY <1>2 DEF Apply
    <2>3. R!Take(d, c, Accepted(d, Row(c)))
      BY <2>1, <2>2, TakenRegisters
    <2>4. Accepted(d, Row(c)) \in SUBSET (DOMAIN d.attributes)
      BY DEF Accepted
    <2> QED
      BY <2>1, <2>3, <2>4 DEF R!Next
  <1>3. ASSUME NEW a \in Apis, Create(a)
        PROVE  R!Next
    <2> DEFINE d == conns[a].delivery
    <2>1. PICK c \in Customers :
              /\ d \in Deliveries
              /\ customers[c] = None
              /\ identities[SubjectOf(d)] = None
              /\ identities' = [identities EXCEPT ![SubjectOf(d)] = c]
              /\ Taken(d, c)
      BY <1>3, CreateTakes
    <2>2. SubjectOf(d) \in Subjects
      BY <2>1, DeliveryType
    <2>3. \A t \in Subjects : identities[t] # c
      BY <2>1, TakenFacts DEF Inv, Bindings
    <2>4. R!Bind(SubjectOf(d), c)
      BY <1>0, <2>1, <2>2, <2>3, BindStep
    <2>5. R!Take(d, c, Accepted(d, Row(c)))
      BY <2>1, <2>4, TakenRegisters
    <2>6. Accepted(d, Row(c)) \in SUBSET (DOMAIN d.attributes)
      BY DEF Accepted
    <2> QED
      BY <2>1, <2>5, <2>6 DEF R!Next
  <1>4. ASSUME NEW a \in Apis, SetAside(a)
        PROVE  R!Next
    <2> DEFINE d == conns[a].delivery
    <2>1. /\ d \in Deliveries
          /\ identities[SubjectOf(d)] = None
          /\ ~Logged(d)
          /\ UNCHANGED <<identities, customers>>
      BY <1>4, Ends DEF SetAside
    <2>2. PICK e : e.delivery = d /\ events' = events \cup {e}
      BY <1>4 DEF SetAside
    <2>3. R!Id(d) \notin Decided /\ Decided' = Decided \cup {R!Id(d)}
      BY <2>1, <2>2 DEF R!Id, Decided, Logged, Id
    <2>4. Standing' = Standing
      BY <2>1 DEF Standing
    <2>5. R!SetAside(d)
      BY <2>1, <2>3, <2>4 DEF R!SetAside, R!SubjectOf, SubjectOf
    <2> QED
      BY <2>1, <2>5 DEF R!Next
  <1>5. ASSUME NEW s \in Subjects, NEW c \in Customers, Link(s, c)
        PROVE  R!Next \/ UNCHANGED R!registersVars
    <2>1. /\ UNCHANGED <<events, customers>>
          /\ identities' = [identities EXCEPT ![s] = c]
          /\ identities[s] \in {None, c}
          /\ \A t \in Subjects : t[1] = s[1] /\ identities[t] = c => t = s
      BY <1>5 DEF Link, Linkable
    <2>2. CASE identities[s] = c
      <3>1. identities' = identities
        BY <1>0, <2>1, <2>2
      <3> QED
        BY <3>1, <2>1, <1>1
    <2>3. CASE identities[s] = None
      <3>1. c # None
        BY GovernanceAssumption
      <3>2. \A t \in Subjects : t[1] = s[1] => identities[t] # c
        BY <2>1, <2>3, <3>1
      <3>3. R!Bind(s, c)
        BY <1>0, <2>1, <2>3, <3>2, BindStep
      <3>4. UNCHANGED <<Decided, Standing>>
        BY <2>1 DEF Decided, Standing
      <3>5. s \in DOMAIN identities
        BY <1>0
      <3> QED
        BY <3>3, <3>4, <3>5 DEF R!Next
    <2> QED
      BY <2>1, <2>2, <2>3
  <1>6. ASSUME NEW d \in Deliveries, (\E a \in Apis : Begin(a, d)) \/ Conflict(d)
        PROVE  UNCHANGED R!registersVars
    BY <1>6, <1>1 DEF Begin, Conflict
  <1>7. ASSUME NEW a \in Apis, Abort(a)
        PROVE  UNCHANGED R!registersVars
    BY <1>7, <1>1 DEF Abort
  <1>8. CASE UNCHANGED vars
    BY <1>8, <1>1 DEF vars
  <1> QED
    BY <1>2, <1>3, <1>4, <1>5, <1>6, <1>7, <1>8 DEF Next

LEMMA RegistersInit ==
    ASSUME Init
    PROVE  R!Init
  <1>1. Decided = {}
    BY DEF Init, Decided
  <1>2. identities = [s \in {R!SubjectOf(d) : d \in Deliveries} |-> None]
    BY DEF Init, Subjects, SubjectOf, R!SubjectOf
  <1>3. Standing = [c \in Customers |-> [f \in R!Fields |-> None]]
    BY DEF Init, Standing, R!Fields, Fields
  <1> QED
    BY <1>1, <1>2, <1>3 DEF R!Init

\* Ingestion and linking implement the abstract registers, for any deliveries
\* in any order and any number of connections.
THEOREM GovernanceImplementsRegisters == Spec => ImplementsRegisters
  <1>1. Init => R!Init
    BY RegistersInit
  <1>2. Inv /\ [Next]_vars => [R!Next]_(R!registersVars)
    BY RegistersStep
  <1> QED
    BY <1>1, <1>2, Invariance, PTL DEF Spec, ImplementsRegisters, R!Spec

=============================================================================
