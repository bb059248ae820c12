---------------------------- MODULE MCGovernance ----------------------------
(***************************************************************************)
(* Deliveries for Governance: two crm records with one email, late and     *)
(* conflicting deliveries, a lifecycle going back, and two consent records *)
(* that an operator must link.                                             *)
(***************************************************************************)
EXTENDS Governance, TLC

CONSTANTS A, B, Yes

Delivery(source, id, subject, sequence, attributes) ==
    [source |-> source, event_id |-> id, subject |-> subject,
     sequence |-> sequence, attributes |-> attributes]

MCDeliveries == {
    Delivery("crm", "e1", "s1", 1, [email |-> A, lifecycle |-> 2]),
    Delivery("crm", "e1", "s1", 4, [email |-> B]),
    Delivery("crm", "e2", "s1", 2, [email |-> B, lifecycle |-> 1]),
    Delivery("crm", "e3", "s1", 3, [email |-> A, consent |-> Yes]),
    Delivery("crm", "e4", "s2", 1, [email |-> A]),
    Delivery("crm", "e5", "s2", 2, [email |-> B]),
    Delivery("consent", "k1", "s1", 1, [consent |-> Yes]),
    Delivery("consent", "k2", "s2", 2, [consent |-> Yes, email |-> B])}

MCValues == {A, B, Yes}

Symmetry == Permutations(Apis) \cup Permutations(Customers)

=============================================================================
