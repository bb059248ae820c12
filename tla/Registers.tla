----------------------------- MODULE Registers ------------------------------
(***************************************************************************)
(* What ingestion promises, with no transactions, logs or exceptions: one  *)
(* register for each customer and field, which only moves on to a later    *)
(* observation by the field's owner (and a lifecycle never back), fed by   *)
(* deliveries each of which counts once, for the one customer to whom its  *)
(* subject is bound for good.                                              *)
(***************************************************************************)
EXTENDS Naturals

CONSTANTS Deliveries, Customers, Owners, None

VARIABLES
    taken,    \* the delivery identities that have been decided
    bound,    \* subject -> its customer
    register  \* customer -> field -> the observation that stands

registersVars == <<taken, bound, register>>

Fields == DOMAIN Owners
Id(d) == <<d.source, d.event_id>>
SubjectOf(d) == <<d.source, d.subject>>
Observation(d, f) == [sequence |-> d.sequence, value |-> d.attributes[f]]

Init ==
    /\ taken = {}
    /\ bound = [s \in {SubjectOf(d) : d \in Deliveries} |-> None]
    /\ register = [c \in Customers |-> [f \in Fields |-> None]]

\* Observation new may follow old in the register of field f.
Follows(f, old, new) ==
    old # None => /\ new.sequence > old.sequence
                  /\ f = "lifecycle" => new.value >= old.value

\* A subject is bound, once, to a customer with no other subject of its source.
Bind(s, c) ==
    /\ bound[s] = None
    /\ \A t \in DOMAIN bound : t[1] = s[1] => bound[t] # c
    /\ bound' = [bound EXCEPT ![s] = c]

\* A delivery counts: the registers of fields F move to what it observed.
Take(d, c, F) ==
    /\ Id(d) \notin taken
    /\ taken' = taken \cup {Id(d)}
    /\ IF bound[SubjectOf(d)] = None THEN Bind(SubjectOf(d), c)
       ELSE bound[SubjectOf(d)] = c /\ UNCHANGED bound
    /\ \A f \in F : /\ Owners[f] = d.source
                    /\ Follows(f, register[c][f], Observation(d, f))
    /\ register' = [register EXCEPT ![c] =
           [f \in Fields |-> IF f \in F THEN Observation(d, f) ELSE @[f]]]

\* A delivery of an unbound subject is set aside, and never counts.
SetAside(d) ==
    /\ Id(d) \notin taken
    /\ bound[SubjectOf(d)] = None
    /\ taken' = taken \cup {Id(d)}
    /\ UNCHANGED <<bound, register>>

Next ==
    \/ \E d \in Deliveries :
           \/ SetAside(d)
           \/ \E c \in Customers, F \in SUBSET (DOMAIN d.attributes) : Take(d, c, F)
    \/ \E s \in DOMAIN bound, c \in Customers :
           Bind(s, c) /\ UNCHANGED <<taken, register>>

Spec == Init /\ [][Next]_registersVars

=============================================================================
