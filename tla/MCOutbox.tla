------------------------------ MODULE MCOutbox ------------------------------
(***************************************************************************)
(* Small instances of Outbox.  One customer that consents or has revoked   *)
(* consent: an Ingest may revoke, restore, or only raise the revision.     *)
(***************************************************************************)
EXTENDS Outbox, TLC

Consenting == [suppressed |-> FALSE, consent |-> TRUE,
               email |-> "a@example.test", profile |-> "p"]

Revoked == [Consenting EXCEPT !.consent = FALSE]

MCStates == {Consenting, Revoked}

MCSymmetry == Permutations(Workers) \cup Permutations(Actors)

=============================================================================
