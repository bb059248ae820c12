----------------------------- MODULE MCRelease ------------------------------
(***************************************************************************)
(* A small instance of Release: the five runtime secrets in the order in   *)
(* which Terraform encodes them, approved revisions and a rejected one.    *)
(* Before the run TLC evaluates the decisions of Teardown on every plan of *)
(* up to three changes and every answer AWS may give about two resources.  *)
(***************************************************************************)
EXTENDS Release, Teardown, TLC

MCKeyOrder == <<"api", "observer", "remote", "verifier", "worker">>
MCSymmetry == Permutations(Approved)

-----------------------------------------------------------------------------
Address == {"db", "log", "other"}
Pinned == [a \in Address |-> [id |-> a, type |-> a]]
Deletion(a) == [mode |-> "managed", action |-> "delete", address |-> a, id |-> a, type |-> a]

(* The exact deletion of each address, and every change that differs from   *)
(* it in one thing.                                                         *)
MCChanges ==
    UNION {{Deletion(a), [Deletion(a) EXCEPT !.mode = "data"],
            [Deletion(a) EXCEPT !.action = "no-op"], [Deletion(a) EXCEPT !.action = "replace"],
            [Deletion(a) EXCEPT !.id = "fresh"], [Deletion(a) EXCEPT !.type = "another"]}
           : a \in Address}

MCPlans == [changes : UNION {[1 .. n -> MCChanges] : n \in 0 .. 3}, whole : BOOLEAN]

(* teardown.py:11-42 A plan is accepted exactly when what it changes is the *)
(* deletion, once each, of the approved resources under their pinned ids.   *)
ASSUME PlanIsTheInventory ==
    \A known \in SUBSET {"db", "log"} : \A plan \in MCPlans :
        LET inv == [a \in known |-> Pinned[a]]
            changed == {i \in DOMAIN plan.changes : ~ Skipped(plan.changes[i])}
        IN  ValidPlan(plan, inv) <=>
                /\ plan.whole /\ known # {}
                /\ {plan.changes[i] : i \in changed} = {Deletion(a) : a \in known}
                /\ Cardinality(changed) = Cardinality(known)

(* What AWS may truthfully answer about a resource of that kind.            *)
Truthful(kind, exists, answer) ==
    /\ answer = "missing" => ~ exists
    /\ answer = "listed" => exists
    /\ answer = "unlisted" => ~ exists
    /\ answer \in {"unlisted", "page"} => kind \in ProbedByListing
    /\ answer = "page" => kind = "aws_cloudwatch_log_group"

(* cleanup_check.py:24-54 Absence is claimed only of resources that are     *)
(* gone, whatever reads fail, are cut short or are not supported.           *)
ASSUME AbsenceIsEstablished ==
    \A kinds \in [{1, 2} -> Probed \union {"aws_kms_key"}], answers \in [{1, 2} -> Answers],
       exists \in [{1, 2} -> BOOLEAN] :
        (\A i \in {1, 2} : Truthful(kinds[i], exists[i], answers[i])) =>
            (AllAbsent({[type |-> kinds[i], answer |-> answers[i]] : i \in {1, 2}}) =>
                \A i \in {1, 2} : ~ exists[i])

=============================================================================
