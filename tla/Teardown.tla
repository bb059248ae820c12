------------------------------ MODULE Teardown ------------------------------
(***************************************************************************)
(* The decisions around a discarded environment: validate_plan             *)
(* (teardown.py) over a Terraform destroy plan and the inventory that the  *)
(* owner approved, and check (cleanup_check.py), which reads each resource *)
(* of that inventory after the deletion. An inventory is a function from   *)
(* addresses to [id, type]; a plan is [changes, whole], a sequence of      *)
(* [mode, action, address, id, type], and whole when it is neither errored *)
(* nor incomplete.                                                         *)
(***************************************************************************)
EXTENDS Naturals, Sequences, FiniteSets

Skipped(c) == c.mode = "data" \/ c.action = "no-op"

(* The exact deletion of an approved resource that has not come up before.  *)
ApprovedDeletion(c, inv, seen) ==
    /\ c.action = "delete"
    /\ c.address \in DOMAIN inv \ seen
    /\ c.id = inv[c.address].id /\ c.type = inv[c.address].type

(* The loop over resource_changes, up to the first change it refuses.       *)
Reviewed(changes, inv) ==
    LET loop[i \in 0 .. Len(changes)] ==
            IF i = 0 THEN [ok |-> TRUE, seen |-> {}]
            ELSE LET before == loop[i - 1]
                     c == changes[i]
                 IN  IF ~ before.ok \/ Skipped(c) THEN before
                     ELSE IF ApprovedDeletion(c, inv, before.seen)
                          THEN [before EXCEPT !.seen = @ \union {c.address}]
                          ELSE [before EXCEPT !.ok = FALSE]
    IN  loop[Len(changes)]

ValidPlan(plan, inv) ==
    LET reviewed == Reviewed(plan.changes, inv)
    IN  /\ DOMAIN inv # {} /\ Cardinality(DOMAIN inv) <= 300
        /\ reviewed.ok /\ reviewed.seen = DOMAIN inv
        /\ plan.whole

-----------------------------------------------------------------------------
(* The kinds with a probe of their own, and how each says that a resource   *)
(* is not there: by an error of its own, or also by an empty listing.       *)
ProbedByError == {"aws_db_instance", "aws_lb", "aws_ecr_repository", "aws_vpc_endpoint"}
ProbedByListing == {"aws_cloudwatch_log_group", "aws_vpc_endpoint"}
Probed == ProbedByError \union ProbedByListing

(* What AWS answers about one resource: its own not-found error, any other  *)
(* error, or a listing with or without the resource, or not the last page.  *)
Answers == {"missing", "error", "listed", "unlisted", "page"}

(* The status of one row: what a probe does not know is never absent.       *)
RowStatus(kind, answer) ==
    CASE kind \notin Probed -> "NOT_CHECKED_UNSUPPORTED"
      [] \/ answer = "missing" /\ kind \in ProbedByError
         \/ answer = "unlisted" /\ kind \in ProbedByListing -> "ABSENT"
      [] \/ answer = "error" /\ kind \in Probed
         \/ answer = "missing" /\ kind \in Probed \ ProbedByError -> "READ_FAILED"
      [] answer = "page" /\ kind = "aws_cloudwatch_log_group" -> "INCOMPLETE_PAGINATION"
      [] OTHER -> "PRESENT"

(* all_checked_resources_absent, over rows [type, answer].                  *)
AllAbsent(rows) ==
    rows # {} /\ \A r \in rows : RowStatus(r.type, r.answer) = "ABSENT"
=============================================================================
