------------------------------- MODULE Policy -------------------------------
(***************************************************************************)
(* The compiled policy of controlplane/policy.py: who owns a customer      *)
(* field, when an observation of it is accepted, and what an agent action  *)
(* needs in a given customer state.                                        *)
(***************************************************************************)
EXTENDS Naturals

Actions == {"sync_profile", "send_marketing", "set_consent"}

Decisions == {"allow", "approval", "deny"}

\* What the decision of an action tells the caller.
ActionReasons == {"protected_write", "suppressed_or_unknown",
                  "consent_missing_or_revoked", "missing_email",
                  "stale_context", "policy_allowed"}

\* Mutant of action_decision: the revision the agent has seen is not compared.
action_decision_stale(action, state, revision, expected) ==
    IF action = "set_consent" THEN <<"deny", "protected_write">>
    ELSE IF action = "send_marketing" /\ state.suppressed
         THEN <<"deny", "suppressed_or_unknown">>
    ELSE IF action = "send_marketing" /\ ~state.consent
         THEN <<"deny", "consent_missing_or_revoked">>
    ELSE IF action = "send_marketing" /\ state.email = ""
         THEN <<"deny", "missing_email">>
    ELSE IF action = "send_marketing" THEN <<"approval", "policy_allowed">>
    ELSE <<"allow", "policy_allowed">>

(***************************************************************************)
(* A customer state is a record with at least the fields suppressed,       *)
(* consent and email. An unknown field reads as its default: suppressed is *)
(* TRUE (state.get("suppressed", True)), consent FALSE (it must be true to *)
(* count) and email the empty string.                                      *)
(***************************************************************************)
action_decision(action, state, revision, expected) ==
    IF action = "set_consent" THEN <<"deny", "protected_write">>
    ELSE IF action = "send_marketing" /\ state.suppressed
         THEN <<"deny", "suppressed_or_unknown">>
    ELSE IF action = "send_marketing" /\ ~state.consent
         THEN <<"deny", "consent_missing_or_revoked">>
    ELSE IF action = "send_marketing" /\ state.email = ""
         THEN <<"deny", "missing_email">>
    ELSE IF revision # expected THEN <<"deny", "stale_context">>
    ELSE IF action = "send_marketing" THEN <<"approval", "policy_allowed">>
    ELSE <<"allow", "policy_allowed">>

=============================================================================
