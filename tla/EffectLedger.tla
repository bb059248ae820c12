---------------------------- MODULE EffectLedger ----------------------------
(***************************************************************************)
(* What the outbox promises to the rest of the system, with no leases,     *)
(* retries, messages or failures: for each request id there is at most one *)
(* intent, which never changes; at most one effect, which is that intent   *)
(* and happens after it; and success is reported only after the effect.    *)
(***************************************************************************)
CONSTANTS Requests, Mutations, None

VARIABLES
    intent,   \* the mutation the control plane has committed itself to
    effect,   \* the mutation that happened outside
    reported  \* the requests reported as succeeded

ledgerVars == <<intent, effect, reported>>

Init ==
    /\ intent = [r \in Requests |-> None]
    /\ effect = [r \in Requests |-> None]
    /\ reported = {}

Commit(r, m) ==
    /\ intent[r] = None
    /\ intent' = [intent EXCEPT ![r] = m]
    /\ UNCHANGED <<effect, reported>>

Happen(r) ==
    /\ intent[r] # None
    /\ effect[r] = None
    /\ effect' = [effect EXCEPT ![r] = intent[r]]
    /\ UNCHANGED <<intent, reported>>

Report(r) ==
    /\ effect[r] # None
    /\ reported' = reported \cup {r}
    /\ UNCHANGED <<intent, effect>>

Next ==
    \E r \in Requests :
        (\E m \in Mutations : Commit(r, m)) \/ Happen(r) \/ Report(r)

Spec == Init /\ [][Next]_ledgerVars

=============================================================================
