----------------------------- MODULE Bootstrap ------------------------------
(***************************************************************************)
(* The migration task of cloud.py: it completes the runtime secrets, binds *)
(* them to the control database of the day and gives the database roles the *)
(* passwords the secrets hold, then the schema (db.migrate) and the grants *)
(* of the runtime. It may be killed at any point and run again. Secret     *)
(* values are the number of the run that drew them: every run draws fresh  *)
(* ones and keeps those it finds.                                          *)
(***************************************************************************)
EXTENDS Integers, Sequences, FiniteSets

CONSTANTS KeyOrder,   \* the runtime secrets, in the order of RUNTIME_SECRET_ARNS
          MaxBoots    \* bound on the runs of the migration task

ControlHosts == {"first", "restored"}
Hosts == ControlHosts \union {"receiver"}
RuntimeKeys == {KeyOrder[i] : i \in DOMAIN KeyOrder}
Sharing == {"worker", "remote"}           \* the holders of EXECUTOR_TOKEN

ASSUME KeysAssumption ==
    /\ KeyOrder \in Seq({"api", "worker", "remote", "verifier", "observer"})
    /\ \A i, j \in DOMAIN KeyOrder : KeyOrder[i] = KeyOrder[j] => i = j
    /\ Sharing \union {"verifier"} \subseteq RuntimeKeys
ASSUME BootsAssumption == MaxBoots \in Nat \ {0}

Drawn == 1 .. MaxBoots
Document == [pw : Drawn, tok : Drawn, host : Hosts]
NoDocument == [pw |-> 0, tok |-> 0, host |-> "none"]   \* a secret without a version

VARIABLES secret,     \* Secrets Manager: the document of each runtime secret
          login,      \* [host][key]: the password of the key's role in that database
          ready,      \* [host]: "none", "migrated" or "granted"
          bound,      \* DB_HOSTS["control"] of the migration task's definition
          boot        \* the last run of the migration task

bootVars == <<secret, login, ready, bound, boot>>

Stored == Document \union {NoDocument}
Runs == [st : {"none", "collect", "rebind", "databases", "done", "dead"},
         n : 0 .. MaxBoots, pc : Nat \ {0}, tok : 0 .. MaxBoots,
         host : ControlHosts, docs : [RuntimeKeys -> Stored]]

BootTypeOK ==
    /\ secret \in [RuntimeKeys -> Stored]
    /\ login \in [Hosts -> [RuntimeKeys -> 0 .. MaxBoots]]
    /\ ready \in [Hosts -> {"none", "migrated", "granted"}]
    /\ bound \in ControlHosts
    /\ boot \in Runs

(* Where a key's DSN points in the run's environment: only the receiver's   *)
(* own secret holds no CONTROL_DSN, the verifier's holds one for each       *)
(* database.                                                                *)
HostFor(k) == IF k = "remote" THEN "receiver" ELSE boot.host
Connects(k, d, h) == h = d.host \/ (k = "verifier" /\ h = "receiver")

NoBoot == [st |-> "none", n |-> 0, pc |-> 1, tok |-> 0, host |-> "first",
           docs |-> [k \in RuntimeKeys |-> NoDocument]]

(* A run that is over: what it held in memory is gone.                      *)
Ended(st) == [NoBoot EXCEPT !.st = st, !.n = boot.n, !.host = boot.host]

BootInit ==
    /\ secret = [k \in RuntimeKeys |-> NoDocument]
    /\ login = [h \in Hosts |-> [k \in RuntimeKeys |-> 0]]
    /\ ready = [h \in Hosts |-> "none"]
    /\ bound = "first"
    /\ boot = NoBoot

\* Mutant of SurvivingToken: every run draws a new executor token.
FreshToken(fresh) == fresh

(* The executor token either surviving side holds, worker first.            *)
SurvivingToken(fresh) ==
    IF secret["worker"] # NoDocument THEN secret["worker"].tok
    ELSE IF secret["remote"] # NoDocument THEN secret["remote"].tok
    ELSE fresh

(* A new run begins: owner DSNs, fresh passwords, the stable shared token.  *)
BootStart ==
    /\ boot.n < MaxBoots
    /\ boot' = [NoBoot EXCEPT !.st = "collect", !.n = boot.n + 1,
                              !.tok = SurvivingToken(boot.n + 1), !.host = bound]
    /\ UNCHANGED <<secret, login, ready, bound>>

(* One turn of the loop over RUNTIME_SECRET_ARNS: the stored document, or a *)
(* first version of it.                                                     *)
CollectSecret ==
    LET k == KeyOrder[boot.pc]
        tok == IF k = "remote" /\ boot.docs["worker"] # NoDocument
               THEN boot.docs["worker"].tok
               ELSE IF k \in Sharing THEN boot.tok ELSE boot.n
        doc == IF secret[k] # NoDocument THEN secret[k]
               ELSE [pw |-> boot.n, tok |-> tok, host |-> HostFor(k)]
    IN  /\ boot.st = "collect" /\ boot.pc <= Len(KeyOrder)
        /\ secret' = [secret EXCEPT ![k] = doc]
        /\ boot' = [boot EXCEPT !.docs[k] = doc, !.pc = @ + 1]
        /\ UNCHANGED <<login, ready, bound>>

(* The two holders of the executor token must agree before anything else.   *)
CompareTokens ==
    /\ boot.st = "collect" /\ boot.pc > Len(KeyOrder)
    /\ boot' = IF boot.docs["remote"].tok = boot.docs["worker"].tok
               THEN [boot EXCEPT !.st = "rebind", !.pc = 1]
               ELSE Ended("dead")
    /\ UNCHANGED <<secret, login, ready, bound>>

\* Mutant of RebindSecret: the DSNs keep the database they were written for.
NoRebinding ==
    /\ boot.st = "rebind" /\ boot.pc <= Len(KeyOrder)
    /\ boot' = [boot EXCEPT !.pc = @ + 1]
    /\ UNCHANGED <<secret, login, ready, bound>>

(* One turn of the second loop: a DSN that names another control database   *)
(* is rebound; passwords and tokens are kept.                               *)
RebindSecret ==
    LET k == KeyOrder[boot.pc]
        doc == [boot.docs[k] EXCEPT !.host = HostFor(k)]
    IN  /\ boot.st = "rebind" /\ boot.pc <= Len(KeyOrder)
        /\ secret' = [secret EXCEPT ![k] = IF doc # boot.docs[k] THEN doc ELSE @]
        /\ boot' = [boot EXCEPT !.docs[k] = doc, !.pc = @ + 1]
        /\ UNCHANGED <<login, ready, bound>>

(* ALTER ROLE ... PASSWORD for every DSN on one host, in one transaction;   *)
(* refused for an administrative role.                                      *)
Passwords(h) ==
    [k \in RuntimeKeys |-> IF Connects(k, boot.docs[k], h) THEN boot.docs[k].pw
                           ELSE login[h][k]]

(* What the run does to the databases once the secrets are settled, one     *)
(* transaction each.                                                        *)
Steps == << <<"roles", boot.host>>, <<"migrate", boot.host>>,
            <<"roles", "receiver">>, <<"migrate", "receiver">>,
            <<"grants", boot.host>>, <<"grants", "receiver">> >>

DatabaseStep(op) == boot.st = "databases" /\ Steps[boot.pc][1] = op
Host == Steps[boot.pc][2]

EnterDatabases ==
    /\ boot.st = "rebind" /\ boot.pc > Len(KeyOrder)
    /\ boot' = [boot EXCEPT !.st = "databases", !.pc = 1]
    /\ UNCHANGED <<secret, login, ready, bound>>

NextStep ==
    boot' = IF boot.pc = Len(Steps) THEN Ended("done") ELSE [boot EXCEPT !.pc = @ + 1]

ApplyRoles ==
    /\ DatabaseStep("roles") /\ NextStep
    /\ login' = [login EXCEPT ![Host] = Passwords(Host)]
    /\ UNCHANGED <<secret, ready, bound>>

(* Under the migration lock: each missing version in its turn, each applied *)
(* one compared by hash; nothing that is there is lost.                     *)
Migrate ==
    /\ DatabaseStep("migrate") /\ NextStep
    /\ ready' = [ready EXCEPT ![Host] = IF @ = "none" THEN "migrated" ELSE @]
    /\ UNCHANGED <<secret, login, bound>>

Grants ==
    /\ DatabaseStep("grants") /\ NextStep
    /\ ready' = [ready EXCEPT ![Host] = "granted"]
    /\ UNCHANGED <<secret, login, bound>>

Booting == boot.st \in {"collect", "rebind", "databases"}

(* The task is killed, or a call of it fails: exit code 1.                  *)
BootDies ==
    /\ Booting
    /\ boot' = Ended("dead")
    /\ UNCHANGED <<secret, login, ready, bound>>

BootStep == \/ CollectSecret \/ CompareTokens \/ RebindSecret \/ EnterDatabases
            \/ ApplyRoles \/ Migrate \/ Grants
=============================================================================
