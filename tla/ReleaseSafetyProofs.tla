------------------------- MODULE ReleaseSafetyProofs ------------------------
(***************************************************************************)
(* Proofs of what Release promises of the services: that they are down     *)
(* while a one-off task runs, that a completed command has deployed what   *)
(* was asked for, and that after a bootstrap that finished they run with   *)
(* the credentials of the bound database, which agrees with the receiver.  *)
(*                                                                         *)
(* What a command may still do is known from the calls that are left: the  *)
(* invariants of the lists of calls (Linked, Proper, Shut) hold of every   *)
(* rest of such a list, and with them what the next call relies on.        *)
(***************************************************************************)
EXTENDS ReleaseProofs

Opens == {"deploy", "resume", "rollback"}
OpeningOps == {"start", "steady"}

-----------------------------------------------------------------------------
(* Lists of calls.                                                          *)
Has(s, c) == \E i \in 1 .. Len(s) : s[i] = c

\* What a call relies on the call before it for.
Link(c, d) ==
    /\ d[1] = "run" => c[1] = "drained"
    /\ d[1] = "await" => c = <<"run", d[2]>>
    /\ d[1] = "start" => c[1] \in {"drained", "steady"}
    /\ d[1] = "steady" => c = <<"start", d[2]>>

Linked(s) == \A i \in 1 .. Len(s) : i + 1 <= Len(s) => Link(s[i], s[i + 1])

Later(s, i, c) == \E j \in 1 .. Len(s) : i < j /\ s[j] = c

\* A service that is touched is steady in the end, the verifier is the last
\* task, and from the first start on nothing else is done.
Proper(s) ==
    \A i \in 1 .. Len(s) :
        /\ s[i][1] \in {"stop", "start"} => Later(s, i, <<"steady", s[i][2]>>)
        /\ s[i][1] = "run" => Later(s, i, <<"await", "verifier">>)
        /\ s[i][1] \in OpeningOps =>
               \A j \in 1 .. Len(s) : i < j => s[j][1] \in OpeningOps

\* A list that starts no service.
Shut(s) == \A i \in 1 .. Len(s) : s[i][1] \notin OpeningOps

-----------------------------------------------------------------------------
(* The command.                                                             *)
Running == cmd.st = "running"
OpeningCommand == Running /\ cmd.act \in Opens
NextOp(op) == Busy /\ cmd.todo[1][1] = op
NextCall(c) == Busy /\ cmd.todo[1] = c

Listed == /\ Linked(cmd.todo)
          /\ ~ Busy => cmd.todo = <<>>
          /\ OpeningCommand => Proper(cmd.todo)
          /\ Busy /\ ~ OpeningCommand => Shut(cmd.todo)

ApprovedRuns ==
    cmd.st = "completed" \/ (Running /\ ~ NextOp("tasks")) => cmd.rel \in Approved

Deployed(x) == svc[x].want /\ svc[x].up /\ svc[x].rel = cmd.rel

\* A service is deployed, or the command has still to wait for it.
SteadyOrDeployed ==
    cmd.act \in Opens /\ cmd.st \in {"running", "completed"} =>
        \A x \in Services : Has(cmd.todo, <<"steady", x>>) \/ Deployed(x)

WantedSteady == \A x \in Services : NextCall(<<"steady", x>>) => svc[x].want

Closed == \A s \in Services : ~ svc[s].want /\ ~ svc[s].up

\* A task whose stop was requested and the next command exclude each other.
NoneStopping == Busy => \A u \in Utilities : job[u].st # "stopping"

AliveAlone == (\E u \in Utilities : Alive(u)) => Closed

\* The next call and the tasks that may be alive.
TaskOrder ==
    /\ NextOp("run") => Closed /\ \A u \in Utilities : ~ Alive(u)
    /\ NextOp("start") \/ NextOp("steady") => \A u \in Utilities : ~ Alive(u)
    /\ \A u \in Utilities :
           NextCall(<<"await", u>>) => \A w \in Utilities \ {u} : ~ Alive(w)

-----------------------------------------------------------------------------
(* The bootstrap and the databases.                                         *)
Rebound ==
    /\ boot.st = "rebind" =>
           \A i \in DOMAIN KeyOrder :
               i < boot.pc => boot.docs[KeyOrder[i]].host = HostFor(KeyOrder[i])
    /\ boot.st = "databases" =>
           \A k \in RuntimeKeys : boot.docs[k].host = HostFor(k)

\* What the transactions that are done have left.
Written ==
    boot.st = "databases" =>
        /\ boot.pc > 1 => \A k \in RuntimeKeys :
               k # "remote" => login[boot.host][k] = boot.docs[k].pw
        /\ boot.pc > 3 => login["receiver"]["remote"] = boot.docs["remote"].pw
        /\ boot.pc > 5 => ready[boot.host] = "granted"

\* The secrets are those of the databases, and stay so until the next run.
Agrees(k) == /\ secret[k].host = HostFor(k)
             /\ login[HostFor(k)][k] = secret[k].pw
             /\ ready[HostFor(k)] = "granted"

Settled == boot.st = "done" => \A k \in RuntimeKeys : Agrees(k)

RestoredKnown == bound = "restored" \/ boot.host = "restored" => restored

\* A service that came up after the bootstrap holds the secret that stands.
DocsCurrent == boot.st = "done" => \A s \in Services : svc[s].up => svc[s].doc = secret[s]

\* The verifier's success is about the bound database, and lasts.
Reconciled == boot.st = "done" => boot.host \in safe

VerifierTrue ==
    NextCall(<<"await", "verifier">>) /\ job["verifier"].st = "stopped"
        /\ job["verifier"].exit = 0 => Reconciled

VerifiedOpens ==
    OpeningCommand /\ ~ Has(cmd.todo, <<"await", "verifier">>) =>
        ~ Alive("migration") /\ Reconciled

OpenReconciled == ~ Closed => Reconciled

-----------------------------------------------------------------------------
CmdInv == Listed /\ ApprovedRuns /\ SteadyOrDeployed /\ WantedSteady
TaskInv == NoneStopping /\ AliveAlone /\ TaskOrder
DataInv == Rebound /\ Written /\ Settled /\ RestoredKnown /\ DocsCurrent
SafeInv == VerifierTrue /\ VerifiedOpens /\ OpenReconciled

SafetyInv == CmdInv /\ TaskInv /\ DataInv /\ SafeInv

-----------------------------------------------------------------------------
(* Concatenation and rest of lists of calls.                                *)
LEMMA ConcatAt ==
    ASSUME NEW s \in Seq(Call), NEW t \in Seq(Call)
    PROVE  /\ s \o t \in Seq(Call)
           /\ Len(s) \in Nat /\ Len(t) \in Nat /\ Len(s \o t) = Len(s) + Len(t)
           /\ \A i \in 1 .. Len(s) : (s \o t)[i] = s[i]
           /\ \A j \in 1 .. Len(t) : (s \o t)[Len(s) + j] = t[j]
  <1>1. s \o t \in Seq(Call) /\ Len(s) \in Nat /\ Len(t) \in Nat
        /\ Len(s \o t) = Len(s) + Len(t)
    OBVIOUS
  <1>2. \A i \in 1 .. Len(s) : (s \o t)[i] = s[i]
    OBVIOUS
  <1>3. ASSUME NEW j \in 1 .. Len(t)
        PROVE  (s \o t)[Len(s) + j] = t[j]
    BY <1>1
  <1> QED
    BY <1>1, <1>2, <1>3

\* An index of the whole is one of a part.
LEMMA ConcatIndex ==
    ASSUME NEW s \in Seq(Call), NEW t \in Seq(Call), NEW k \in 1 .. Len(s \o t)
    PROVE  \/ k \in 1 .. Len(s) /\ (s \o t)[k] = s[k]
           \/ /\ k - Len(s) \in 1 .. Len(t) /\ (s \o t)[k] = t[k - Len(s)]
              /\ k > Len(s)
  <1>1. Len(s) \in Nat /\ Len(t) \in Nat /\ k \in 1 .. Len(s) + Len(t)
    BY ConcatAt
  <1>2. CASE k <= Len(s)
    BY <1>1, <1>2, ConcatAt
  <1>3. CASE k > Len(s)
    <2> DEFINE j == k - Len(s)
    <2>1. j \in 1 .. Len(t) /\ k = Len(s) + j
      BY <1>1, <1>3
    <2> QED
      BY <1>3, <2>1, ConcatAt
  <1> QED
    BY <1>1, <1>2, <1>3

LEMMA HasConcat ==
    ASSUME NEW s \in Seq(Call), NEW t \in Seq(Call), NEW c, Has(s, c) \/ Has(t, c)
    PROVE  Has(s \o t, c)
  <1>1. CASE Has(s, c)
    <2>1. PICK i \in 1 .. Len(s) : s[i] = c
      BY <1>1 DEF Has
    <2>2. i \in 1 .. Len(s \o t) /\ (s \o t)[i] = c
      BY <2>1, ConcatAt
    <2> QED
      BY <2>2 DEF Has
  <1>2. CASE Has(t, c)
    <2>1. PICK j \in 1 .. Len(t) : t[j] = c
      BY <1>2 DEF Has
    <2>2. Len(s) + j \in 1 .. Len(s \o t) /\ (s \o t)[Len(s) + j] = c
      BY <2>1, ConcatAt
    <2> QED
      BY <2>2 DEF Has
  <1> QED
    BY <1>1, <1>2

\* A linked list with its first and last call.
Block(s, c, d) == s \in Seq(Call) /\ s # <<>> /\ s[1] = c /\ s[Len(s)] = d /\ Linked(s)

LEMMA Nonempty ==
    ASSUME NEW s \in Seq(Call)
    PROVE  s # <<>> <=> Len(s) \in Nat \ {0}
  BY EmptySeq

LEMMA BlockConcat ==
    ASSUME NEW s, NEW t, NEW a, NEW b, NEW c, NEW d,
           Block(s, a, b), Block(t, c, d), Link(b, c)
    PROVE  Block(s \o t, a, d)
  <1>1. /\ s \in Seq(Call) /\ t \in Seq(Call)
        /\ Len(s) \in Nat \ {0} /\ Len(t) \in Nat \ {0}
    BY Nonempty DEF Block
  <1>2. /\ s \o t \in Seq(Call) /\ Len(s \o t) = Len(s) + Len(t)
        /\ \A i \in 1 .. Len(s) : (s \o t)[i] = s[i]
        /\ \A j \in 1 .. Len(t) : (s \o t)[Len(s) + j] = t[j]
    BY <1>1, ConcatAt
  <1>3. s \o t # <<>> /\ (s \o t)[1] = a /\ (s \o t)[Len(s \o t)] = d
    <2>1. 1 \in 1 .. Len(s) /\ Len(t) \in 1 .. Len(t) /\ Len(s \o t) \in Nat \ {0}
      BY <1>1, <1>2
    <2> QED
      BY <1>2, <2>1, Nonempty DEF Block
  <1>4. ASSUME NEW k \in 1 .. Len(s \o t), k + 1 <= Len(s \o t)
        PROVE  Link((s \o t)[k], (s \o t)[k + 1])
    <2> DEFINE m == Len(s)
               n == Len(t)
    <2>4. k \in Nat /\ k + 1 <= m + n /\ m \in Nat /\ n \in Nat
      BY <1>1, <1>2, <1>4
    <2>1. CASE k < Len(s)
      <3>1. k \in 1 .. Len(s) /\ k + 1 \in 1 .. Len(s) /\ k + 1 <= Len(s)
        BY <1>1, <1>2, <2>1
      <3> QED
        BY <1>2, <3>1 DEF Block, Linked
    <2>2. CASE k = Len(s)
      <3>1. k \in 1 .. Len(s) /\ 1 \in 1 .. Len(t) /\ k + 1 = Len(s) + 1
        BY <1>1, <2>2
      <3>2. (s \o t)[k] = b /\ (s \o t)[k + 1] = c
        BY <1>2, <2>2, <3>1 DEF Block
      <3> QED
        BY <3>2
    <2>3. CASE k > Len(s)
      <3> DEFINE j == k - m
      <3>1. /\ j \in 1 .. n /\ j + 1 \in 1 .. n /\ j + 1 <= n
            /\ k = m + j /\ k + 1 = m + (j + 1)
        <4> HIDE DEF m, n
        <4>1. k > m
          BY <2>3 DEF m
        <4> QED
          BY <2>4, <4>1
      <3> HIDE DEF j
      <3>2. (s \o t)[k] = t[j] /\ (s \o t)[k + 1] = t[j + 1]
        BY <1>2, <3>1
      <3> QED
        BY <3>1, <3>2 DEF Block, Linked
    <2> QED
      BY <2>1, <2>2, <2>3, <2>4
  <1> QED
    BY <1>2, <1>3, <1>4 DEF Block, Linked

LEMMA ShutConcat ==
    ASSUME NEW s \in Seq(Call), NEW t \in Seq(Call), Shut(s), Shut(t)
    PROVE  Shut(s \o t)
  BY ConcatIndex DEF Shut

\* What a service or the verifier is awaited in is found later.
LEMMA LaterConcat ==
    ASSUME NEW s \in Seq(Call), NEW t \in Seq(Call), NEW k \in 1 .. Len(s \o t), NEW c
    PROVE  /\ k \in 1 .. Len(s) /\ Later(s, k, c) => Later(s \o t, k, c)
           /\ k \in 1 .. Len(s) /\ Has(t, c) => Later(s \o t, k, c)
           /\ k > Len(s) /\ Later(t, k - Len(s), c) => Later(s \o t, k, c)
  <1>1. /\ Len(s) \in Nat /\ Len(t) \in Nat /\ Len(s \o t) = Len(s) + Len(t)
        /\ \A i \in 1 .. Len(s) : (s \o t)[i] = s[i]
        /\ \A j \in 1 .. Len(t) : (s \o t)[Len(s) + j] = t[j]
    BY ConcatAt
  <1>2. ASSUME k \in 1 .. Len(s), Later(s, k, c)
        PROVE  Later(s \o t, k, c)
    <2>1. PICK i \in 1 .. Len(s) : k < i /\ s[i] = c
      BY <1>2 DEF Later
    <2> QED
      BY <1>1, <2>1 DEF Later
  <1>3. ASSUME k \in 1 .. Len(s), Has(t, c)
        PROVE  Later(s \o t, k, c)
    <2>1. PICK j \in 1 .. Len(t) : t[j] = c
      BY <1>3 DEF Has
    <2>2. Len(s) + j \in 1 .. Len(s \o t) /\ k < Len(s) + j
      BY <1>1, <1>3, <2>1
    <2> QED
      BY <1>1, <2>1, <2>2 DEF Later
  <1>4. ASSUME k > Len(s), Later(t, k - Len(s), c)
        PROVE  Later(s \o t, k, c)
    <2>1. PICK j \in 1 .. Len(t) : k - Len(s) < j /\ t[j] = c
      BY <1>4 DEF Later
    <2>2. Len(s) + j \in 1 .. Len(s \o t) /\ k < Len(s) + j
      BY <1>1, <2>1
    <2> QED
      BY <1>1, <2>1, <2>2 DEF Later
  <1> QED
    BY <1>2, <1>3, <1>4

\* What comes before an opening that has it all.
LEMMA ProperBefore ==
    ASSUME NEW s \in Seq(Call), NEW t \in Seq(Call), Shut(s), Proper(t),
           Has(t, <<"await", "verifier">>),
           \A i \in 1 .. Len(s) : s[i][1] = "stop" => Has(t, <<"steady", s[i][2]>>)
    PROVE  Proper(s \o t)
  <1> SUFFICES ASSUME NEW k \in 1 .. Len(s \o t)
               PROVE  LET u == s \o t
                      IN  /\ u[k][1] \in {"stop", "start"} => Later(u, k, <<"steady", u[k][2]>>)
                          /\ u[k][1] = "run" => Later(u, k, <<"await", "verifier">>)
                          /\ u[k][1] \in OpeningOps =>
                                \A j \in 1 .. Len(u) : k < j => u[j][1] \in OpeningOps
    BY DEF Proper
  <1>1. CASE k \in 1 .. Len(s) /\ (s \o t)[k] = s[k]
    BY <1>1, LaterConcat DEF Shut, OpeningOps
  <1>2. CASE /\ k - Len(s) \in 1 .. Len(t) /\ (s \o t)[k] = t[k - Len(s)]
             /\ k > Len(s)
    <2> DEFINE i == k - Len(s)
    <2>1. ASSUME t[i][1] \in OpeningOps, NEW j \in 1 .. Len(s \o t), k < j
          PROVE  (s \o t)[j][1] \in OpeningOps
      <3>1. ~ (j \in 1 .. Len(s))
        BY <1>2, <2>1
      <3>2. j - Len(s) \in 1 .. Len(t) /\ (s \o t)[j] = t[j - Len(s)]
        BY <3>1, ConcatIndex
      <3>3. i < j - Len(s)
        BY <2>1, <3>2, <1>2, ConcatAt
      <3> QED
        BY <1>2, <2>1, <3>2, <3>3 DEF Proper
    <2> QED
      BY <1>2, <2>1, LaterConcat DEF Proper
  <1> QED
    BY <1>1, <1>2, ConcatIndex

\* One service more, after a list that is proper already.
LEMMA ProperAfter ==
    ASSUME NEW s \in Seq(Call), NEW t \in Seq(Call), Proper(s), Proper(t),
           \A i \in 1 .. Len(t) : t[i][1] \in OpeningOps
    PROVE  Proper(s \o t)
  <1> SUFFICES ASSUME NEW k \in 1 .. Len(s \o t)
               PROVE  LET u == s \o t
                      IN  /\ u[k][1] \in {"stop", "start"} => Later(u, k, <<"steady", u[k][2]>>)
                          /\ u[k][1] = "run" => Later(u, k, <<"await", "verifier">>)
                          /\ u[k][1] \in OpeningOps =>
                                \A j \in 1 .. Len(u) : k < j => u[j][1] \in OpeningOps
    BY DEF Proper
  <1>1. CASE k \in 1 .. Len(s) /\ (s \o t)[k] = s[k]
    <2>1. ASSUME s[k][1] \in OpeningOps, NEW j \in 1 .. Len(s \o t), k < j
          PROVE  (s \o t)[j][1] \in OpeningOps
      BY <1>1, <2>1, ConcatIndex DEF Proper
    <2> QED
      BY <1>1, <2>1, LaterConcat DEF Proper
  <1>2. CASE /\ k - Len(s) \in 1 .. Len(t) /\ (s \o t)[k] = t[k - Len(s)]
             /\ k > Len(s)
    <2>1. ASSUME NEW j \in 1 .. Len(s \o t), k < j
          PROVE  (s \o t)[j][1] \in OpeningOps
      <3>1. ~ (j \in 1 .. Len(s))
        BY <1>2, <2>1
      <3> QED
        BY <3>1, ConcatIndex
    <2> QED
      BY <1>2, <2>1, LaterConcat DEF Proper
  <1> QED
    BY <1>1, <1>2, ConcatIndex

-----------------------------------------------------------------------------
(* The lists of the commands.                                               *)
LEMMA QuiesceFacts ==
    /\ Block(Quiesce, <<"stop", "api">>, <<"drained", "all">>) /\ Shut(Quiesce)
    /\ \A i \in 1 .. Len(Quiesce) :
           /\ Quiesce[i][1] # "run"
           /\ Quiesce[i][1] = "stop" => Quiesce[i][2] \in Services
  <1>1. Len(Quiesce) = 6
    BY DEF Quiesce
  <1>2. /\ Quiesce[1] = <<"stop", "api">> /\ Quiesce[2] = <<"stop", "worker">>
        /\ Quiesce[3] = <<"stop", "remote">> /\ Quiesce[4] = <<"stop", "observer">>
        /\ Quiesce[5] = <<"stable", "all">> /\ Quiesce[6] = <<"drained", "all">>
    BY DEF Quiesce
  <1>3. Linked(Quiesce)
    BY <1>1, <1>2 DEF Linked, Link
  <1> QED
    BY <1>1, <1>2, <1>3, QuiesceType DEF Block, Shut, OpeningOps, Services

LEMMA UtilityFacts ==
    ASSUME NEW u \in Utilities
    PROVE  /\ Block(Utility(u), <<"run", u>>, <<"await", u>>) /\ Shut(Utility(u))
           /\ Has(Utility(u), <<"await", u>>)
           /\ \A i \in 1 .. Len(Utility(u)) : Utility(u)[i][1] # "stop"
  <1>1. Utility(u) \in Seq(Call) /\ Utility(u) # <<>>
    BY DEF Utility, Call, Ops, Utilities
  <1>2. Len(Utility(u)) = 2 /\ Utility(u)[1] = <<"run", u>> /\ Utility(u)[2] = <<"await", u>>
    BY DEF Utility
  <1> QED
    BY <1>1, <1>2 DEF Block, Shut, Has, Linked, Link, OpeningOps

LEMMA OpeningFacts ==
    ASSUME NEW x \in Services
    PROVE  /\ Block(Opening(x), <<"start", x>>, <<"steady", x>>) /\ Proper(Opening(x))
           /\ Has(Opening(x), <<"steady", x>>)
           /\ \A i \in 1 .. Len(Opening(x)) : Opening(x)[i][1] \in OpeningOps
  <1>1. Opening(x) \in Seq(Call) /\ Opening(x) # <<>>
    BY DEF Opening, Call, Ops
  <1>2. Len(Opening(x)) = 2 /\ Opening(x)[1] = <<"start", x>>
        /\ Opening(x)[2] = <<"steady", x>>
    BY DEF Opening
  <1> QED
    BY <1>1, <1>2 DEF Block, Proper, Later, Has, Linked, Link, OpeningOps

\* The list of a single call.
LEMMA SingleFacts ==
    ASSUME NEW op \in {"tasks", "drained"}
    PROVE  /\ Block(<< <<op, "all">> >>, <<op, "all">>, <<op, "all">>)
           /\ Shut(<< <<op, "all">> >>)
           /\ \A i \in 1 .. Len(<< <<op, "all">> >>) :
                  << <<op, "all">> >>[i][1] \notin {"stop", "run"}
  <1> DEFINE c == <<op, "all">>
  <1>1. c \in Call /\ c[1] = op
    BY DEF Call, Ops
  <1> HIDE DEF c
  <1>2. << c >> \in Seq(Call) /\ << c >> # <<>> /\ Len(<< c >>) = 1 /\ << c >>[1] = c
    BY <1>1
  <1>3. Block(<< c >>, c, c)
    BY <1>2 DEF Block, Linked
  <1>4. Shut(<< c >>) /\ \A i \in 1 .. Len(<< c >>) : << c >>[i][1] \notin {"stop", "run"}
    BY <1>1, <1>2 DEF Shut, OpeningOps
  <1> QED
    BY <1>3, <1>4 DEF c

\* resume up to the first start: the verifier between two looks at the cluster.
LEMMA VerifiedFacts ==
    /\ Block(Verified, <<"tasks", "all">>, <<"drained", "all">>)
    /\ Shut(Verified) /\ Proper(Verified) /\ Has(Verified, <<"await", "verifier">>)
  <1> DEFINE s == << <<"tasks", "all">>, <<"drained", "all">> >>
             u == Utility("verifier")
             t == << <<"drained", "all">> >>
             v == (s \o u) \o t
  <1>1. Verified = v
    BY DEF Verified
  <1>2. /\ Len(s) = 2 /\ s[1] = <<"tasks", "all">> /\ s[2] = <<"drained", "all">>
        /\ s \in Seq(Call) /\ s # <<>>
    BY DEF Call, Ops
  <1>3. /\ Len(u) = 2 /\ u[1] = <<"run", "verifier">> /\ u[2] = <<"await", "verifier">>
        /\ u \in Seq(Call) /\ Shut(u) /\ Block(u, <<"run", "verifier">>, <<"await", "verifier">>)
    BY UtilityFacts DEF Utility, Block, Utilities
  <1>4. /\ t \in Seq(Call) /\ Len(t) = 1 /\ t[1] = <<"drained", "all">> /\ Shut(t)
        /\ Block(t, <<"drained", "all">>, <<"drained", "all">>)
    BY SingleFacts DEF Block
  <1> HIDE DEF s, u, t
  <1>5. Block(s, <<"tasks", "all">>, <<"drained", "all">>) /\ Shut(s)
    BY <1>2 DEF Block, Linked, Link, Shut, OpeningOps
  <1>6. Link(<<"drained", "all">>, <<"run", "verifier">>)
        /\ Link(<<"await", "verifier">>, <<"drained", "all">>)
    BY DEF Link
  <1>7. Block(s \o u, <<"tasks", "all">>, <<"await", "verifier">>) /\ Shut(s \o u)
    BY <1>2, <1>3, <1>5, <1>6, BlockConcat, ShutConcat
  <1> DEFINE w == s \o u
  <1>9. Len(w) = 4 /\ w \in Seq(Call)
        /\ w[1] = s[1] /\ w[2] = s[2] /\ w[3] = u[1] /\ w[4] = u[2]
    <2>4. s \in Seq(Call) /\ u \in Seq(Call) /\ Len(s) = 2 /\ Len(u) = 2
      BY <1>2, <1>3
    <2>5. Len(w) = Len(s) + Len(u) /\ w \in Seq(Call)
      BY <2>4, ConcatAt
    <2>1. Len(w) = 4 /\ w \in Seq(Call)
      BY <2>4, <2>5
    <2>2. \A k \in 1 .. Len(w) :
              (k <= 2 /\ w[k] = s[k]) \/ (k > 2 /\ w[k] = u[k - 2])
      BY <2>4, ConcatIndex
    <2> HIDE DEF w
    <2>3. w[1] = s[1] /\ w[2] = s[2] /\ w[3] = u[3 - 2] /\ w[4] = u[4 - 2]
      BY <2>1, <2>2
    <2> QED
      BY <2>1, <2>3
  <1>13. v = w \o t
    OBVIOUS
  <1> HIDE DEF w, v
  <1>8. Block(v, <<"tasks", "all">>, <<"drained", "all">>) /\ Shut(v)
    BY <1>4, <1>6, <1>7, <1>9, <1>13, BlockConcat, ShutConcat DEF w
  <1>10. Len(v) = 5 /\ v[1] = <<"tasks", "all">> /\ v[2] = <<"drained", "all">>
         /\ v[3] = <<"run", "verifier">> /\ v[4] = <<"await", "verifier">>
         /\ v[5] = <<"drained", "all">>
    <2>4. w \in Seq(Call) /\ t \in Seq(Call) /\ Len(w) = 4 /\ Len(t) = 1
      BY <1>4, <1>9
    <2>5. Len(v) = Len(w) + Len(t)
      BY <2>4, <1>13, ConcatAt
    <2>1. Len(v) = 5
      BY <2>4, <2>5
    <2>2. \A k \in 1 .. Len(v) :
              (k <= 4 /\ v[k] = w[k]) \/ (k > 4 /\ v[k] = t[k - 4])
      <3>1. \A k \in 1 .. Len(w \o t) :
                \/ k \in 1 .. Len(w) /\ (w \o t)[k] = w[k]
                \/ k > Len(w) /\ (w \o t)[k] = t[k - Len(w)]
        BY <2>4, ConcatIndex
      <3> QED
        BY <2>4, <3>1, <1>13
    <2>3. /\ v[1] = w[1] /\ v[2] = w[2] /\ v[3] = w[3] /\ v[4] = w[4]
          /\ v[5] = t[5 - 4]
      BY <2>1, <2>2
    <2> QED
      BY <1>2, <1>3, <1>4, <1>9, <2>1, <2>3
  <1>11. Has(v, <<"await", "verifier">>)
    BY <1>10 DEF Has
  <1>12. Proper(v)
    BY <1>10 DEF Proper, Later, OpeningOps
  <1> QED
    BY <1>1, <1>8, <1>11, <1>12

\* A list, and one service more.
LEMMA OpensOne ==
    ASSUME NEW s, NEW d, Block(s, <<"tasks", "all">>, d), d[1] \in {"drained", "steady"},
           Proper(s), Has(s, <<"await", "verifier">>), NEW x \in Services
    PROVE  /\ Block(s \o Opening(x), <<"tasks", "all">>, <<"steady", x>>)
           /\ Proper(s \o Opening(x)) /\ Has(s \o Opening(x), <<"await", "verifier">>)
           /\ Has(s \o Opening(x), <<"steady", x>>)
           /\ \A c : Has(s, c) => Has(s \o Opening(x), c)
  <1>1. s \in Seq(Call) /\ Opening(x) \in Seq(Call)
    BY OpeningFacts DEF Block
  <1>2. Link(d, <<"start", x>>)
    BY DEF Link
  <1> QED
    BY <1>1, <1>2, OpeningFacts, BlockConcat, ProperAfter, HasConcat

LEMMA ResumeFacts ==
    /\ \E d : Block(Resume, <<"tasks", "all">>, d)
    /\ Proper(Resume) /\ Has(Resume, <<"await", "verifier">>)
    /\ \A x \in Services : Has(Resume, <<"steady", x>>)
  <1> DEFINE r1 == Verified \o Opening("remote")
             r2 == r1 \o Opening("api")
             r3 == r2 \o Opening("worker")
             r4 == r3 \o Opening("observer")
             Good(r, x) == /\ Block(r, <<"tasks", "all">>, <<"steady", x>>) /\ Proper(r)
                           /\ Has(r, <<"await", "verifier">>) /\ Has(r, <<"steady", x>>)
  <1>1. {"remote", "api", "worker", "observer"} \subseteq Services
    BY DEF Services
  <1>2. Good(r1, "remote")
    BY <1>1, VerifiedFacts, OpensOne
  <1> HIDE DEF r1
  <1>3. Good(r2, "api") /\ \A c : Has(r1, c) => Has(r2, c)
    BY <1>1, <1>2, OpensOne
  <1> HIDE DEF r2
  <1>4. Good(r3, "worker") /\ \A c : Has(r2, c) => Has(r3, c)
    BY <1>1, <1>3, OpensOne
  <1> HIDE DEF r3
  <1>5. Good(r4, "observer") /\ \A c : Has(r3, c) => Has(r4, c)
    BY <1>1, <1>4, OpensOne
  <1>6. Resume = r4
    BY DEF Resume, r1, r2, r3
  <1> HIDE DEF r4
  <1>7. \A x \in Services : Has(r4, <<"steady", x>>)
    BY <1>2, <1>3, <1>4, <1>5 DEF Services
  <1> QED
    BY <1>5, <1>6, <1>7

\* Every command looks at the task revisions first; those that open the
\* cluster start every service, after the verifier; the others none.
LEMMA CallsFacts ==
    ASSUME NEW act \in Actions
    PROVE  /\ Calls(act) \in Seq(Call) /\ Calls(act)[1] = <<"tasks", "all">>
           /\ Linked(Calls(act))
           /\ act \in Opens => /\ Proper(Calls(act))
                               /\ Has(Calls(act), <<"await", "verifier">>)
                               /\ \A x \in Services : Has(Calls(act), <<"steady", x>>)
           /\ act \notin Opens => Shut(Calls(act))
  <1> DEFINE first == << <<"tasks", "all">> >>
             looks == << <<"drained", "all">> >>
             Starts(r) == /\ Proper(r) /\ Has(r, <<"await", "verifier">>)
                          /\ \A x \in Services : Has(r, <<"steady", x>>)
  <1>1. /\ first \in Seq(Call) /\ Len(first) = 1 /\ Shut(first)
        /\ Block(first, <<"tasks", "all">>, <<"tasks", "all">>)
        /\ \A i \in 1 .. Len(first) : first[i][1] \notin {"stop", "run"}
    BY SingleFacts DEF Block
  <1>2. /\ looks \in Seq(Call) /\ Shut(looks)
        /\ Block(looks, <<"drained", "all">>, <<"drained", "all">>)
    BY SingleFacts DEF Block
  <1> HIDE DEF first, looks
  <1>3. PICK d : Block(Resume, <<"tasks", "all">>, d)
    BY ResumeFacts
  <1>4. Quiesce \in Seq(Call) /\ Resume \in Seq(Call) /\ Starts(Resume)
    BY <1>3, QuiesceFacts, ResumeFacts DEF Block
  <1>5. \A c : c[1] \in {"tasks", "stop", "drained"} => Link(<<"tasks", "all">>, c)
    BY DEF Link
  <1>6. \A c : c[1] \in {"tasks", "stop"} => Link(<<"drained", "all">>, c)
    BY DEF Link
  <1>7. CASE act = "quiesce"
    <2>1. Calls(act) = first \o Quiesce
      BY <1>7 DEF Calls, first
    <2>2. Block(Calls(act), <<"tasks", "all">>, <<"drained", "all">>) /\ Shut(Calls(act))
      BY <1>1, <1>4, <1>5, <2>1, QuiesceFacts, BlockConcat, ShutConcat
    <2> QED
      BY <1>7, <2>2 DEF Opens, Block
  <1>8. CASE act = "resume"
    <2>1. Calls(act) = first \o Resume
      BY <1>8 DEF Calls, first
    <2>2. Block(Calls(act), <<"tasks", "all">>, d)
      BY <1>1, <1>3, <1>5, <2>1, BlockConcat
    <2>3. Starts(Calls(act))
      BY <1>1, <1>4, <2>1, ProperBefore, HasConcat
    <2> QED
      BY <1>8, <2>2, <2>3 DEF Opens, Block
  <1>9. CASE act = "rollback"
    <2> DEFINE r == Quiesce \o Resume
    <2>1. Calls(act) = first \o r
      BY <1>9 DEF Calls, first
    <2>2. Block(r, <<"stop", "api">>, d) /\ r \in Seq(Call)
      BY <1>3, <1>4, <1>6, QuiesceFacts, BlockConcat, ConcatAt
    <2>3. Starts(r)
      BY <1>4, QuiesceFacts, ProperBefore, HasConcat
    <2> HIDE DEF r
    <2>4. Block(Calls(act), <<"tasks", "all">>, d)
      BY <1>1, <1>5, <2>1, <2>2, BlockConcat
    <2>5. Starts(Calls(act))
      BY <1>1, <2>1, <2>2, <2>3, ProperBefore, HasConcat
    <2> QED
      BY <1>9, <2>4, <2>5 DEF Opens, Block
  <1>10. CASE act = "deploy"
    <2> DEFINE u == Utility("migration")
               q == Quiesce \o u
               r == q \o Resume
    <2>1. Calls(act) = first \o r
      BY <1>10 DEF Calls, first
    <2>2. /\ Block(u, <<"run", "migration">>, <<"await", "migration">>) /\ Shut(u)
          /\ u \in Seq(Call) /\ \A i \in 1 .. Len(u) : u[i][1] # "stop"
      BY UtilityFacts DEF Utilities, Block
    <2> HIDE DEF u
    <2>3. Link(<<"drained", "all">>, <<"run", "migration">>)
          /\ Link(<<"await", "migration">>, <<"tasks", "all">>)
      BY DEF Link
    <2>4. Block(q, <<"stop", "api">>, <<"await", "migration">>) /\ Shut(q)
      BY <1>4, <2>2, <2>3, QuiesceFacts, BlockConcat, ShutConcat
    <2>5. q \in Seq(Call) /\ \A i \in 1 .. Len(q) : q[i][1] = "stop" => q[i][2] \in Services
      BY <1>4, <2>2, QuiesceFacts, ConcatAt, ConcatIndex
    <2> HIDE DEF q
    <2>6. Block(r, <<"stop", "api">>, d) /\ r \in Seq(Call)
      BY <1>3, <1>4, <2>3, <2>4, <2>5, BlockConcat, ConcatAt
    <2>7. Starts(r)
      BY <1>4, <2>4, <2>5, ProperBefore, HasConcat
    <2> HIDE DEF r
    <2>8. Block(Calls(act), <<"tasks", "all">>, d)
      BY <1>1, <1>5, <2>1, <2>6, BlockConcat
    <2>9. Starts(Calls(act))
      BY <1>1, <2>1, <2>6, <2>7, ProperBefore, HasConcat
    <2> QED
      BY <1>10, <2>8, <2>9 DEF Opens, Block
  <1>11. CASE act = "verify"
    <2> DEFINE u == Utility("verifier")
               r == looks \o u
    <2>1. Calls(act) = first \o r
      BY <1>11 DEF Calls, first, looks
    <2>2. /\ Block(u, <<"run", "verifier">>, <<"await", "verifier">>) /\ Shut(u)
          /\ u \in Seq(Call)
      BY UtilityFacts DEF Utilities, Block
    <2> HIDE DEF u
    <2>3. Link(<<"drained", "all">>, <<"run", "verifier">>)
      BY DEF Link
    <2>4. Block(r, <<"drained", "all">>, <<"await", "verifier">>) /\ Shut(r)
          /\ r \in Seq(Call)
      BY <1>2, <2>2, <2>3, BlockConcat, ShutConcat, ConcatAt
    <2> HIDE DEF r
    <2>5. /\ Block(Calls(act), <<"tasks", "all">>, <<"await", "verifier">>)
          /\ Shut(Calls(act))
      BY <1>1, <1>5, <2>1, <2>4, BlockConcat, ShutConcat
    <2> QED
      BY <1>11, <2>5 DEF Opens, Block
  <1> QED
    BY <1>7, <1>8, <1>9, <1>10, <1>11 DEF Actions

\* The rest of a list.
LEMMA TailAt ==
    ASSUME NEW s \in Seq(Call), s # <<>>
    PROVE  /\ Tail(s) \in Seq(Call) /\ Len(s) \in Nat \ {0}
           /\ Len(Tail(s)) = Len(s) - 1 /\ Head(s) = s[1] /\ s[1] \in Call
           /\ \A i \in 1 .. Len(Tail(s)) : i + 1 \in 1 .. Len(s) /\ Tail(s)[i] = s[i + 1]
           /\ Len(s) > 1 => Tail(s) # <<>>
           /\ ~ Len(s) > 1 => Tail(s) = <<>>
  <1>1. /\ Tail(s) \in Seq(Call) /\ Len(Tail(s)) = Len(s) - 1
        /\ \A i \in 1 .. Len(Tail(s)) : Tail(s)[i] = s[i + 1]
    BY HeadTailProperties
  <1>2. Len(s) \in Nat \ {0}
    BY Nonempty
  <1>3. Head(s) = s[1] /\ s[1] \in Call
    BY <1>2
  <1>4. Tail(s) # <<>> <=> Len(Tail(s)) \in Nat \ {0}
    BY <1>1, Nonempty
  <1> QED
    BY <1>1, <1>2, <1>3, <1>4

LEMMA TailFacts ==
    ASSUME NEW s \in Seq(Call), s # <<>>
    PROVE  /\ Linked(s) => /\ Linked(Tail(s))
                           /\ Tail(s) # <<>> => Link(s[1], Tail(s)[1])
           /\ Proper(s) =>
                  /\ Proper(Tail(s))
                  /\ s[1][1] \in {"stop", "start"} => Has(Tail(s), <<"steady", s[1][2]>>)
                  /\ s[1][1] = "run" => Has(Tail(s), <<"await", "verifier">>)
                  /\ s[1][1] \in OpeningOps => ~ Has(s, <<"await", "verifier">>)
           /\ Shut(s) => Shut(Tail(s)) /\ s[1][1] \notin OpeningOps
           /\ \A c : Has(Tail(s), c) => Has(s, c)
           /\ \A c : Has(s, c) => s[1] = c \/ Has(Tail(s), c)
  <1> DEFINE t == Tail(s)
  <1>1. /\ t \in Seq(Call) /\ Len(s) \in Nat \ {0} /\ Len(t) = Len(s) - 1
        /\ \A i \in 1 .. Len(t) : i + 1 \in 1 .. Len(s) /\ t[i] = s[i + 1]
        /\ t # <<>> <=> Len(t) \in Nat \ {0}
    BY TailAt, Nonempty
  <1>2. \A j \in 1 .. Len(s) : j > 1 => j - 1 \in 1 .. Len(t) /\ t[j - 1] = s[j]
    <2> SUFFICES ASSUME NEW j \in 1 .. Len(s), j > 1
                 PROVE  j - 1 \in 1 .. Len(t) /\ t[j - 1] = s[j]
      OBVIOUS
    <2>1. j - 1 \in 1 .. Len(t) /\ (j - 1) + 1 = j
      BY <1>1
    <2> QED
      BY <1>1, <2>1
  <1> HIDE DEF t
  <1>3. \A c : \A i \in 1 .. Len(t) : Later(s, i + 1, c) => Later(t, i, c)
    <2> SUFFICES ASSUME NEW i \in 1 .. Len(t), NEW c, NEW j \in 1 .. Len(s),
                        i + 1 < j, s[j] = c
                 PROVE  Later(t, i, c)
      BY DEF Later
    <2>1. j - 1 \in 1 .. Len(t) /\ t[j - 1] = c /\ i < j - 1
      BY <1>1, <1>2
    <2> QED
      BY <2>1 DEF Later
  <1>4. \A c : Later(s, 1, c) => Has(t, c)
    BY <1>2 DEF Later, Has
  <1>5. ASSUME Linked(s)
        PROVE  Linked(t) /\ (t # <<>> => Link(s[1], t[1]))
    <2>1. ASSUME NEW i \in 1 .. Len(t), i + 1 <= Len(t)
          PROVE  Link(t[i], t[i + 1])
      <3>1. /\ t[i] = s[i + 1] /\ t[i + 1] = s[(i + 1) + 1]
            /\ i + 1 \in 1 .. Len(s) /\ (i + 1) + 1 <= Len(s)
        BY <1>1, <2>1
      <3> QED
        BY <1>5, <3>1 DEF Linked
    <2>2. ASSUME t # <<>>
          PROVE  Link(s[1], t[1])
      <3>1. 1 \in 1 .. Len(s) /\ 1 + 1 <= Len(s) /\ t[1] = s[1 + 1]
        BY <1>1, <2>2
      <3> QED
        BY <1>5, <3>1 DEF Linked
    <2> QED
      BY <2>1, <2>2 DEF Linked
  <1>6. ASSUME Proper(s)
        PROVE  /\ Proper(t)
               /\ s[1][1] \in {"stop", "start"} => Has(t, <<"steady", s[1][2]>>)
               /\ s[1][1] = "run" => Has(t, <<"await", "verifier">>)
               /\ s[1][1] \in OpeningOps => ~ Has(s, <<"await", "verifier">>)
    <2>1. ASSUME NEW i \in 1 .. Len(t)
          PROVE  /\ t[i][1] \in {"stop", "start"} => Later(t, i, <<"steady", t[i][2]>>)
                 /\ t[i][1] = "run" => Later(t, i, <<"await", "verifier">>)
                 /\ t[i][1] \in OpeningOps =>
                        \A j \in 1 .. Len(t) : i < j => t[j][1] \in OpeningOps
      <3>1. i + 1 \in 1 .. Len(s) /\ t[i] = s[i + 1]
        BY <1>1
      <3>2. ASSUME t[i][1] \in OpeningOps, NEW j \in 1 .. Len(t), i < j
            PROVE  t[j][1] \in OpeningOps
        <4>1. j + 1 \in 1 .. Len(s) /\ t[j] = s[j + 1] /\ i + 1 < j + 1
          BY <1>1, <3>2
        <4> QED
          BY <1>6, <3>1, <3>2, <4>1 DEF Proper
      <3> QED
        BY <1>3, <1>6, <3>1, <3>2 DEF Proper
    <2>2. 1 \in 1 .. Len(s)
      BY <1>1
    <2>3. ASSUME s[1][1] \in OpeningOps, Has(s, <<"await", "verifier">>)
          PROVE  FALSE
      <3>1. PICK j \in 1 .. Len(s) : s[j] = <<"await", "verifier">>
        BY <2>3 DEF Has
      <3>2. s[j][1] \notin OpeningOps
        BY <3>1 DEF OpeningOps
      <3>3. 1 < j
        BY <1>1, <2>3, <3>2
      <3>4. \A i \in 1 .. Len(s) : 1 < i => s[i][1] \in OpeningOps
        BY <1>6, <2>2, <2>3 DEF Proper
      <3> QED
        BY <3>2, <3>3, <3>4
    <2> QED
      BY <1>4, <1>6, <2>1, <2>2, <2>3 DEF Proper
  <1>7. Shut(s) => Shut(t) /\ s[1][1] \notin OpeningOps
    BY <1>1 DEF Shut
  <1>8. \A c : Has(t, c) => Has(s, c)
    BY <1>1 DEF Has
  <1>9. \A c : Has(s, c) => s[1] = c \/ Has(t, c)
    <2> SUFFICES ASSUME NEW c, NEW j \in 1 .. Len(s), s[j] = c, j # 1
                 PROVE  Has(t, c)
      BY DEF Has
    <2> QED
      BY <1>1, <1>2 DEF Has
  <1> QED
    BY <1>5, <1>6, <1>7, <1>8, <1>9 DEF t

-----------------------------------------------------------------------------
(* How a step moves the command.                                            *)
Succeeds ==
    /\ Busy /\ Done
    /\ \/ ValidateTasks /\ cmd.rel \in Approved
       \/ StopService \/ AwaitStable \/ (AssertDrained /\ Drained)
       \/ RunTask \/ (AwaitTask /\ job[Arg].exit = 0)
       \/ StartService \/ (AwaitSteady /\ Steady(Arg))

GoesWrong ==
    /\ Busy /\ Raised /\ UNCHANGED <<svc, safe, restored>>
    /\ \/ ValidateTasks \/ AssertDrained \/ AwaitTask \/ AwaitSteady
       \/ CallFails

Meanwhile ==
    /\ cmd' = cmd
    /\ \/ \E s \in Services : ServiceSettles(s) \/ RolledBack(s)
       \/ MigrationRuns \/ MigrationExits \/ VerifierExits
       \/ RestoreRequest \/ BindRestored \/ Reconcile \/ Effect

LEMMA CmdMoves ==
    ASSUME Next
    PROVE  Command \/ Succeeds \/ GoesWrong \/ ControllerDies \/ Meanwhile
  <1>1. CASE ValidateTasks \/ StopService \/ AwaitStable \/ AssertDrained
    BY <1>1 DEF ValidateTasks, StopService, AwaitStable, AssertDrained, Pending,
                Succeeds, GoesWrong
  <1>2. CASE RunTask \/ AwaitTask \/ StartService \/ AwaitSteady \/ CallFails
    BY <1>2 DEF RunTask, AwaitTask, StartService, AwaitSteady, CallFails, Pending,
                Succeeds, GoesWrong
  <1>3. CASE \/ \E s \in Services : ServiceSettles(s) \/ RolledBack(s)
             \/ MigrationRuns \/ MigrationExits \/ VerifierExits
             \/ RestoreRequest \/ BindRestored \/ Reconcile \/ Effect
    BY <1>3 DEF ServiceSettles, RolledBack, MigrationRuns, MigrationExits, VerifierExits,
                RestoreRequest, BindRestored, Reconcile, Effect, releaseVars, Meanwhile
  <1> QED
    BY <1>1, <1>2, <1>3 DEF Next

LEMMA CmdType ==
    ASSUME Inv
    PROVE  /\ cmd \in Commands /\ cmd.todo \in Seq(Call)
           /\ Busy => cmd.todo # <<>> /\ Head(cmd.todo) = cmd.todo[1]
  <1>1. cmd \in Commands /\ cmd.todo \in Seq(Call)
    BY DEF Inv, TypeOK, Commands, Call
  <1>2. Busy => cmd.todo # <<>>
    BY DEF Inv, Unfinished
  <1> QED
    BY <1>1, <1>2, TailAt

LEMMA CommandFacts ==
    ASSUME Inv, Command
    PROVE  /\ cmd'.act \in Actions /\ cmd'.todo = Calls(cmd'.act) /\ cmd'.st = "running"
           /\ ~ Busy /\ \A u \in Utilities : job[u].st # "stopping"
           /\ UNCHANGED <<bootVars, svc, job, safe, restored>>
  <1>1. PICK act \in Actions, r \in Releases :
            /\ cmd' = [act |-> act, rel |-> r, todo |-> Calls(act), st |-> "running",
                       n |-> cmd.n + 1]
            /\ ~ Busy /\ \A u \in Utilities : job[u].st # "stopping"
            /\ UNCHANGED <<bootVars, svc, job, safe, restored>>
    BY DEF Command
  <1> QED
    BY <1>1

LEMMA DoneFacts ==
    ASSUME Inv, Busy, Done
    PROVE  /\ cmd'.todo = Tail(cmd.todo) /\ cmd'.act = cmd.act /\ cmd'.rel = cmd.rel
           /\ Tail(cmd.todo) # <<>> => cmd'.st = cmd.st
           /\ Tail(cmd.todo) = <<>> =>
                  cmd'.st = IF cmd.st = "failing" THEN "failed" ELSE "completed"
           /\ cmd'.st \in {"running", "completed"} => cmd.st = "running"
           /\ Busy' <=> Tail(cmd.todo) # <<>>
  <1>1. cmd \in Commands /\ cmd.todo \in Seq(Call) /\ cmd.todo # <<>>
    BY CmdType
  <1> DEFINE rest == Tail(cmd.todo)
             st == IF Len(cmd.todo) > 1 THEN cmd.st
                   ELSE IF cmd.st = "failing" THEN "failed" ELSE "completed"
  <1>2. Len(cmd.todo) > 1 <=> rest # <<>>
    BY <1>1, TailAt
  <1>3. cmd' = [cmd EXCEPT !.todo = rest, !.st = st]
    BY <1>1 DEF Done, Commands
  <1>4. /\ rest # <<>> => st = cmd.st
        /\ rest = <<>> => st = IF cmd.st = "failing" THEN "failed" ELSE "completed"
    BY <1>2
  <1>5. cmd.st \in {"running", "failing"}
    BY DEF Busy
  <1> HIDE DEF rest, st
  <1>6. /\ cmd'.todo = rest /\ cmd'.st = st /\ cmd'.act = cmd.act /\ cmd'.rel = cmd.rel
    BY <1>1, <1>3 DEF Commands
  <1> QED
    BY <1>4, <1>5, <1>6 DEF Busy, rest

LEMMA RaisedFacts ==
    ASSUME Inv, Busy, Raised
    PROVE  /\ cmd'.act = cmd.act /\ cmd'.rel = cmd.rel
           /\ \/ /\ cmd'.todo = Quiesce /\ cmd'.st = "failing" /\ Running
                 /\ NextOp("start") \/ NextOp("steady")
              \/ cmd'.todo = <<>> /\ cmd'.st = "failed" /\ ~ Busy'
  <1>1. cmd \in Commands /\ Head(cmd.todo) = cmd.todo[1]
    BY CmdType
  <1>2. CASE cmd.st = "running" /\ Head(cmd.todo)[1] \in {"start", "steady"}
    BY <1>1, <1>2 DEF Raised, Commands, Running, NextOp
  <1>3. CASE ~ (cmd.st = "running" /\ Head(cmd.todo)[1] \in {"start", "steady"})
    BY <1>1, <1>3 DEF Raised, Commands, Busy
  <1> QED
    BY <1>2, <1>3

LEMMA DiesFacts ==
    ASSUME Inv, ControllerDies
    PROVE  /\ cmd'.todo = <<>> /\ cmd'.st = "failed" /\ ~ Busy'
           /\ UNCHANGED <<bootVars, svc, job, safe, restored>>
  BY CmdType DEF ControllerDies, Commands, Busy

\* Where a pending call is the next call.
LEMMA PendingFacts ==
    ASSUME Inv
    PROVE  \A op : Pending(op) => NextOp(op) /\ cmd.todo[1] = <<op, Arg>>
  <1> SUFFICES ASSUME NEW op, Pending(op)
               PROVE  NextOp(op) /\ cmd.todo[1] = <<op, Arg>>
    OBVIOUS
  <1>1. Busy /\ Head(cmd.todo) = cmd.todo[1] /\ cmd.todo[1] \in Call
    BY CmdType, TailAt DEF Pending
  <1> QED
    BY <1>1 DEF Pending, NextOp, Arg, Call

\* A call that succeeds is the step of its own name.
LEMMA SucceedsOp ==
    ASSUME Inv, Succeeds
    PROVE  /\ Busy /\ Done /\ cmd.todo[1][2] = Arg
           /\ NextOp("tasks") => ValidateTasks /\ cmd.rel \in Approved
           /\ NextOp("stop") => StopService
           /\ NextOp("drained") => AssertDrained /\ Drained
           /\ NextOp("run") => RunTask
           /\ NextOp("await") => AwaitTask /\ job[Arg].exit = 0
           /\ NextOp("start") => StartService
           /\ NextOp("steady") => AwaitSteady /\ Steady(Arg)
  <1>1. Busy /\ Done /\ cmd.todo[1][2] = Arg
    BY CmdType DEF Succeeds, Arg
  <1>2. \A op : Pending(op) => cmd.todo[1][1] = op
    BY PendingFacts DEF NextOp
  <1>3. \/ ValidateTasks /\ cmd.rel \in Approved /\ cmd.todo[1][1] = "tasks"
        \/ StopService /\ cmd.todo[1][1] = "stop"
        \/ AwaitStable /\ cmd.todo[1][1] = "stable"
        \/ AssertDrained /\ Drained /\ cmd.todo[1][1] = "drained"
        \/ RunTask /\ cmd.todo[1][1] = "run"
        \/ AwaitTask /\ job[Arg].exit = 0 /\ cmd.todo[1][1] = "await"
        \/ StartService /\ cmd.todo[1][1] = "start"
        \/ AwaitSteady /\ Steady(Arg) /\ cmd.todo[1][1] = "steady"
    <2>1. ValidateTasks => cmd.todo[1][1] = "tasks"
      BY <1>2 DEF ValidateTasks
    <2>2. StopService => cmd.todo[1][1] = "stop"
      BY <1>2 DEF StopService
    <2>3. AwaitStable => cmd.todo[1][1] = "stable"
      BY <1>2 DEF AwaitStable
    <2>4. AssertDrained => cmd.todo[1][1] = "drained"
      BY <1>2 DEF AssertDrained
    <2>5. RunTask => cmd.todo[1][1] = "run"
      BY <1>2 DEF RunTask
    <2>6. AwaitTask => cmd.todo[1][1] = "await"
      BY <1>2 DEF AwaitTask
    <2>7. StartService => cmd.todo[1][1] = "start"
      BY <1>2 DEF StartService
    <2>8. AwaitSteady => cmd.todo[1][1] = "steady"
      BY <1>2 DEF AwaitSteady
    <2> QED
      BY <2>1, <2>2, <2>3, <2>4, <2>5, <2>6, <2>7, <2>8 DEF Succeeds
  <1> QED
    BY <1>1, <1>3 DEF NextOp

\* No call succeeds without a trace in the command.
LEMMA DoneMoves ==
    ASSUME Inv, Busy, Done
    PROVE  cmd' # cmd
  <1>1. /\ cmd'.todo = Tail(cmd.todo)
        /\ Len(Tail(cmd.todo)) = Len(cmd.todo) - 1 /\ Len(cmd.todo) \in Nat
    BY CmdType, DoneFacts, TailAt
  <1> DEFINE m == Len(cmd.todo)
             n == Len(Tail(cmd.todo))
  <1>2. m # n
    BY <1>1
  <1>3. Tail(cmd.todo) = cmd.todo => n = m
    BY Zenon
  <1> QED
    BY <1>1, <1>2, <1>3

-----------------------------------------------------------------------------
(* The calls that are left.                                                 *)
LEMMA EmptyList == Linked(<<>>) /\ Proper(<<>>) /\ Shut(<<>>) /\ \A c : ~ Has(<<>>, c)
  BY DEF Linked, Proper, Shut, Has

LEMMA ListedNext ==
    ASSUME Inv, Listed, Next
    PROVE  Listed'
  <1>1. CASE Command
    BY <1>1, CommandFacts, CallsFacts
       DEF Listed, Busy, OpeningCommand, Running
  <1>6. ASSUME Succeeds
        PROVE  Busy /\ Done
    BY <1>6 DEF Succeeds
  <1>7. ASSUME GoesWrong
        PROVE  Busy /\ Raised
    BY <1>7 DEF GoesWrong
  <1>2. CASE Succeeds
    <2>1. cmd.todo \in Seq(Call) /\ cmd.todo # <<>>
      BY <1>2, <1>6, CmdType
    <2>2. Linked(Tail(cmd.todo)) /\ (Proper(cmd.todo) => Proper(Tail(cmd.todo)))
          /\ (Shut(cmd.todo) => Shut(Tail(cmd.todo)))
      BY <2>1, TailFacts DEF Listed
    <2>3. /\ OpeningCommand' => OpeningCommand
          /\ Busy' /\ ~ OpeningCommand' => ~ OpeningCommand
      BY <1>2, <1>6, DoneFacts DEF OpeningCommand, Running
    <2> QED
      BY <1>2, <1>6, <2>2, <2>3, DoneFacts DEF Listed
  <1>3. CASE GoesWrong
    <2>1. ~ OpeningCommand'
      BY <1>3, <1>7, RaisedFacts DEF OpeningCommand, Running
    <2>2. Linked(cmd'.todo) /\ Shut(cmd'.todo)
      BY <1>3, <1>7, RaisedFacts, QuiesceFacts, EmptyList DEF Block
    <2>3. ~ Busy' => cmd'.todo = <<>>
      BY <1>3, <1>7, RaisedFacts DEF Busy
    <2> QED
      BY <2>1, <2>2, <2>3 DEF Listed
  <1>4. CASE ControllerDies
    BY <1>4, DiesFacts, EmptyList DEF Listed, OpeningCommand, Running, Busy
  <1>5. CASE Meanwhile
    BY <1>5 DEF Meanwhile, Listed, OpeningCommand, Running, Busy
  <1> QED
    BY <1>1, <1>2, <1>3, <1>4, <1>5, CmdMoves

LEMMA ApprovedNext ==
    ASSUME Inv, ApprovedRuns, Next
    PROVE  ApprovedRuns'
  <1>1. CASE Command
    BY <1>1, CommandFacts, CallsFacts DEF ApprovedRuns, Running, NextOp, Busy
  <1>6. ASSUME Succeeds
        PROVE  Busy /\ Done
    BY <1>6 DEF Succeeds
  <1>7. ASSUME GoesWrong
        PROVE  Busy /\ Raised
    BY <1>7 DEF GoesWrong
  <1>2. CASE Succeeds
    <2>1. cmd'.st \in {"running", "completed"} => cmd.st = "running" /\ cmd'.rel = cmd.rel
      BY <1>2, <1>6, DoneFacts
    <2>2. CASE NextOp("tasks")
      <3>2. ValidateTasks /\ cmd.rel \in Approved
        BY <1>2, <2>2, SucceedsOp
      <3> QED
        BY <2>1, <3>2 DEF ApprovedRuns, Running
    <2>3. CASE ~ NextOp("tasks")
      BY <2>1, <2>3 DEF ApprovedRuns, Running
    <2> QED
      BY <2>2, <2>3
  <1>3. CASE GoesWrong
    BY <1>3, <1>7, RaisedFacts DEF ApprovedRuns, Running
  <1>4. CASE ControllerDies
    BY <1>4, DiesFacts DEF ApprovedRuns, Running
  <1>5. CASE Meanwhile
    BY <1>5 DEF Meanwhile, ApprovedRuns, Running, NextOp, Busy
  <1> QED
    BY <1>1, <1>2, <1>3, <1>4, <1>5, CmdMoves

\* The effect of a step on what the services want and run.
LEMMA SvcSteps ==
    ASSUME Inv, Next, NEW x \in Services
    PROVE  /\ Deployed(x) /\ cmd'.rel = cmd.rel =>
                  \/ Deployed(x)'
                  \/ (StopService \/ StartService) /\ Arg = x
           /\ svc[x].want /\ ~ svc'[x].want => StopService /\ Arg = x
           /\ ~ svc[x].want /\ svc'[x].want => StartService /\ Arg = x
           /\ ~ svc[x].up /\ svc'[x].up => svc[x].want /\ svc'[x].doc = secret[x]
           /\ svc[x].up /\ svc'[x].up => svc'[x].doc = svc[x].doc
  <1>1. /\ svc \in [Services -> [want : BOOLEAN, up : BOOLEAN, rel : Releases,
                                 prev : Releases, doc : Stored]]
        /\ svc[x] = [want |-> svc[x].want, up |-> svc[x].up, rel |-> svc[x].rel,
                     prev |-> svc[x].prev, doc |-> svc[x].doc]
    BY DEF Inv, TypeOK
  <1>2. CASE StopService
    BY <1>1, <1>2 DEF StopService, Deployed
  <1>3. CASE StartService
    BY <1>1, <1>3 DEF StartService, Deployed
  <1>4. ASSUME NEW s \in Services, ServiceSettles(s)
        PROVE  /\ svc'[x].want = svc[x].want
               /\ Deployed(x) /\ cmd'.rel = cmd.rel => Deployed(x)'
               /\ ~ svc[x].up /\ svc'[x].up => svc[x].want /\ svc'[x].doc = secret[x]
               /\ svc[x].up /\ svc'[x].up => svc'[x].doc = svc[x].doc
    <2>1. CASE x = s
      <3>1. /\ svc'[x].want = svc[x].want /\ svc'[x].up = svc[x].want
            /\ svc'[x].doc = IF svc[x].want THEN secret[x] ELSE NoDocument
            /\ svc[x].up # svc[x].want
        BY <1>1, <1>4, <2>1 DEF ServiceSettles
      <3> QED
        BY <1>1, <3>1 DEF Deployed
    <2>2. CASE x # s
      <3>1. svc'[x] = svc[x]
        BY <1>1, <1>4, <2>2 DEF ServiceSettles
      <3> QED
        BY <3>1 DEF Deployed
    <2> QED
      BY <2>1, <2>2
  <1>5. ASSUME NEW s \in Services, RolledBack(s)
        PROVE  /\ svc'[x].want = svc[x].want /\ svc'[x].up = svc[x].up
               /\ svc'[x].doc = svc[x].doc
               /\ Deployed(x) /\ cmd'.rel = cmd.rel => Deployed(x)'
    <2>1. CASE x = s
      BY <1>1, <1>5, <2>1 DEF RolledBack, Deployed
    <2>2. CASE x # s
      <3>1. svc'[x] = svc[x]
        BY <1>1, <1>5, <2>2 DEF RolledBack
      <3> QED
        BY <3>1 DEF Deployed
    <2> QED
      BY <2>1, <2>2
  <1>6. CASE UNCHANGED svc
    BY <1>6 DEF Deployed
  <1>7. \/ StopService \/ StartService \/ UNCHANGED svc
        \/ \E s \in Services : ServiceSettles(s) \/ RolledBack(s)
    BY DEF Next, Command, ValidateTasks, AwaitStable, AssertDrained, RunTask, AwaitTask,
           AwaitSteady, CallFails, ControllerDies, MigrationRuns, MigrationExits,
           VerifierExits, RestoreRequest, BindRestored, Reconcile, Effect, releaseVars
  <1> QED
    BY <1>2, <1>3, <1>4, <1>5, <1>6, <1>7

LEMMA WantedNext ==
    ASSUME Inv, Listed, WantedSteady, Next
    PROVE  WantedSteady'
  <1> SUFFICES ASSUME NEW x \in Services, NextCall(<<"steady", x>>)'
               PROVE  svc'[x].want
    BY DEF WantedSteady
  <1> DEFINE c == <<"steady", x>>
  <1>0. Busy' /\ cmd'.todo[1] = c /\ c[1] = "steady"
    BY DEF NextCall
  <1> HIDE DEF c
  <1>1. CASE Command
    BY <1>0, <1>1, CommandFacts, CallsFacts
  <1>2. CASE Succeeds
    <2>1. Busy /\ Done
      BY <1>2 DEF Succeeds
    <2>2. cmd.todo \in Seq(Call) /\ cmd.todo # <<>>
      BY <2>1, CmdType
    <2>3. cmd'.todo = Tail(cmd.todo) /\ Tail(cmd.todo) # <<>>
      BY <1>0, <2>1, DoneFacts
    <2>4. Link(cmd.todo[1], c)
      BY <1>0, <2>2, <2>3, TailFacts DEF Listed
    <2>5. cmd.todo[1] = <<"start", x>>
      BY <1>0, <2>4 DEF Link, c
    <2>6. StartService /\ Arg = x
      BY <1>2, <2>1, <2>5, SucceedsOp DEF NextOp
    <2> QED
      BY <2>6 DEF StartService, Inv, TypeOK
  <1>3. CASE GoesWrong
    <2>1. Busy /\ Raised
      BY <1>3 DEF GoesWrong
    <2>2. cmd'.todo = Quiesce
      BY <1>0, <2>1, RaisedFacts
    <2> QED
      BY <1>0, <2>2, QuiesceFacts DEF Block
  <1>4. CASE ControllerDies
    BY <1>0, <1>4, DiesFacts
  <1>5. CASE Meanwhile
    <2>1. NextCall(<<"steady", x>>) /\ ~ Pending("stop")
      BY <1>0, <1>5, PendingFacts DEF Meanwhile, NextCall, Busy, c, NextOp
    <2>2. svc[x].want
      BY <2>1 DEF WantedSteady
    <2> QED
      BY <2>1, <2>2, SvcSteps DEF StopService
  <1> QED
    BY <1>1, <1>2, <1>3, <1>4, <1>5, CmdMoves

LEMMA SteadyNext ==
    ASSUME Inv, Listed, WantedSteady, SteadyOrDeployed, Next
    PROVE  SteadyOrDeployed'
  <1> SUFFICES ASSUME NEW x \in Services, (cmd.act \in Opens)',
                      (cmd.st \in {"running", "completed"})'
               PROVE  Has(cmd'.todo, <<"steady", x>>) \/ Deployed(x)'
    BY DEF SteadyOrDeployed
  <1>1. CASE Command
    BY <1>1, CommandFacts, CallsFacts
  <1>2. CASE Succeeds
    <2>1. Busy /\ Done
      BY <1>2 DEF Succeeds
    <2>2. cmd.todo \in Seq(Call) /\ cmd.todo # <<>>
      BY <2>1, CmdType
    <2>3. /\ cmd'.todo = Tail(cmd.todo) /\ cmd'.rel = cmd.rel
          /\ cmd.act \in Opens /\ cmd.st = "running"
      BY <2>1, DoneFacts
    <2>4. Proper(cmd.todo)
      BY <2>3 DEF Listed, OpeningCommand, Running
    <2>5. CASE cmd.todo[1] = <<"steady", x>>
      <3>1. AwaitSteady /\ Steady(Arg) /\ Arg = x
        BY <1>2, <2>1, <2>5, SucceedsOp DEF NextOp
      <3>2. svc[x].want
        BY <2>1, <2>5 DEF WantedSteady, NextCall
      <3>3. Deployed(x) /\ svc' = svc
        BY <3>1, <3>2 DEF AwaitSteady, Steady, Deployed
      <3> QED
        BY <2>3, <3>3 DEF Deployed
    <2>6. CASE cmd.todo[1] # <<"steady", x>>
      <3>1. CASE Has(cmd.todo, <<"steady", x>>)
        BY <2>2, <2>3, <2>6, <3>1, TailFacts
      <3>2. CASE Deployed(x)
        <4>1. CASE (StopService \/ StartService) /\ Arg = x
          <5>1. cmd.todo[1][1] \in {"stop", "start"} /\ cmd.todo[1][2] = x
            BY <4>1, PendingFacts DEF StopService, StartService
          <5> QED
            BY <2>2, <2>3, <2>4, <5>1, TailFacts
        <4>2. CASE ~ ((StopService \/ StartService) /\ Arg = x)
          BY <2>3, <3>2, <4>2, SvcSteps
        <4> QED
          BY <4>1, <4>2
      <3> QED
        BY <2>3, <3>1, <3>2 DEF SteadyOrDeployed
    <2> QED
      BY <2>5, <2>6
  <1>3. CASE GoesWrong
    BY <1>3, RaisedFacts DEF GoesWrong
  <1>4. CASE ControllerDies
    BY <1>4, DiesFacts
  <1>5. CASE Meanwhile
    <2>1. cmd' = cmd /\ ~ StopService /\ ~ StartService
      <3>1. cmd' = cmd
        BY <1>5 DEF Meanwhile
      <3> QED
        BY <3>1, DoneMoves DEF StopService, StartService, Pending
    <2>2. Has(cmd.todo, <<"steady", x>>) \/ Deployed(x)
      BY <2>1 DEF SteadyOrDeployed
    <2> QED
      BY <2>1, <2>2, SvcSteps
  <1> QED
    BY <1>1, <1>2, <1>3, <1>4, <1>5, CmdMoves

-----------------------------------------------------------------------------
(* The one-off tasks.                                                       *)

\* The call a command waits for now, by the way it has come to it.
LEMMA HeadNext ==
    ASSUME Inv, Listed, Next, Busy'
    PROVE  \/ Command /\ cmd'.todo[1] = <<"tasks", "all">>
           \/ Succeeds /\ Busy /\ Done /\ Link(cmd.todo[1], cmd'.todo[1])
           \/ GoesWrong /\ cmd'.todo[1] = <<"stop", "api">>
           \/ Meanwhile /\ cmd' = cmd /\ Busy
  <1>1. CASE Command
    BY <1>1, CommandFacts, CallsFacts
  <1>2. CASE Succeeds
    <2>1. Busy /\ Done
      BY <1>2 DEF Succeeds
    <2>2. cmd.todo \in Seq(Call) /\ cmd.todo # <<>>
      BY <2>1, CmdType
    <2>3. cmd'.todo = Tail(cmd.todo) /\ Tail(cmd.todo) # <<>>
      BY <2>1, DoneFacts
    <2>4. Link(cmd.todo[1], cmd'.todo[1])
      BY <2>2, <2>3, TailFacts DEF Listed
    <2> QED
      BY <1>2, <2>1, <2>4
  <1>3. CASE GoesWrong
    <2>1. Busy /\ Raised
      BY <1>3 DEF GoesWrong
    <2>2. cmd'.todo = Quiesce
      BY <2>1, RaisedFacts
    <2> QED
      BY <1>3, <2>2, QuiesceFacts DEF Block
  <1>4. CASE ControllerDies
    BY <1>4, DiesFacts
  <1>5. CASE Meanwhile
    BY <1>5 DEF Meanwhile, Busy
  <1> QED
    BY <1>1, <1>2, <1>3, <1>4, <1>5, CmdMoves

\* The effect of a step on a task.
LEMMA JobSteps ==
    ASSUME Inv, Next, NEW u \in Utilities
    PROVE  /\ job'[u].st = "stopping" =>
                  \/ job[u].st = "stopping"
                  \/ CallFails /\ NextCall(<<"await", u>>)
           /\ Alive(u)' => \/ Alive(u)
                           \/ (RunTask \/ CallFails) /\ NextCall(<<"run", u>>)
  <1>1. job \in [Utilities -> [st : {"none", "running", "stopping", "stopped"},
                               exit : {0, 1}]]
    BY DEF Inv, TypeOK
  <1>2. CASE RunTask
    <2>1. Busy /\ NextOp("run") /\ cmd.todo[1] = <<"run", Arg>>
      BY <1>2, PendingFacts DEF RunTask, Pending
    <2>2. CASE Arg = u
      BY <1>1, <1>2, <2>1, <2>2 DEF RunTask, NextCall
    <2>3. CASE Arg # u
      <3>1. job'[u] = job[u]
        BY <1>1, <1>2, <2>3 DEF RunTask
      <3> QED
        BY <3>1 DEF Alive
    <2> QED
      BY <2>2, <2>3
  <1>3. CASE CallFails /\ job' # job
    <2>1. CASE Pending("await") /\ job' = [job EXCEPT ![Arg].st = "stopping"]
               /\ job[Arg].st = "running"
      <3>1. Busy /\ cmd.todo[1] = <<"await", Arg>>
        BY <2>1, PendingFacts DEF Pending
      <3>2. CASE Arg = u
        BY <1>1, <1>3, <2>1, <3>1, <3>2 DEF NextCall, Alive
      <3>3. CASE Arg # u
        <4>1. job'[u] = job[u]
          BY <1>1, <2>1, <3>3
        <4> QED
          BY <4>1 DEF Alive
      <3> QED
        BY <3>2, <3>3
    <2>2. CASE Pending("run") /\ job' = [job EXCEPT ![Arg] = [st |-> "running", exit |-> 0]]
      <3>1. Busy /\ cmd.todo[1] = <<"run", Arg>>
        BY <2>2, PendingFacts DEF Pending
      <3>2. CASE Arg = u
        BY <1>1, <1>3, <2>2, <3>1, <3>2 DEF NextCall
      <3>3. CASE Arg # u
        <4>1. job'[u] = job[u]
          BY <1>1, <2>2, <3>3
        <4> QED
          BY <4>1 DEF Alive
      <3> QED
        BY <3>2, <3>3
    <2> QED
      BY <1>3, <2>1, <2>2 DEF CallFails
  <1>4. CASE AwaitTask
    BY <1>1, <1>4 DEF AwaitTask, NoTask, Alive
  <1>5. CASE MigrationExits \/ VerifierExits
    BY <1>1, <1>5 DEF MigrationExits, VerifierExits, Exits, Alive
  <1>6. CASE UNCHANGED job
    BY <1>6 DEF Alive
  <1>7. \/ RunTask \/ CallFails \/ AwaitTask \/ MigrationExits \/ VerifierExits
        \/ UNCHANGED job
    BY DEF Next, Command, ValidateTasks, StopService, AwaitStable, AssertDrained,
           StartService, AwaitSteady, ControllerDies, ServiceSettles, RolledBack,
           MigrationRuns, RestoreRequest, BindRestored, Reconcile, Effect, releaseVars
  <1> QED
    BY <1>2, <1>3, <1>4, <1>5, <1>6, <1>7

\* Nobody but the command starts tasks or services.
LEMMA MeanwhileFacts ==
    ASSUME Inv, Next, cmd' = cmd
    PROVE  ~ StartService /\ ~ StopService /\ ~ RunTask /\ ~ CallFails
  <1>1. ASSUME Busy, Raised
        PROVE  FALSE
    BY <1>1, RaisedFacts DEF Running, Busy
  <1> QED
    BY <1>1, DoneMoves DEF StartService, StopService, RunTask, CallFails, Pending

\* Services stay down as long as none is started.
LEMMA ClosedStays ==
    ASSUME Inv, Next, Closed, ~ StartService
    PROVE  Closed'
  <1> SUFFICES ASSUME NEW x \in Services
               PROVE  ~ svc'[x].want /\ ~ svc'[x].up
    BY DEF Closed
  <1>1. ~ svc[x].want /\ ~ svc[x].up
    BY DEF Closed
  <1> QED
    BY <1>1, SvcSteps

LEMMA StoppingNext ==
    ASSUME Inv, Listed, NoneStopping, Next
    PROVE  NoneStopping'
  <1> SUFFICES ASSUME Busy', NEW u \in Utilities, job'[u].st = "stopping"
               PROVE  FALSE
    BY DEF NoneStopping
  <1>1. ASSUME Busy
        PROVE  FALSE
    <2>1. CallFails /\ NextCall(<<"await", u>>)
      BY <1>1, JobSteps DEF NoneStopping
    <2>2. Busy /\ Raised /\ ~ NextOp("start") /\ ~ NextOp("steady")
      BY <2>1 DEF CallFails, NextCall, NextOp
    <2> QED
      BY <2>2, RaisedFacts
  <1>2. CASE Command
    BY <1>2, CommandFacts
  <1> QED
    BY <1>1, <1>2, HeadNext DEF GoesWrong

LEMMA AloneNext ==
    ASSUME Inv, AliveAlone, TaskOrder, Next
    PROVE  AliveAlone'
  <1> SUFFICES ASSUME NEW u \in Utilities, Alive(u)'
               PROVE  Closed'
    BY DEF AliveAlone
  <1>1. Closed /\ ~ StartService
    <2>1. CASE Alive(u)
      <3>1. Closed /\ ~ NextOp("start")
        BY <2>1 DEF AliveAlone, TaskOrder
      <3> QED
        BY <3>1, PendingFacts DEF StartService
    <2>2. CASE NextCall(<<"run", u>>)
      <3>1. NextOp("run") /\ ~ NextOp("start")
        BY <2>2 DEF NextCall, NextOp
      <3> QED
        BY <3>1, PendingFacts DEF StartService, TaskOrder
    <2> QED
      BY <2>1, <2>2, JobSteps
  <1> QED
    BY <1>1, ClosedStays

\* What assert_drained has established, given that no task is stopping.
LEMMA DrainedFacts ==
    ASSUME Inv, NoneStopping, Busy, Drained
    PROVE  Closed /\ \A u \in Utilities : ~ Alive(u)
  BY DEF Drained, Closed, Alive, NoneStopping

LEMMA OrderNext ==
    ASSUME Inv, Listed, NoneStopping, TaskOrder, Next
    PROVE  TaskOrder'
  <1>1. ASSUME NextOp("run")' \/ NextOp("start")' \/ NextOp("steady")'
        PROVE  /\ \A u \in Utilities : ~ Alive(u)'
               /\ NextOp("run")' => Closed'
    <2> DEFINE c == cmd'.todo[1]
    <2>1. Busy' /\ c[1] \in {"run", "start", "steady"} /\ (NextOp("run")' => c[1] = "run")
      BY <1>1 DEF NextOp
    <2> HIDE DEF c
    <2>2. CASE Succeeds /\ Busy /\ Done /\ Link(cmd.todo[1], c)
      <3>1. CASE NextOp("drained")
        <4>1. Drained /\ UNCHANGED <<svc, job>>
          BY <2>2, <3>1, SucceedsOp DEF AssertDrained
        <4> QED
          BY <2>2, <4>1, DrainedFacts DEF Alive, Closed
      <3>2. CASE c[1] # "run" /\ (NextOp("start") \/ NextOp("steady"))
        <4>1. UNCHANGED job
          BY <2>2, <3>2, SucceedsOp DEF StartService, AwaitSteady
        <4> QED
          BY <2>1, <3>2, <4>1 DEF Alive, TaskOrder
      <3> QED
        BY <2>1, <2>2, <3>1, <3>2 DEF Link, NextOp
    <2>3. CASE Meanwhile /\ cmd' = cmd /\ Busy
      <3>1. /\ NextOp("run") \/ NextOp("start") \/ NextOp("steady")
            /\ NextOp("run")' => NextOp("run")
        BY <1>1, <2>3 DEF NextOp, Busy
      <3>2. \A u \in Utilities : ~ Alive(u)
        BY <3>1 DEF TaskOrder
      <3> QED
        BY <2>3, <3>1, <3>2, JobSteps, MeanwhileFacts, ClosedStays DEF TaskOrder
    <2> QED
      BY <2>1, <2>2, <2>3, HeadNext DEF c
  <1>2. ASSUME NEW u \in Utilities, NextCall(<<"await", u>>)', NEW w \in Utilities \ {u}
        PROVE  ~ Alive(w)'
    <2> DEFINE c == cmd'.todo[1]
    <2>1. Busy' /\ c = <<"await", u>> /\ c[1] = "await" /\ c[2] = u
      BY <1>2 DEF NextCall
    <2> HIDE DEF c
    <2>2. CASE Succeeds /\ Busy /\ Done /\ Link(cmd.todo[1], c)
      <3>1. NextOp("run") /\ cmd.todo[1] = <<"run", u>>
        BY <2>1, <2>2 DEF Link, NextOp
      <3>2. RunTask /\ Arg = u
        BY <2>2, <3>1, SucceedsOp
      <3>3. ~ Alive(w) /\ ~ NextCall(<<"run", w>>)
        BY <3>1 DEF TaskOrder, NextCall
      <3> QED
        BY <3>3, JobSteps
    <2>3. CASE Meanwhile /\ cmd' = cmd /\ Busy
      <3>1. NextCall(<<"await", u>>)
        BY <1>2, <2>3 DEF NextCall, Busy
      <3>2. ~ Alive(w)
        BY <3>1 DEF TaskOrder
      <3> QED
        BY <2>3, <3>2, JobSteps, MeanwhileFacts
    <2> QED
      BY <2>1, <2>2, <2>3, HeadNext DEF c
  <1> QED
    BY <1>1, <1>2 DEF TaskOrder

-----------------------------------------------------------------------------
(* The runs of the migration task.                                          *)

\* Who writes the secrets, the roles and the schemas.
BootMoves ==
    \/ /\ BootStart /\ (RunTask \/ CallFails) /\ NextCall(<<"run", "migration">>)
    \/ BootStep /\ MigrationRuns
    \/ BootDies /\ MigrationExits
    \/ RestoreRequest \/ BindRestored
    \/ UNCHANGED bootVars

LEMMA NextBoot ==
    ASSUME Inv, Next
    PROVE  BootMoves
  <1>1. CASE RunTask
    <2>1. Busy /\ cmd.todo[1] = <<"run", Arg>>
      BY <1>1, PendingFacts DEF RunTask, Pending
    <2> QED
      BY <1>1, <2>1 DEF RunTask, NextCall, BootMoves, bootVars
  <1>2. CASE CallFails
    <2>1. CASE Pending("run")
      <3>1. Busy /\ cmd.todo[1] = <<"run", Arg>>
        BY <2>1, PendingFacts DEF Pending
      <3> QED
        BY <1>2, <3>1 DEF CallFails, NextCall, BootMoves, bootVars
    <2>2. CASE ~ Pending("run")
      BY <1>2, <2>2 DEF CallFails, BootMoves, bootVars
    <2> QED
      BY <2>1, <2>2
  <1>3. CASE MigrationRuns \/ MigrationExits \/ RestoreRequest \/ BindRestored
    BY <1>3 DEF MigrationRuns, MigrationExits, BootMoves
  <1>4. CASE \/ Command \/ ValidateTasks \/ StopService \/ AwaitStable \/ AssertDrained
             \/ AwaitTask \/ StartService \/ AwaitSteady \/ ControllerDies
             \/ \E s \in Services : ServiceSettles(s) \/ RolledBack(s)
             \/ VerifierExits \/ Reconcile \/ Effect
    BY <1>4 DEF Command, ValidateTasks, StopService, AwaitStable, AssertDrained,
                AwaitTask, StartService, AwaitSteady, ControllerDies, ServiceSettles,
                RolledBack, VerifierExits, Reconcile, Effect, BootMoves
  <1> QED
    BY <1>1, <1>2, <1>3, <1>4 DEF Next

LEMMA BootShape ==
    ASSUME Inv
    PROVE  /\ boot \in Runs /\ boot.docs \in [RuntimeKeys -> Stored]
           /\ secret \in [RuntimeKeys -> Stored] /\ boot.pc \in Nat \ {0}
           /\ boot.host \in ControlHosts /\ bound \in ControlHosts
           /\ "receiver" \notin ControlHosts /\ Hosts = ControlHosts \union {"receiver"}
           /\ login \in [Hosts -> [RuntimeKeys -> 0 .. MaxBoots]]
           /\ ready \in [Hosts -> {"none", "migrated", "granted"}]
           /\ \A k : HostFor(k) \in Hosts
  <1>1. boot \in Runs
    BY DEF Inv, TypeOK, BootTypeOK
  <1> QED
    BY <1>1 DEF Inv, TypeOK, BootTypeOK, Runs, ControlHosts, Hosts, HostFor

LEMMA EndedFacts ==
    ASSUME NEW st
    PROVE  Ended(st).st = st /\ Ended(st).host = boot.host
  BY DEF Ended, NoBoot

LEMMA StartFacts ==
    ASSUME Inv, BootStart
    PROVE  /\ boot'.st = "collect" /\ boot'.host = bound
           /\ UNCHANGED <<secret, login, ready, bound>>
  <1> DEFINE tok == SurvivingToken(boot.n + 1)
             n == boot.n + 1
  <1>1. /\ boot' = [NoBoot EXCEPT !.st = "collect", !.n = n, !.tok = tok, !.host = bound]
        /\ UNCHANGED <<secret, login, ready, bound>>
    BY DEF BootStart
  <1> HIDE DEF n, tok
  <1> QED
    BY <1>1 DEF NoBoot

\* The six transactions, and what each of them leaves of the run.
LEMMA StepFacts ==
    ASSUME Inv, ApplyRoles \/ Migrate \/ Grants
    PROVE  /\ boot.st = "databases" /\ boot.pc \in 1 .. 6 /\ boot'.host = boot.host
           /\ UNCHANGED <<secret, bound>>
           /\ boot.pc = 6 => boot'.st = "done"
           /\ boot.pc # 6 => boot'.st = "databases" /\ boot'.pc = boot.pc + 1
                             /\ boot'.docs = boot.docs
           /\ boot.pc \in {1, 3} => ApplyRoles
           /\ boot.pc \in {2, 4} => Migrate
           /\ boot.pc \in {5, 6} => Grants
           /\ boot.pc \in {1, 2, 5} => Host = boot.host
           /\ boot.pc \in {3, 4, 6} => Host = "receiver"
  <1>1. PICK op : DatabaseStep(op) /\ NextStep /\ UNCHANGED <<secret, bound>>
                  /\ \/ op = "roles" /\ ApplyRoles
                     \/ op = "migrate" /\ Migrate
                     \/ op = "grants" /\ Grants
    BY DEF ApplyRoles, Migrate, Grants
  <1>2. /\ boot \in Runs /\ boot.st = "databases" /\ boot.pc \in Nat \ {0}
    BY <1>1, BootShape DEF DatabaseStep
  <1>3. boot.pc \in 1 .. 6
    BY <1>2, StepsFacts DEF Inv, BootInv, Position
  <1>4. /\ boot.pc = 6 => boot' = Ended("done")
        /\ boot.pc # 6 => boot' = [boot EXCEPT !.pc = @ + 1]
    BY <1>1, StepsFacts DEF NextStep
  <1>5. /\ boot'.host = boot.host
        /\ boot.pc = 6 => boot'.st = "done"
        /\ boot.pc # 6 => boot'.st = "databases" /\ boot'.pc = boot.pc + 1
                             /\ boot'.docs = boot.docs
    BY <1>2, <1>4, EndedFacts DEF Runs
  <1>6. /\ Steps[1][1] = "roles" /\ Steps[2][1] = "migrate" /\ Steps[3][1] = "roles"
        /\ Steps[4][1] = "migrate" /\ Steps[5][1] = "grants" /\ Steps[6][1] = "grants"
        /\ Steps[1][2] = boot.host /\ Steps[2][2] = boot.host /\ Steps[5][2] = boot.host
        /\ Steps[3][2] = "receiver" /\ Steps[4][2] = "receiver" /\ Steps[6][2] = "receiver"
    BY DEF Steps
  <1>7. Steps[boot.pc][1] = op
    BY <1>1 DEF DatabaseStep
  <1>8. /\ boot.pc \in {1, 3} => op = "roles"
        /\ boot.pc \in {2, 4} => op = "migrate"
        /\ boot.pc \in {5, 6} => op = "grants"
    BY <1>6, <1>7
  <1>9. /\ boot.pc \in {1, 2, 5} => Host = boot.host
        /\ boot.pc \in {3, 4, 6} => Host = "receiver"
    BY <1>6 DEF Host
  <1> QED
    BY <1>1, <1>2, <1>3, <1>5, <1>8, <1>9

\* The loops over the secrets.
LEMMA LoopFacts ==
    ASSUME Inv, CollectSecret \/ CompareTokens \/ RebindSecret \/ EnterDatabases
    PROVE  /\ boot.st \in {"collect", "rebind"} /\ boot'.host = boot.host
           /\ boot'.st # "done" /\ UNCHANGED <<login, ready, bound>>
  <1>1. boot \in Runs
    BY BootShape
  <1>2. /\ boot.st \in {"collect", "rebind"} /\ UNCHANGED <<login, ready, bound>>
        /\ \/ \E doc : boot' = [boot EXCEPT !.docs[KeyOrder[boot.pc]] = doc, !.pc = @ + 1]
           \/ boot' = [boot EXCEPT !.st = "rebind", !.pc = 1]
           \/ boot' = [boot EXCEPT !.st = "databases", !.pc = 1]
           \/ boot' = Ended("dead")
    BY DEF CollectSecret, CompareTokens, RebindSecret, EnterDatabases
  <1> QED
    BY <1>1, <1>2, EndedFacts DEF Runs

\* Only a new run looks at the binding; while the run's database is the restored
\* one, that has been restored.
LEMMA RestoredNext ==
    ASSUME Inv, RestoredKnown, Next
    PROVE  RestoredKnown'
  <1>1. restored' = restored \/ restored'
    BY DEF Next, Command, ValidateTasks, StopService, AwaitStable, AssertDrained, RunTask,
           AwaitTask, StartService, AwaitSteady, CallFails, ControllerDies,
           ServiceSettles, RolledBack, MigrationRuns, MigrationExits, VerifierExits,
           RestoreRequest, BindRestored, Reconcile, Effect, releaseVars
  <1>2. CASE BootStart
    BY <1>1, <1>2, StartFacts DEF RestoredKnown
  <1>3. CASE BootStep
    <2>1. boot'.host = boot.host /\ bound' = bound
      BY <1>3, StepFacts, LoopFacts DEF BootStep
    <2> QED
      BY <1>1, <2>1 DEF RestoredKnown
  <1>4. CASE BootDies
    BY <1>1, <1>4, EndedFacts DEF BootDies, RestoredKnown
  <1>5. CASE RestoreRequest
    BY <1>5 DEF RestoreRequest, RestoredKnown
  <1>6. CASE BindRestored
    BY <1>6 DEF BindRestored, RestoredKnown, releaseVars
  <1>7. CASE UNCHANGED bootVars
    BY <1>1, <1>7 DEF bootVars, RestoredKnown
  <1> QED
    BY <1>2, <1>3, <1>4, <1>5, <1>6, <1>7, NextBoot DEF BootMoves

\* The second loop binds every document it passes.
LEMMA ReboundNext ==
    ASSUME Inv, Rebound, Next
    PROVE  Rebound'
  <1> DEFINE loop == boot.st = "rebind" /\ boot.pc <= Len(KeyOrder)
  <1>1. CASE BootStart
    BY <1>1, StartFacts DEF Rebound
  <1>2. CASE CollectSecret
    <2>1. boot'.st = "collect"
      BY <1>2, BootShape DEF CollectSecret, Runs
    <2> QED
      BY <2>1 DEF Rebound
  <1>3. CASE CompareTokens
    <2>1. boot'.st = "dead" \/ (boot'.st = "rebind" /\ boot'.pc = 1)
      BY <1>3, BootShape, EndedFacts DEF CompareTokens, Runs
    <2>2. \A i \in DOMAIN KeyOrder : ~ (i < 1)
      BY KeyFacts
    <2> QED
      BY <2>1, <2>2 DEF Rebound
  <1>4. CASE RebindSecret
    <2> DEFINE k == KeyOrder[boot.pc]
               doc == [boot.docs[k] EXCEPT !.host = HostFor(k)]
    <2>1. /\ boot.st = "rebind" /\ boot.pc <= Len(KeyOrder) /\ boot.pc \in Nat \ {0}
          /\ boot' = [boot EXCEPT !.docs[k] = doc, !.pc = @ + 1] /\ boot \in Runs
      BY <1>4, BootShape DEF RebindSecret
    <2>2. k \in RuntimeKeys /\ boot.docs[k] # NoDocument
      BY <2>1, KeyFacts DEF Inv, BootInv, Collected
    <2>3. boot.docs[k] \in Document
      BY <2>2, BootShape, DocumentFacts
    <2>4. doc.host = HostFor(k)
      BY <2>3 DEF Document
    <2> HIDE DEF doc
    <2>5. /\ boot'.st = "rebind" /\ boot'.pc = boot.pc + 1 /\ boot'.host = boot.host
          /\ boot'.docs = [boot.docs EXCEPT ![k] = doc]
      BY <2>1 DEF Runs
    <2>6. boot'.docs[k] = doc /\ \A j \in RuntimeKeys \ {k} : boot'.docs[j] = boot.docs[j]
      BY <2>2, <2>5, BootShape
    <2>7. \A j : HostFor(j)' = HostFor(j)
      BY <2>5 DEF HostFor
    <2> SUFFICES ASSUME NEW i \in DOMAIN KeyOrder, i < boot.pc + 1
                 PROVE  boot'.docs[KeyOrder[i]].host = HostFor(KeyOrder[i])
      BY <2>5, <2>7 DEF Rebound
    <2>8. CASE KeyOrder[i] = k
      BY <2>4, <2>6, <2>8
    <2>9. CASE KeyOrder[i] # k
      <3>1. i < boot.pc /\ KeyOrder[i] \in RuntimeKeys
        BY <2>1, <2>9, KeyFacts
      <3> QED
        BY <2>1, <2>6, <2>9, <3>1 DEF Rebound
    <2> QED
      BY <2>8, <2>9
  <1>5. CASE EnterDatabases
    <2>1. /\ boot.st = "rebind" /\ boot.pc > Len(KeyOrder) /\ boot.pc \in Nat
          /\ boot'.st = "databases" /\ boot'.docs = boot.docs /\ boot'.host = boot.host
      BY <1>5, BootShape DEF EnterDatabases, Runs
    <2>2. \A j : HostFor(j)' = HostFor(j)
      BY <2>1 DEF HostFor
    <2>3. \A i \in DOMAIN KeyOrder : i < boot.pc
      BY <2>1, KeyFacts
    <2>4. \A j \in RuntimeKeys : boot.docs[j].host = HostFor(j)
      BY <2>1, <2>3, KeyFacts DEF Rebound
    <2> QED
      BY <2>1, <2>2, <2>4 DEF Rebound
  <1>6. CASE ApplyRoles \/ Migrate \/ Grants
    <2>1. \A j : HostFor(j)' = HostFor(j)
      BY <1>6, StepFacts DEF HostFor
    <2> QED
      BY <1>6, <2>1, StepFacts DEF Rebound
  <1>7. CASE BootDies
    BY <1>7, EndedFacts DEF BootDies, Rebound
  <1>8. CASE RestoreRequest \/ BindRestored \/ UNCHANGED bootVars
    BY <1>8 DEF RestoreRequest, BindRestored, bootVars, Rebound, HostFor
  <1> QED
    BY <1>1, <1>2, <1>3, <1>4, <1>5, <1>6, <1>7, <1>8, NextBoot DEF BootMoves, BootStep

\* A restored instance is not the one a run is about, which is known before.
LEMMA RestoreFacts ==
    ASSUME Inv, RestoredKnown, RestoreRequest
    PROVE  /\ boot' = boot /\ secret' = secret /\ bound' = bound
           /\ \A h \in {boot.host, "receiver"} : login'[h] = login[h] /\ ready'[h] = ready[h]
           /\ svc' = svc /\ Closed
           /\ boot.host \in safe => boot.host \in safe'
  <1>1. /\ login' = [login EXCEPT !["restored"] = login["first"]]
        /\ ready' = [ready EXCEPT !["restored"] = ready["first"]]
        /\ ~ restored /\ UNCHANGED <<secret, bound, boot, svc>> /\ Drained
        /\ safe \subseteq safe'
    BY DEF RestoreRequest
  <1>2. boot.host # "restored" /\ boot.host \in Hosts /\ "receiver" \in Hosts
    BY <1>1, BootShape DEF RestoredKnown
  <1> QED
    BY <1>1, <1>2, BootShape DEF Drained, Closed

\* Each transaction writes the passwords, the schema or the grants of its database.
LEMMA WrittenNext ==
    ASSUME Inv, Rebound, Written, RestoredKnown, Next
    PROVE  Written'
  <1>1. CASE BootStart
    BY <1>1, StartFacts DEF Written
  <1>2. CASE CollectSecret \/ CompareTokens \/ RebindSecret \/ EnterDatabases
    <2>1. boot'.st # "databases" \/ boot'.pc = 1
      BY <1>2, BootShape, EndedFacts
         DEF CollectSecret, CompareTokens, RebindSecret, EnterDatabases, Runs
    <2> QED
      BY <2>1 DEF Written
  <1>3. CASE ApplyRoles \/ Migrate \/ Grants
    <2>1. /\ boot.st = "databases" /\ boot.pc \in 1 .. 6 /\ boot'.host = boot.host
          /\ \A k \in RuntimeKeys : boot.docs[k].host = HostFor(k)
      BY <1>3, StepFacts DEF Rebound
    <2>2. boot.host \in Hosts /\ boot.host # "receiver" /\ "receiver" \in Hosts
          /\ "remote" \in RuntimeKeys
      BY BootShape, KeyFacts
    <2> SUFFICES ASSUME boot'.st = "databases"
                 PROVE  /\ boot'.pc > 1 => \A k \in RuntimeKeys :
                               k # "remote" => login'[boot.host][k] = boot'.docs[k].pw
                        /\ boot'.pc > 3 => login'["receiver"]["remote"] = boot'.docs["remote"].pw
                        /\ boot'.pc > 5 => ready'[boot.host] = "granted"
      BY <2>1 DEF Written
    <2>3. boot.pc # 6 /\ boot'.pc = boot.pc + 1 /\ boot'.docs = boot.docs
      BY <1>3, StepFacts
    <2>4. CASE boot.pc = 1
      <3>1. login' = [login EXCEPT ![boot.host] = Passwords(boot.host)]
        BY <1>3, <2>4, StepFacts DEF ApplyRoles
      <3>2. \A k \in RuntimeKeys : k # "remote" => Connects(k, boot.docs[k], boot.host)
        BY <2>1 DEF Connects, HostFor
      <3> QED
        BY <2>2, <2>3, <2>4, <3>1, <3>2, BootShape DEF Passwords
    <2>5. CASE boot.pc = 3
      <3>1. login' = [login EXCEPT !["receiver"] = Passwords("receiver")]
        BY <1>3, <2>5, StepFacts DEF ApplyRoles
      <3>2. Connects("remote", boot.docs["remote"], "receiver")
        BY <2>1, <2>2 DEF Connects, HostFor
      <3>3. login'["receiver"]["remote"] = boot.docs["remote"].pw
        BY <2>2, <3>1, <3>2, BootShape DEF Passwords
      <3>4. login'[boot.host] = login[boot.host]
        BY <2>2, <3>1, BootShape
      <3> QED
        BY <2>1, <2>2, <2>3, <2>5, <3>3, <3>4 DEF Written
    <2>6. CASE boot.pc \in {2, 4}
      <3>1. login' = login
        BY <1>3, <2>6, StepFacts DEF Migrate
      <3> QED
        BY <2>1, <2>3, <2>6, <3>1 DEF Written
    <2>7. CASE boot.pc = 5
      <3>1. login' = login /\ ready' = [ready EXCEPT ![boot.host] = "granted"]
        BY <1>3, <2>7, StepFacts DEF Grants
      <3>2. ready'[boot.host] = "granted"
        BY <2>2, <3>1, BootShape
      <3> QED
        BY <2>1, <2>3, <2>7, <3>1, <3>2 DEF Written
    <2> QED
      BY <2>1, <2>3, <2>4, <2>5, <2>6, <2>7
  <1>4. CASE BootDies
    BY <1>4, EndedFacts DEF BootDies, Written
  <1>5. CASE RestoreRequest
    BY <1>5, RestoreFacts DEF Written
  <1>6. CASE BindRestored \/ UNCHANGED bootVars
    BY <1>6 DEF BindRestored, bootVars, Written
  <1> QED
    BY <1>1, <1>2, <1>3, <1>4, <1>5, <1>6, NextBoot DEF BootMoves, BootStep

\* How a run comes to be, and to have been, one that finished.
LEMMA FinishedNext ==
    ASSUME Inv, RestoredKnown, Next, boot'.st = "done"
    PROVE  /\ boot'.host = boot.host /\ secret' = secret
           /\ \/ boot.st = "databases" /\ boot.pc = 6 /\ Grants /\ MigrationRuns
              \/ /\ boot.st = "done"
                 /\ \A h \in {boot.host, "receiver"} :
                        login'[h] = login[h] /\ ready'[h] = ready[h]
  <1>1. CASE BootStart
    BY <1>1, StartFacts
  <1>2. CASE BootStep /\ MigrationRuns
    BY <1>2, StepFacts, LoopFacts DEF BootStep
  <1>3. CASE BootDies
    BY <1>3, EndedFacts DEF BootDies
  <1>4. CASE RestoreRequest
    BY <1>4, RestoreFacts
  <1>5. CASE BindRestored \/ UNCHANGED bootVars
    BY <1>5 DEF BindRestored, bootVars
  <1> QED
    BY <1>1, <1>2, <1>3, <1>4, <1>5, NextBoot DEF BootMoves

LEMMA SettledNext ==
    ASSUME Inv, Rebound, Written, Settled, RestoredKnown, Next
    PROVE  Settled'
  <1> SUFFICES ASSUME boot'.st = "done", NEW k \in RuntimeKeys
               PROVE  Agrees(k)'
    BY DEF Settled
  <1>1. boot'.host = boot.host /\ secret' = secret /\ HostFor(k)' = HostFor(k)
    BY FinishedNext DEF HostFor
  <1>2. HostFor(k) \in {boot.host, "receiver"}
    BY DEF HostFor
  <1>3. CASE boot.st = "databases" /\ boot.pc = 6 /\ Grants
    <2>1. login' = login /\ ready' = [ready EXCEPT !["receiver"] = "granted"]
      BY <1>3, StepFacts DEF Grants
    <2>2. boot.docs[k] = secret[k]
      BY <1>3 DEF Inv, BootInv, Collected, DocsStored, Booting
    <2>3. /\ boot.docs[k].host = HostFor(k)
          /\ login[HostFor(k)][k] = boot.docs[k].pw
          /\ ready[boot.host] = "granted"
      BY <1>3 DEF Rebound, Written, HostFor
    <2>4. ready'[HostFor(k)] = "granted"
      BY <1>2, <2>1, <2>3, BootShape
    <2> QED
      BY <1>1, <2>1, <2>2, <2>3, <2>4 DEF Agrees
  <1>4. CASE /\ boot.st = "done"
             /\ \A h \in {boot.host, "receiver"} :
                    login'[h] = login[h] /\ ready'[h] = ready[h]
    BY <1>1, <1>2, <1>4 DEF Settled, Agrees
  <1> QED
    BY <1>3, <1>4, FinishedNext

LEMMA CurrentNext ==
    ASSUME Inv, AliveAlone, RestoredKnown, DocsCurrent, Next
    PROVE  DocsCurrent'
  <1> SUFFICES ASSUME boot'.st = "done", NEW x \in Services, svc'[x].up
               PROVE  svc'[x].doc = secret'[x]
    BY DEF DocsCurrent
  <1>1. secret' = secret
    BY FinishedNext
  <1>2. CASE MigrationRuns
    <2>1. Closed /\ svc' = svc
      BY <1>2 DEF MigrationRuns, AliveAlone, Utilities
    <2> QED
      BY <2>1 DEF Closed
  <1>3. CASE boot.st = "done"
    <2>1. svc[x].up => svc[x].doc = secret[x]
      BY <1>3 DEF DocsCurrent
    <2> QED
      BY <1>1, <2>1, SvcSteps DEF Inv, TypeOK
  <1> QED
    BY <1>2, <1>3, FinishedNext

-----------------------------------------------------------------------------
(* What the verifier has established.                                       *)

\* An effect that is committed comes from the bound database once a bootstrap has
\* finished: its result does not cost that database its agreement.
LEMMA SafeKept ==
    ASSUME Inv, DataInv, Reconciled, Next, ~ MigrationRuns
    PROVE  Reconciled'
  <1> SUFFICES ASSUME boot'.st = "done"
               PROVE  boot'.host \in safe'
    BY DEF Reconciled
  <1>1. boot.st = "done" /\ boot'.host = boot.host
    BY FinishedNext DEF DataInv
  <1>2. boot.host \in safe
    BY <1>1 DEF Reconciled
  <1>3. CASE Effect
    <2>1. svc["worker"].up /\ safe' = safe \intersect {svc["worker"].doc.host}
      BY <1>3 DEF Effect
    <2>2. "worker" \in Services /\ "worker" \in RuntimeKeys
      BY KeyFacts DEF Services
    <2>3. svc["worker"].doc.host = boot.host
      BY <1>1, <2>1, <2>2 DEF DataInv, DocsCurrent, Settled, Agrees, HostFor
    <2> QED
      BY <1>1, <1>2, <2>1, <2>3
  <1>4. CASE RestoreRequest
    BY <1>1, <1>2, <1>4, RestoreFacts DEF DataInv
  <1>5. CASE Reconcile
    BY <1>1, <1>2, <1>5 DEF Reconcile
  <1>6. CASE UNCHANGED safe
    BY <1>1, <1>2, <1>6
  <1>7. Effect \/ RestoreRequest \/ Reconcile \/ UNCHANGED safe
    BY DEF Next, Command, ValidateTasks, StopService, AwaitStable, AssertDrained, RunTask,
           AwaitTask, StartService, AwaitSteady, CallFails, ControllerDies,
           ServiceSettles, RolledBack, MigrationRuns, MigrationExits, VerifierExits,
           BindRestored, releaseVars
  <1> QED
    BY <1>3, <1>4, <1>5, <1>6, <1>7

\* The first service is started by a command that has had its verifier succeed.
LEMMA OpenNext ==
    ASSUME Inv, Listed, AliveAlone, DataInv, VerifiedOpens, OpenReconciled, Next
    PROVE  OpenReconciled'
  <1> SUFFICES ASSUME ~ Closed'
               PROVE  Reconciled'
    BY DEF OpenReconciled
  <1>1. CASE StartService
    <2>1. Busy /\ cmd.todo[1][1] = "start" /\ cmd.todo \in Seq(Call) /\ cmd.todo # <<>>
      BY <1>1, PendingFacts, CmdType DEF StartService, Pending, NextOp
    <2>2. OpeningCommand
      BY <2>1, TailFacts DEF Listed, OpeningOps
    <2>3. ~ Has(cmd.todo, <<"await", "verifier">>)
      BY <2>1, <2>2, TailFacts DEF Listed, OpeningOps
    <2>4. Reconciled
      BY <2>2, <2>3 DEF VerifiedOpens
    <2> QED
      BY <1>1, <2>4 DEF StartService, Reconciled, bootVars
  <1>2. CASE ~ StartService
    <2>1. ~ Closed /\ Reconciled
      BY <1>2, ClosedStays DEF OpenReconciled
    <2>2. ~ MigrationRuns
      BY <2>1 DEF MigrationRuns, AliveAlone, Utilities
    <2> QED
      BY <2>1, <2>2, SafeKept
  <1> QED
    BY <1>1, <1>2

LEMMA VerifierNext ==
    ASSUME Inv, Listed, TaskOrder, DataInv, VerifierTrue, Next
    PROVE  VerifierTrue'
  <1> SUFFICES ASSUME NextCall(<<"await", "verifier">>)', job'["verifier"].st = "stopped",
                      job'["verifier"].exit = 0
               PROVE  Reconciled'
    BY DEF VerifierTrue
  <1> DEFINE c == cmd'.todo[1]
  <1>1. Busy' /\ c = <<"await", "verifier">> /\ c[1] = "await" /\ c[2] = "verifier"
    BY DEF NextCall
  <1> HIDE DEF c
  <1>2. CASE Succeeds /\ Busy /\ Done /\ Link(cmd.todo[1], c)
    <2>1. NextOp("run") /\ cmd.todo[1] = <<"run", "verifier">>
      BY <1>1, <1>2 DEF Link, NextOp
    <2>2. RunTask /\ Arg = "verifier"
      BY <1>2, <2>1, SucceedsOp
    <2> QED
      BY <2>2 DEF RunTask, Inv, TypeOK, Utilities
  <1>3. CASE Meanwhile /\ cmd' = cmd /\ Busy
    <2>1. NextCall(<<"await", "verifier">>)
      BY <1>1, <1>3 DEF NextCall, c
    <2>2. ~ Alive("migration") /\ ~ MigrationRuns
      BY <2>1 DEF TaskOrder, Utilities, MigrationRuns
    <2>3. CASE VerifierExits
      <3>1. Proved /\ UNCHANGED <<boot, safe>>
        BY <2>3 DEF VerifierExits, Exits, Inv, TypeOK, Utilities, bootVars
      <3>2. boot.st = "done" => secret["verifier"].host = boot.host
        BY KeysAssumption DEF DataInv, Settled, Agrees, HostFor
      <3> QED
        BY <3>1, <3>2 DEF Proved, Reconciled
    <2>4. CASE ~ VerifierExits
      <3>1. job' = job
        BY <1>3, <2>2, <2>4
           DEF Meanwhile, ServiceSettles, RolledBack, MigrationExits, RestoreRequest,
               BindRestored, Reconcile, Effect, releaseVars
      <3>2. Reconciled
        BY <2>1, <3>1 DEF VerifierTrue
      <3> QED
        BY <2>2, <3>2, SafeKept
    <2> QED
      BY <2>3, <2>4
  <1> QED
    BY <1>1, <1>2, <1>3, HeadNext DEF c

LEMMA VerifiedNext ==
    ASSUME Inv, Listed, TaskOrder, DataInv, VerifierTrue, VerifiedOpens, Next
    PROVE  VerifiedOpens'
  <1> DEFINE c == <<"await", "verifier">>
  <1> SUFFICES ASSUME OpeningCommand', ~ Has(cmd'.todo, c)
               PROVE  ~ Alive("migration")' /\ Reconciled'
    BY DEF VerifiedOpens
  <1>1. ASSUME ~ Alive("migration"), Reconciled, ~ NextCall(<<"run", "migration">>)
        PROVE  ~ Alive("migration")' /\ Reconciled'
    BY <1>1, JobSteps, SafeKept DEF Utilities, MigrationRuns
  <1>2. CASE Command
    BY <1>2, CommandFacts, CallsFacts DEF OpeningCommand
  <1>3. CASE Succeeds
    <2>1. Busy /\ Done /\ cmd.todo \in Seq(Call) /\ cmd.todo # <<>>
      BY <1>3, CmdType DEF Succeeds
    <2>2. OpeningCommand /\ cmd'.todo = Tail(cmd.todo)
      BY <2>1, DoneFacts DEF OpeningCommand, Running
    <2>3. cmd.todo[1][1] # "run"
      BY <2>1, <2>2, TailFacts DEF Listed
    <2>4. ~ NextCall(<<"run", "migration">>)
      BY <2>3 DEF NextCall
    <2>5. CASE ~ Has(cmd.todo, c)
      BY <1>1, <2>2, <2>4, <2>5 DEF VerifiedOpens
    <2>6. CASE Has(cmd.todo, c)
      <3>0. cmd.todo[1] = c
        BY <2>1, <2>2, <2>6, TailFacts
      <3>1. NextCall(c) /\ NextOp("await") /\ cmd.todo[1][2] = "verifier"
        BY <2>1, <3>0 DEF NextCall, NextOp
      <3>2. job["verifier"].exit = 0 /\ job["verifier"].st = "stopped"
        BY <1>3, <3>1, SucceedsOp DEF AwaitTask
      <3>3. Reconciled /\ ~ Alive("migration")
        BY <3>1, <3>2 DEF VerifierTrue, TaskOrder, Utilities
      <3> QED
        BY <1>1, <2>4, <3>3
    <2> QED
      BY <2>5, <2>6
  <1>4. CASE GoesWrong
    <2>1. ~ OpeningCommand'
      BY <1>4, RaisedFacts DEF GoesWrong, OpeningCommand, Running
    <2> QED
      BY <2>1
  <1>5. CASE ControllerDies
    BY <1>5, DiesFacts DEF OpeningCommand, Running
  <1>6. CASE Meanwhile
    <2>1. cmd' = cmd /\ ~ RunTask /\ ~ CallFails
      BY <1>6, MeanwhileFacts DEF Meanwhile
    <2>2. ~ Alive("migration") /\ Reconciled
      BY <2>1 DEF VerifiedOpens, OpeningCommand, Running
    <2> QED
      BY <2>1, <2>2, JobSteps, SafeKept DEF Utilities, MigrationRuns
  <1> QED
    BY <1>2, <1>3, <1>4, <1>5, <1>6, CmdMoves

-----------------------------------------------------------------------------
LEMMA InitSafety ==
    ASSUME Init
    PROVE  SafetyInv
  <1>1. PICK r \in Approved :
            /\ svc = [s \in Services |-> [want |-> FALSE, up |-> FALSE, rel |-> r,
                                          prev |-> r, doc |-> NoDocument]]
            /\ cmd = [act |-> "quiesce", rel |-> r, todo |-> <<>>, st |-> "completed",
                      n |-> 0]
    BY DEF Init
  <1>2. ~ Busy /\ ~ Running /\ cmd.act \notin Opens /\ cmd.todo = <<>> /\ cmd.rel \in Approved
    BY <1>1 DEF Busy, Running, Opens
  <1>3. Closed /\ \A u \in Utilities : ~ Alive(u)
    BY <1>1 DEF Closed, Alive, Init, NoTask
  <1>4. boot.st = "none" /\ boot.host = "first" /\ bound = "first"
    BY DEF Init, BootInit, NoBoot
  <1>5. CmdInv
    BY <1>2, EmptyList DEF CmdInv, Listed, OpeningCommand, ApprovedRuns, SteadyOrDeployed,
                           WantedSteady, NextCall
  <1>6. TaskInv
    BY <1>2, <1>3 DEF TaskInv, NoneStopping, AliveAlone, TaskOrder, NextOp, NextCall
  <1>7. DataInv
    BY <1>4 DEF DataInv, Rebound, Written, Settled, RestoredKnown, DocsCurrent
  <1>8. SafeInv
    BY <1>2, <1>3, <1>4
       DEF SafeInv, VerifierTrue, VerifiedOpens, OpenReconciled, NextCall, OpeningCommand
  <1> QED
    BY <1>5, <1>6, <1>7, <1>8 DEF SafetyInv

LEMMA StepSafety ==
    ASSUME Inv, SafetyInv, [Next]_vars
    PROVE  SafetyInv'
  <1>1. CASE Next
    <2>1. CmdInv'
      BY <1>1, ListedNext, ApprovedNext, SteadyNext, WantedNext DEF SafetyInv, CmdInv
    <2>2. TaskInv'
      BY <1>1, StoppingNext, AloneNext, OrderNext DEF SafetyInv, CmdInv, TaskInv
    <2>3. DataInv'
      BY <1>1, ReboundNext, WrittenNext, SettledNext, RestoredNext, CurrentNext
         DEF SafetyInv, TaskInv, DataInv
    <2>4. SafeInv'
      BY <1>1, VerifierNext, VerifiedNext, OpenNext
         DEF SafetyInv, CmdInv, TaskInv, SafeInv
    <2> QED
      BY <2>1, <2>2, <2>3, <2>4 DEF SafetyInv
  <1>2. CASE UNCHANGED vars
    <2>1. UNCHANGED <<secret, login, ready, bound, boot, svc, job, cmd, safe, restored>>
      BY <1>2 DEF vars, bootVars, releaseVars
    <2>2. CmdInv'
      BY <2>1 DEF SafetyInv, CmdInv, Listed, OpeningCommand, Running, Busy, ApprovedRuns,
                  NextOp, SteadyOrDeployed, Deployed, WantedSteady, NextCall
    <2>3. TaskInv'
      BY <2>1 DEF SafetyInv, TaskInv, NoneStopping, AliveAlone, TaskOrder, Alive, Closed,
                  Busy, NextOp, NextCall
    <2>4. DataInv'
      BY <2>1 DEF SafetyInv, DataInv, Rebound, Written, Settled, Agrees, HostFor,
                  RestoredKnown, DocsCurrent
    <2>5. SafeInv'
      BY <2>1 DEF SafetyInv, SafeInv, VerifierTrue, VerifiedOpens, OpenReconciled,
                  OpeningCommand, Running, Alive, Closed, Reconciled, NextCall, Busy
    <2> QED
      BY <2>2, <2>3, <2>4, <2>5 DEF SafetyInv
  <1> QED
    BY <1>1, <1>2

\* release.py:115, cloud.py:83: in every state of every run, whatever calls fail,
\* controllers die, tasks outlive them or services roll back, the calls that are
\* left, the tasks that may be alive, what the migration task has written and what
\* the verifier has seen stand in the relation that SafetyInv states.
THEOREM SafetyInvariance == Spec => []SafetyInv
  <1> QED
    BY Invariance, InitSafety, StepSafety, PTL DEF Spec

\* release.py:127-130: a deploy, resume or rollback that is recorded as completed has
\* left every service up and wanted, on the approved revision that was asked for,
\* whatever ECS has rolled back meanwhile: for any releases and number of commands.
THEOREM CompletedDeploys == Spec => []CompletedIsDeployed
  <1>1. SafetyInv => CompletedIsDeployed
    BY EmptyList DEF SafetyInv, CmdInv, Listed, Busy, ApprovedRuns, SteadyOrDeployed,
                     Deployed, Opens, CompletedIsDeployed
  <1> QED
    BY SafetyInvariance, <1>1, PTL

\* release.py:70: no service is up while a one-off task runs, also one that a killed
\* controller left behind.
THEOREM UtilitiesAlone == Spec => []UtilityAlone
  <1>1. SafetyInv => UtilityAlone
    BY DEF SafetyInv, TaskInv, AliveAlone, Alive, Closed, UtilityAlone, Up
  <1> QED
    BY SafetyInvariance, <1>1, PTL

\* cloud.py:86: for any list of secrets, after a bootstrap that finished every service
\* that is up holds a DSN of the database that was bound, the password its role has
\* there and a schema with its grants, however often earlier runs were interrupted.
THEOREM CredentialsStand == Spec => []CredentialsAgree
  <1>1. Inv /\ SafetyInv => CredentialsAgree
    <2> SUFFICES ASSUME SafetyInv, boot.st = "done", NEW s \in Services, svc[s].up
                 PROVE  /\ svc[s].doc.host = HostFor(s)
                        /\ login[svc[s].doc.host][s] = svc[s].doc.pw
                        /\ ready[svc[s].doc.host] = "granted"
      BY DEF CredentialsAgree, Up
    <2>1. svc[s].doc = secret[s] /\ Agrees(s)
      BY ReleaseAssumption DEF SafetyInv, DataInv, DocsCurrent, Settled
    <2> QED
      BY <2>1 DEF Agrees
  <1> QED
    BY Invariance, SafetyInvariance, <1>1, PTL

\* release.py:119: after a bootstrap that finished, services run only on a control
\* database that agrees with the receiver: the verifier of the command that
\* opened the cluster has seen it, and no effect since came from another one.
THEOREM ServicesRunReconciled == Spec => []ServicesReconciled
  <1>1. SafetyInv => ServicesReconciled
    <2> SUFFICES ASSUME SafetyInv, boot.st = "done", NEW s \in Services \ {"remote"}, svc[s].up
                 PROVE  svc[s].doc.host \in safe
      BY DEF ServicesReconciled, Up
    <2>1. svc[s].doc = secret[s] /\ Agrees(s)
      BY ReleaseAssumption DEF SafetyInv, DataInv, DocsCurrent, Settled
    <2>2. boot.host \in safe
      BY DEF SafetyInv, SafeInv, OpenReconciled, Closed, Reconciled
    <2> QED
      BY <2>1, <2>2 DEF Agrees, HostFor
  <1> QED
    BY SafetyInvariance, <1>1, PTL
=============================================================================
