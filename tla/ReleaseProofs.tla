---------------------------- MODULE ReleaseProofs ---------------------------
(***************************************************************************)
(* Proofs about Release: for any releases, secrets, bounds on commands and *)
(* runs of the migration task, and any interruption of these, all state    *)
(* keeps its shape and the holders of the executor token agree.            *)
(*                                                                         *)
(* A run of the migration task decides on the token before it writes, and  *)
(* what it writes is what it holds in memory: both must be known of every  *)
(* state in between, for the run may end there (TokenKept, DocsStored).    *)
(***************************************************************************)
EXTENDS Release, SequenceTheorems, TLAPS

\* A run that is under way has a number, and passwords and a token to give.
Numbered == Booting => boot.n \in Drawn /\ boot.tok \in Drawn

\* The loops stay within their lists.
Position ==
    /\ boot.st \in {"collect", "rebind"} => boot.pc <= Len(KeyOrder) + 1
    /\ boot.st = "databases" => boot.pc <= Len(Steps)

\* Every secret that the first loop has passed is in memory.
Collected ==
    /\ boot.st = "collect" =>
           \A i \in DOMAIN KeyOrder : i < boot.pc => boot.docs[KeyOrder[i]] # NoDocument
    /\ boot.st \in {"rebind", "databases"} =>
           \A k \in RuntimeKeys : boot.docs[k] # NoDocument

\* What a run holds in memory is what is stored.
DocsStored ==
    Booting => \A k \in RuntimeKeys :
                   boot.docs[k] # NoDocument => boot.docs[k] = secret[k]

\* What is stored has the token the run has decided on.
TokenKept ==
    Booting => \A k \in Sharing : secret[k] # NoDocument => secret[k].tok = boot.tok

BootInv == /\ BootTypeOK /\ Numbered /\ Position /\ Collected
           /\ DocsStored /\ TokenKept /\ TokensSurvive

\* A command that is under way has a next call.
Unfinished == Busy => cmd.todo # <<>>

Inv == TypeOK /\ BootInv /\ Unfinished

-----------------------------------------------------------------------------
(* Sequences of calls.                                                      *)
Call == Ops \X (Services \union Utilities \union {"all"})

LEMMA ConcatType ==
    ASSUME NEW S, NEW s \in Seq(S), NEW t \in Seq(S)
    PROVE  s \o t \in Seq(S)
  OBVIOUS

LEMMA TailType ==
    ASSUME NEW S, NEW s \in Seq(S), s # <<>>
    PROVE  /\ Head(s) \in S /\ Tail(s) \in Seq(S)
           /\ Len(s) > 1 => Tail(s) # <<>>
  <1>1. Head(s) \in S /\ Tail(s) \in Seq(S) /\ Len(Tail(s)) = Len(s) - 1
    BY HeadTailProperties
  <1>2. Len(s) \in Nat
    OBVIOUS
  <1>3. Tail(s) = <<>> => Len(Tail(s)) = 0
    <2>1. Len(<<>>) = 0
      OBVIOUS
    <2> QED
      BY <2>1, Zenon
  <1> DEFINE n == Len(Tail(s))
  <1>4. Len(s) > 1 => n # 0
    BY <1>1, <1>2
  <1> QED
    BY <1>1, <1>3, <1>4

\* The list that starts with a call is not empty, whatever follows.
LEMMA ConcatNonempty ==
    ASSUME NEW S, NEW c \in S, NEW s \in Seq(S)
    PROVE  << c >> \o s # <<>>
  <1>1. << c >> \in Seq(S) /\ Len(<< c >>) = 1
    OBVIOUS
  <1>2. Len(<< c >> \o s) = 1 + Len(s) /\ Len(s) \in Nat
    BY <1>1
  <1> QED
    BY <1>2

LEMMA QuiesceType == Quiesce \in Seq(Call) /\ Quiesce # <<>>
  BY DEF Quiesce, Call, Ops, Services, Utilities

LEMMA VerifiedType == Verified \in Seq(Call)
  <1>1. << <<"tasks", "all">>, <<"drained", "all">> >> \in Seq(Call)
    BY DEF Call, Ops
  <1>2. Utility("verifier") \in Seq(Call)
    BY DEF Utility, Call, Ops, Utilities
  <1>3. << <<"drained", "all">> >> \in Seq(Call)
    BY DEF Call, Ops
  <1> QED
    BY <1>1, <1>2, <1>3, ConcatType DEF Verified

LEMMA ResumeType == Resume \in Seq(Call)
  <1>1. \A s \in Services : Opening(s) \in Seq(Call)
    BY DEF Opening, Call, Ops, Services
  <1>2. {"remote", "api", "worker", "observer"} \subseteq Services
    BY DEF Services
  <1> QED
    BY <1>1, <1>2, VerifiedType, ConcatType DEF Resume

LEMMA CallsType ==
    ASSUME NEW act \in Actions
    PROVE  Calls(act) \in Seq(Call) /\ Calls(act) # <<>>
  <1> DEFINE first == <<"tasks", "all">>
  <1>1. first \in Call /\ << first >> \in Seq(Call)
    BY DEF Call, Ops
  <1>2. Utility("migration") \in Seq(Call) /\ Utility("verifier") \in Seq(Call)
    BY DEF Utility, Call, Ops, Utilities
  <1>3. << <<"drained", "all">> >> \in Seq(Call)
    BY DEF Call, Ops
  <1>4. PICK rest \in Seq(Call) : Calls(act) = << first >> \o rest
    <2>1. CASE act = "deploy"
      <3>1. Quiesce \o Utility("migration") \o Resume \in Seq(Call)
        BY <1>2, QuiesceType, ResumeType, ConcatType
      <3> QED
        BY <2>1, <3>1 DEF Calls
    <2>2. CASE act = "quiesce"
      BY <2>2, QuiesceType DEF Calls
    <2>3. CASE act = "rollback"
      <3>1. Quiesce \o Resume \in Seq(Call)
        BY QuiesceType, ResumeType, ConcatType
      <3> QED
        BY <2>3, <3>1 DEF Calls
    <2>4. CASE act = "resume"
      BY <2>4, ResumeType DEF Calls
    <2>5. CASE act = "verify"
      <3>1. << <<"drained", "all">> >> \o Utility("verifier") \in Seq(Call)
        BY <1>2, <1>3, ConcatType
      <3> QED
        BY <2>5, <3>1 DEF Calls
    <2> QED
      BY <2>1, <2>2, <2>3, <2>4, <2>5 DEF Actions
  <1> HIDE DEF first
  <1> QED
    BY <1>1, <1>4, ConcatType, ConcatNonempty

-----------------------------------------------------------------------------
(* The runs of the migration task.                                          *)
LEMMA KeyFacts ==
    /\ Len(KeyOrder) \in Nat /\ DOMAIN KeyOrder = 1 .. Len(KeyOrder)
    /\ \A i \in DOMAIN KeyOrder : KeyOrder[i] \in RuntimeKeys
    /\ \A k \in RuntimeKeys : \E i \in DOMAIN KeyOrder : k = KeyOrder[i]
    /\ Sharing \subseteq RuntimeKeys
    /\ Sharing = {"worker", "remote"}
  BY KeysAssumption DEF RuntimeKeys, Sharing

\* A document that is complete, and only it, has a version.
LEMMA DocumentFacts ==
    /\ NoDocument \notin Document
    /\ \A d \in Stored : d # NoDocument => d \in Document
    /\ \A d \in Document, h \in Hosts :
           [d EXCEPT !.host = h] \in Document /\ [d EXCEPT !.host = h].tok = d.tok
  BY BootsAssumption DEF Stored, Document, NoDocument, Drawn

LEMMA NoBootType == NoBoot \in Runs
  <1>1. [k \in RuntimeKeys |-> NoDocument] \in [RuntimeKeys -> Stored]
    BY DEF Stored
  <1> QED
    BY <1>1, BootsAssumption DEF NoBoot, Runs, ControlHosts

LEMMA InitBoot ==
    ASSUME Init
    PROVE  BootInv
  <1>1. BootTypeOK
    BY BootsAssumption, NoBootType
       DEF Init, BootInit, BootTypeOK, Stored, ControlHosts, Hosts
  <1>2. ~ Booting /\ boot.st = "none"
    BY DEF Init, BootInit, NoBoot, Booting
  <1>3. TokensSurvive
    BY KeyFacts DEF Init, BootInit, TokensSurvive
  <1> QED
    BY <1>1, <1>2, <1>3
       DEF BootInv, Numbered, Position, Collected, DocsStored, TokenKept

\* A run that has ended, however it did.
LEMMA EndedBoot ==
    ASSUME BootInv, NEW st \in {"done", "dead"}, boot' = Ended(st), secret' = secret,
           BootTypeOK'
    PROVE  BootInv'
  <1>1. boot'.st = st
    BY DEF Ended, NoBoot
  <1>2. ~ Booting'
    BY <1>1 DEF Booting
  <1> QED
    BY <1>1, <1>2 DEF BootInv, Numbered, Position, Collected, DocsStored, TokenKept,
                      TokensSurvive

LEMMA EndedType ==
    ASSUME BootTypeOK, NEW st \in {"done", "dead"}
    PROVE  Ended(st) \in Runs
  BY NoBootType DEF BootTypeOK, Ended, Runs

LEMMA BootStartInv ==
    ASSUME BootInv, BootStart
    PROVE  BootInv'
  <1> DEFINE tok == SurvivingToken(boot.n + 1)
  <1>1. boot.n + 1 \in Drawn
    BY BootsAssumption DEF BootInv, BootTypeOK, BootStart, Drawn, Runs
  <1>2. \A k \in Sharing : secret[k] # NoDocument => secret[k].tok \in Drawn
    BY KeyFacts, DocumentFacts DEF BootInv, BootTypeOK, Document
  <1>3. /\ tok \in Drawn
        /\ \A k \in Sharing : secret[k] # NoDocument => secret[k].tok = tok
    BY <1>1, <1>2, KeyFacts DEF SurvivingToken, BootInv, TokensSurvive
  <1> HIDE DEF tok
  <1>4. /\ boot' = [NoBoot EXCEPT !.st = "collect", !.n = boot.n + 1, !.tok = tok,
                                  !.host = bound]
        /\ UNCHANGED <<secret, login, ready, bound>>
    BY DEF BootStart, tok
  <1>5. /\ boot'.st = "collect" /\ boot'.n = boot.n + 1 /\ boot'.tok = tok /\ boot'.pc = 1
        /\ boot'.docs = [k \in RuntimeKeys |-> NoDocument] /\ boot'.host = bound
    BY <1>4 DEF NoBoot
  <1>6. BootTypeOK'
    <2> DEFINE n == boot.n + 1
    <2>1. n \in 0 .. MaxBoots /\ tok \in 0 .. MaxBoots /\ bound \in ControlHosts
      BY <1>1, <1>3, BootsAssumption DEF BootInv, BootTypeOK, Drawn
    <2>2. boot' = [NoBoot EXCEPT !.st = "collect", !.n = n, !.tok = tok, !.host = bound]
      BY <1>4
    <2> HIDE DEF n
    <2>3. boot' \in Runs
      BY <2>1, <2>2, NoBootType DEF Runs
    <2> QED
      BY <1>4, <2>3 DEF BootInv, BootTypeOK
  <1>7. Numbered' /\ Position' /\ Collected'
    BY <1>1, <1>3, <1>5, KeyFacts DEF Numbered, Position, Collected
  <1>8. DocsStored' /\ TokenKept' /\ TokensSurvive'
    BY <1>3, <1>4, <1>5 DEF DocsStored, TokenKept, TokensSurvive, BootInv
  <1> QED
    BY <1>6, <1>7, <1>8 DEF BootInv

\* One turn of either loop, which leaves a document with the run's token.
LEMMA TurnInv ==
    ASSUME BootInv, boot.st \in {"collect", "rebind"}, boot.pc <= Len(KeyOrder),
           NEW k \in RuntimeKeys, k = KeyOrder[boot.pc],
           NEW doc \in Document, k \in Sharing => doc.tok = boot.tok,
           secret' = [secret EXCEPT ![k] = doc],
           boot' = [boot EXCEPT !.docs[k] = doc, !.pc = @ + 1],
           UNCHANGED <<login, ready, bound>>
    PROVE  BootInv'
  <1>1. /\ boot \in Runs /\ secret \in [RuntimeKeys -> Stored]
        /\ boot.docs \in [RuntimeKeys -> Stored] /\ boot.pc \in Nat \ {0} /\ Booting
    BY DEF BootInv, BootTypeOK, Runs, Booting
  <1>2. \A i \in DOMAIN KeyOrder : i < boot.pc + 1 => i < boot.pc \/ i = boot.pc
    BY <1>1, KeyFacts
  <1>3. boot.n \in Drawn /\ boot.tok \in Drawn
    BY <1>1 DEF BootInv, Numbered
  <1>4. /\ boot'.st = boot.st /\ boot'.pc = boot.pc + 1 /\ boot'.tok = boot.tok
        /\ boot'.n = boot.n /\ boot'.docs = [boot.docs EXCEPT ![k] = doc] /\ boot' \in Runs
    <2> DEFINE docs == [boot.docs EXCEPT ![k] = doc]
               pc == boot.pc + 1
    <2>1. doc \in Stored /\ pc \in Nat \ {0}
      BY <1>1 DEF Stored
    <2>2. docs \in [RuntimeKeys -> Stored]
      BY <1>1, <2>1
    <2>3. boot' = [boot EXCEPT !.docs = docs, !.pc = pc]
      BY <1>1 DEF Runs
    <2> HIDE DEF docs, pc
    <2>4. boot' \in Runs
      BY <1>1, <2>1, <2>2, <2>3 DEF Runs
    <2>5. /\ boot'.st = boot.st /\ boot'.n = boot.n /\ boot'.tok = boot.tok
          /\ boot'.pc = pc /\ boot'.docs = docs
      BY <1>1, <2>3 DEF Runs
    <2> QED
      BY <2>4, <2>5 DEF docs, pc
  <1>5. /\ secret' \in [RuntimeKeys -> Stored]
        /\ secret'[k] = doc /\ boot'.docs[k] = doc /\ doc # NoDocument
        /\ \A j \in RuntimeKeys \ {k} :
               secret'[j] = secret[j] /\ boot'.docs[j] = boot.docs[j]
    BY <1>1, <1>4, DocumentFacts DEF Stored
  <1>6. BootTypeOK'
    BY <1>4, <1>5 DEF BootInv, BootTypeOK
  <1>7. Numbered' /\ Position'
    BY <1>1, <1>3, <1>4, KeyFacts DEF Numbered, Position
  <1>8. Collected'
    <2>1. ASSUME boot.st = "collect", NEW i \in DOMAIN KeyOrder, i < boot.pc + 1
          PROVE  boot'.docs[KeyOrder[i]] # NoDocument
      <3>1. CASE i = boot.pc
        BY <3>1, <1>5
      <3>2. CASE i < boot.pc
        BY <2>1, <3>2, <1>1, <1>5, KeyFacts DEF BootInv, Collected
      <3> QED
        BY <2>1, <3>1, <3>2, <1>2
    <2>2. ASSUME boot.st = "rebind", NEW j \in RuntimeKeys
          PROVE  boot'.docs[j] # NoDocument
      BY <2>2, <1>5 DEF BootInv, Collected
    <2> QED
      BY <2>1, <2>2, <1>4 DEF Collected
  <1>9. DocsStored'
    BY <1>1, <1>5 DEF BootInv, DocsStored
  <1>10. TokenKept'
    BY <1>1, <1>4, <1>5, KeyFacts DEF BootInv, TokenKept
  <1>11. Booting'
    BY <1>4 DEF Booting
  <1>12. TokensSurvive'
    BY <1>10, <1>11 DEF TokenKept, TokensSurvive, Sharing
  <1> QED
    BY <1>6, <1>7, <1>8, <1>9, <1>10, <1>12 DEF BootInv

LEMMA CollectInv ==
    ASSUME BootInv, CollectSecret
    PROVE  BootInv'
  <1> DEFINE k == KeyOrder[boot.pc]
             tok == IF k = "remote" /\ boot.docs["worker"] # NoDocument
                    THEN boot.docs["worker"].tok
                    ELSE IF k \in Sharing THEN boot.tok ELSE boot.n
             fresh == [pw |-> boot.n, tok |-> tok, host |-> HostFor(k)]
             doc == IF secret[k] # NoDocument THEN secret[k] ELSE fresh
  <1>1. /\ boot \in Runs /\ secret \in [RuntimeKeys -> Stored]
        /\ boot.docs \in [RuntimeKeys -> Stored] /\ boot.pc \in Nat \ {0}
        /\ boot.st = "collect" /\ boot.pc <= Len(KeyOrder) /\ Booting
    BY DEF BootInv, BootTypeOK, CollectSecret, Runs, Booting
  <1>2. k \in RuntimeKeys
    BY <1>1, KeyFacts
  <1>3. boot.n \in Drawn /\ boot.tok \in Drawn
    BY <1>1 DEF BootInv, Numbered
  <1>4. boot.docs["worker"] # NoDocument => boot.docs["worker"].tok = boot.tok
    BY <1>1, KeyFacts DEF BootInv, DocsStored, TokenKept
  <1>5. tok \in Drawn /\ (k \in Sharing => tok = boot.tok)
    BY <1>3, <1>4
  <1>6. HostFor(k) \in Hosts
    BY <1>1 DEF HostFor, Hosts, Runs
  <1> HIDE DEF tok, k
  <1>7. fresh \in Document /\ fresh.tok = tok
    BY <1>3, <1>5, <1>6 DEF Document
  <1> HIDE DEF fresh
  <1>8. doc \in Document /\ (k \in Sharing => doc.tok = boot.tok)
    BY <1>1, <1>2, <1>5, <1>7, DocumentFacts DEF BootInv, TokenKept
  <1>9. /\ secret' = [secret EXCEPT ![k] = doc]
        /\ boot' = [boot EXCEPT !.docs[k] = doc, !.pc = @ + 1]
        /\ UNCHANGED <<login, ready, bound>>
    BY DEF CollectSecret, doc, fresh, tok, k
  <1>10. k = KeyOrder[boot.pc]
    BY DEF k
  <1> HIDE DEF doc
  <1> QED
    BY <1>1, <1>2, <1>8, <1>9, <1>10, TurnInv

LEMMA RebindInv ==
    ASSUME BootInv, RebindSecret
    PROVE  BootInv'
  <1> DEFINE k == KeyOrder[boot.pc]
             doc == [boot.docs[k] EXCEPT !.host = HostFor(k)]
  <1>1. /\ boot \in Runs /\ secret \in [RuntimeKeys -> Stored]
        /\ boot.docs \in [RuntimeKeys -> Stored] /\ boot.pc \in Nat \ {0}
        /\ boot.st = "rebind" /\ boot.pc <= Len(KeyOrder) /\ Booting
    BY DEF BootInv, BootTypeOK, RebindSecret, Runs, Booting
  <1>2. k \in RuntimeKeys
    BY <1>1, KeyFacts
  <1>3. HostFor(k) \in Hosts
    BY <1>1 DEF HostFor, Hosts, Runs
  <1> HIDE DEF k
  <1>4. boot.docs[k] # NoDocument /\ boot.docs[k] = secret[k]
    BY <1>1, <1>2 DEF BootInv, Collected, DocsStored
  <1>5. doc \in Document /\ doc.tok = secret[k].tok
    BY <1>1, <1>2, <1>3, <1>4, DocumentFacts
  <1>6. k \in Sharing => doc.tok = boot.tok
    BY <1>1, <1>4, <1>5 DEF BootInv, TokenKept
  <1>7. /\ secret' = [secret EXCEPT ![k] = IF doc # boot.docs[k] THEN doc ELSE secret[k]]
        /\ boot' = [boot EXCEPT !.docs[k] = doc, !.pc = @ + 1]
        /\ UNCHANGED <<login, ready, bound>> /\ k = KeyOrder[boot.pc]
    BY DEF RebindSecret, k
  <1> HIDE DEF doc
  <1>8. secret' = [secret EXCEPT ![k] = doc]
    BY <1>4, <1>7
  <1> QED
    BY <1>1, <1>2, <1>5, <1>6, <1>7, <1>8, TurnInv

\* A run under way that keeps the secrets, what it holds and its token.
LEMMA MovesOn ==
    ASSUME BootInv, Booting, NEW pc \in Nat \ {0}, NEW st \in {"rebind", "databases"},
           boot' = [boot EXCEPT !.st = st, !.pc = pc],
           secret' = secret, bound' = bound,
           login' \in [Hosts -> [RuntimeKeys -> 0 .. MaxBoots]],
           ready' \in [Hosts -> {"none", "migrated", "granted"}],
           st = "rebind" => pc <= Len(KeyOrder) + 1,
           st = "databases" => pc <= Len(Steps),
           \A k \in RuntimeKeys : boot.docs[k] # NoDocument
    PROVE  BootInv'
  <1>1. boot \in Runs
    BY DEF BootInv, BootTypeOK
  <1>2. /\ boot' \in Runs /\ boot'.st = st /\ boot'.pc = pc /\ boot'.n = boot.n
        /\ boot'.tok = boot.tok /\ boot'.docs = boot.docs
    BY <1>1 DEF Runs
  <1>3. BootTypeOK'
    BY <1>2 DEF BootInv, BootTypeOK
  <1>4. Numbered' /\ Position' /\ Collected'
    <2>1. Len(Steps) = 6 /\ Len(Steps') = 6
      BY DEF Steps
    <2> QED
      BY <1>2, <2>1 DEF BootInv, Numbered, Position, Collected
  <1>5. DocsStored' /\ TokenKept' /\ TokensSurvive'
    BY <1>2 DEF BootInv, DocsStored, TokenKept, TokensSurvive
  <1> QED
    BY <1>3, <1>4, <1>5 DEF BootInv

\* A run that ends, whatever it has done to the databases.
LEMMA Ends ==
    ASSUME BootInv, NEW st \in {"done", "dead"}, boot' = Ended(st),
           secret' = secret, bound' = bound,
           login' \in [Hosts -> [RuntimeKeys -> 0 .. MaxBoots]],
           ready' \in [Hosts -> {"none", "migrated", "granted"}]
    PROVE  BootInv'
  <1>1. BootTypeOK'
    BY EndedType DEF BootInv, BootTypeOK
  <1> QED
    BY <1>1, EndedBoot

LEMMA CompareInv ==
    ASSUME BootInv, CompareTokens
    PROVE  BootInv'
  <1>1. /\ Booting /\ boot.st = "collect" /\ boot.pc > Len(KeyOrder)
        /\ UNCHANGED <<secret, login, ready, bound>>
    BY DEF CompareTokens, Booting
  <1>2. /\ login' \in [Hosts -> [RuntimeKeys -> 0 .. MaxBoots]]
        /\ ready' \in [Hosts -> {"none", "migrated", "granted"}]
    BY <1>1 DEF BootInv, BootTypeOK
  <1>3. \A k \in RuntimeKeys : boot.docs[k] # NoDocument
    <2> SUFFICES ASSUME NEW k \in RuntimeKeys
                 PROVE  boot.docs[k] # NoDocument
      OBVIOUS
    <2>1. PICK i \in DOMAIN KeyOrder : k = KeyOrder[i]
      BY KeyFacts
    <2>2. i < boot.pc
      BY <1>1, KeyFacts DEF BootInv, BootTypeOK, Runs
    <2> QED
      BY <1>1, <2>1, <2>2 DEF BootInv, Collected
  <1>4. CASE boot.docs["remote"].tok = boot.docs["worker"].tok
    <2> DEFINE st == "rebind"
               pc == 1
    <2>1. boot' = [boot EXCEPT !.st = st, !.pc = pc]
      BY <1>4 DEF CompareTokens
    <2>2. /\ pc \in Nat \ {0} /\ pc <= Len(KeyOrder) + 1
          /\ st \in {"rebind", "databases"} /\ st # "databases"
      BY KeyFacts
    <2> HIDE DEF st, pc
    <2> QED
      BY <1>1, <1>2, <1>3, <2>1, <2>2, MovesOn
  <1>5. CASE boot.docs["remote"].tok # boot.docs["worker"].tok
    <2>1. boot' = Ended("dead")
      BY <1>5 DEF CompareTokens
    <2> QED
      BY <1>1, <1>2, <2>1, Ends
  <1> QED
    BY <1>4, <1>5

LEMMA StepsFacts ==
    /\ Len(Steps) = 6
    /\ \A i \in 1 .. 6 : Steps[i][2] \in {boot.host, "receiver"}
  BY DEF Steps

LEMMA EnterInv ==
    ASSUME BootInv, EnterDatabases
    PROVE  BootInv'
  <1> DEFINE st == "databases"
             pc == 1
  <1>1. /\ Booting /\ boot.st = "rebind" /\ UNCHANGED <<secret, login, ready, bound>>
        /\ boot' = [boot EXCEPT !.st = st, !.pc = pc]
    BY DEF EnterDatabases, Booting
  <1>2. /\ login' \in [Hosts -> [RuntimeKeys -> 0 .. MaxBoots]]
        /\ ready' \in [Hosts -> {"none", "migrated", "granted"}]
        /\ \A k \in RuntimeKeys : boot.docs[k] # NoDocument
    BY <1>1 DEF BootInv, BootTypeOK, Collected
  <1>3. /\ pc \in Nat \ {0} /\ pc <= Len(Steps)
        /\ st \in {"rebind", "databases"} /\ st # "rebind"
    BY StepsFacts
  <1> HIDE DEF st, pc
  <1> QED
    BY <1>1, <1>2, <1>3, MovesOn

\* One transaction on a database, whatever it writes there.
LEMMA DatabaseInv ==
    ASSUME BootInv, NEW op, DatabaseStep(op), NextStep, secret' = secret, bound' = bound,
           login' \in [Hosts -> [RuntimeKeys -> 0 .. MaxBoots]],
           ready' \in [Hosts -> {"none", "migrated", "granted"}]
    PROVE  BootInv'
  <1>1. /\ boot \in Runs /\ Booting /\ boot.st = "databases"
        /\ boot.pc \in Nat \ {0} /\ boot.pc <= 6
    BY StepsFacts DEF BootInv, BootTypeOK, Position, DatabaseStep, Booting, Runs
  <1>2. CASE boot.pc = 6
    <2>1. boot' = Ended("done")
      BY <1>2, StepsFacts DEF NextStep
    <2> QED
      BY <2>1, Ends
  <1>3. CASE boot.pc # 6
    <2> DEFINE pc == boot.pc + 1
    <2>1. pc \in Nat \ {0} /\ pc <= 6
      BY <1>1, <1>3
    <2>2. boot' = [boot EXCEPT !.st = "databases", !.pc = pc]
      <3>1. boot' = [boot EXCEPT !.pc = @ + 1]
        BY <1>3, StepsFacts DEF NextStep
      <3> QED
        BY <1>1, <3>1 DEF Runs
    <2>3. \A k \in RuntimeKeys : boot.docs[k] # NoDocument
      BY <1>1 DEF BootInv, Collected
    <2> HIDE DEF pc
    <2> QED
      BY <1>1, <2>1, <2>2, <2>3, StepsFacts, MovesOn
  <1> QED
    BY <1>2, <1>3

LEMMA HostFacts ==
    ASSUME BootInv, NEW op, DatabaseStep(op)
    PROVE  Host \in Hosts
  <1>1. boot \in Runs /\ boot.st = "databases" /\ boot.pc <= 6
    BY StepsFacts DEF BootInv, BootTypeOK, Position, DatabaseStep
  <1>2. boot.pc \in 1 .. 6 /\ boot.host \in Hosts
    BY <1>1 DEF Runs, Hosts
  <1> QED
    BY <1>2, StepsFacts DEF Host, Hosts

LEMMA ApplyInv ==
    ASSUME BootInv, ApplyRoles
    PROVE  BootInv'
  <1>1. Host \in Hosts
    BY HostFacts DEF ApplyRoles
  <1>2. \A k \in RuntimeKeys : boot.docs[k].pw \in 0 .. MaxBoots
    BY BootsAssumption
       DEF BootInv, BootTypeOK, Runs, Stored, Document, NoDocument, Drawn
  <1>3. Passwords(Host) \in [RuntimeKeys -> 0 .. MaxBoots]
    <2> SUFFICES ASSUME NEW k \in RuntimeKeys
                 PROVE  login[Host][k] \in 0 .. MaxBoots
      BY <1>2 DEF Passwords
    <2> QED
      BY <1>1 DEF BootInv, BootTypeOK
  <1>4. /\ login' = [login EXCEPT ![Host] = Passwords(Host)]
        /\ DatabaseStep("roles") /\ NextStep /\ UNCHANGED <<secret, ready, bound>>
    BY DEF ApplyRoles
  <1>5. /\ login' \in [Hosts -> [RuntimeKeys -> 0 .. MaxBoots]]
        /\ ready' \in [Hosts -> {"none", "migrated", "granted"}]
    BY <1>3, <1>4 DEF BootInv, BootTypeOK
  <1> QED
    BY <1>4, <1>5, DatabaseInv

LEMMA MigrateInv ==
    ASSUME BootInv, Migrate \/ Grants
    PROVE  BootInv'
  <1>1. /\ login' \in [Hosts -> [RuntimeKeys -> 0 .. MaxBoots]]
        /\ secret' = secret /\ bound' = bound
    BY DEF Migrate, Grants, BootInv, BootTypeOK
  <1>2. ready' \in [Hosts -> {"none", "migrated", "granted"}]
    BY DEF Migrate, Grants, BootInv, BootTypeOK
  <1>3. CASE Migrate
    BY <1>1, <1>2, <1>3, DatabaseInv DEF Migrate
  <1>4. CASE Grants
    BY <1>1, <1>2, <1>4, DatabaseInv DEF Grants
  <1> QED
    BY <1>3, <1>4

LEMMA DiesInv ==
    ASSUME BootInv, BootDies
    PROVE  BootInv'
  <1>1. boot' = Ended("dead") /\ UNCHANGED <<secret, login, ready, bound>>
    BY DEF BootDies
  <1>2. /\ login' \in [Hosts -> [RuntimeKeys -> 0 .. MaxBoots]]
        /\ ready' \in [Hosts -> {"none", "migrated", "granted"}]
    BY <1>1 DEF BootInv, BootTypeOK
  <1> QED
    BY <1>1, <1>2, Ends

LEMMA BootStepInv ==
    ASSUME BootInv, BootStep
    PROVE  BootInv'
  BY CollectInv, CompareInv, RebindInv, EnterInv, ApplyInv, MigrateInv DEF BootStep

\* What the cloud does to the databases and their binding meanwhile.
LEMMA BoundInv ==
    ASSUME BootInv, secret' = secret, boot' = boot, bound' \in ControlHosts,
           login' \in [Hosts -> [RuntimeKeys -> 0 .. MaxBoots]],
           ready' \in [Hosts -> {"none", "migrated", "granted"}]
    PROVE  BootInv'
  BY DEF BootInv, BootTypeOK, Numbered, Position, Collected, DocsStored, TokenKept,
         TokensSurvive, Booting, Steps

LEMMA FrameInv ==
    ASSUME BootInv, UNCHANGED bootVars
    PROVE  BootInv'
  <1>1. /\ bound' \in ControlHosts
        /\ login' \in [Hosts -> [RuntimeKeys -> 0 .. MaxBoots]]
        /\ ready' \in [Hosts -> {"none", "migrated", "granted"}]
    BY DEF BootInv, BootTypeOK, bootVars
  <1> QED
    BY <1>1, BoundInv DEF bootVars

\* A restored instance is a copy of the first, and may become the bound one.
LEMMA RestoredInv ==
    ASSUME BootInv, RestoreRequest \/ BindRestored
    PROVE  BootInv'
  <1>1. /\ login' \in [Hosts -> [RuntimeKeys -> 0 .. MaxBoots]]
        /\ ready' \in [Hosts -> {"none", "migrated", "granted"}]
        /\ bound' \in ControlHosts
    <2>1. {"first", "restored"} \subseteq Hosts /\ "restored" \in ControlHosts
      BY DEF Hosts, ControlHosts
    <2>2. CASE RestoreRequest
      BY <2>1, <2>2 DEF RestoreRequest, BootInv, BootTypeOK
    <2>3. CASE BindRestored
      BY <2>1, <2>3 DEF BindRestored, BootInv, BootTypeOK
    <2> QED
      BY <2>2, <2>3
  <1>2. secret' = secret /\ boot' = boot
    BY DEF RestoreRequest, BindRestored
  <1> QED
    BY <1>1, <1>2, BoundInv

\* Whatever the operator, ECS and the cloud do, the migration task's
\* invariant is kept: only its own steps write what it is about.
LEMMA BootNext ==
    ASSUME BootInv, Next
    PROVE  BootInv'
  <1>1. CASE RunTask \/ CallFails
    <2>1. BootStart \/ UNCHANGED bootVars
      BY <1>1 DEF RunTask, CallFails, bootVars
    <2> QED
      BY <2>1, BootStartInv, FrameInv
  <1>2. CASE MigrationRuns
    BY <1>2, BootStepInv DEF MigrationRuns
  <1>3. CASE MigrationExits
    <2>1. BootDies \/ UNCHANGED bootVars
      BY <1>3 DEF MigrationExits
    <2> QED
      BY <2>1, DiesInv, FrameInv
  <1>4. CASE RestoreRequest \/ BindRestored
    BY <1>4, RestoredInv
  <1>5. CASE \/ Command \/ ValidateTasks \/ StopService \/ AwaitStable \/ AssertDrained
             \/ AwaitTask \/ StartService \/ AwaitSteady \/ ControllerDies
             \/ \E s \in Services : ServiceSettles(s) \/ RolledBack(s)
             \/ VerifierExits \/ Reconcile \/ Effect
    <2>1. UNCHANGED bootVars
      BY <1>5 DEF Command, ValidateTasks, StopService, AwaitStable, AssertDrained,
                  AwaitTask, StartService, AwaitSteady, ControllerDies, ServiceSettles,
                  RolledBack, VerifierExits, Reconcile, Effect
    <2> QED
      BY <2>1, FrameInv
  <1> QED
    BY <1>1, <1>2, <1>3, <1>4, <1>5 DEF Next

-----------------------------------------------------------------------------
(* The commands, the services and the one-off tasks.                        *)
Commands == [act : Actions, rel : Releases, n : 0 .. MaxCommands, todo : Seq(Call),
             st : {"running", "failing", "failed", "completed"}]

LEMMA DoneInv ==
    ASSUME cmd \in Commands, Unfinished, Busy, Done
    PROVE  cmd' \in Commands /\ Unfinished'
  <1>1. cmd.todo \in Seq(Call) /\ cmd.todo # <<>>
    BY DEF Commands, Unfinished
  <1>2. Tail(cmd.todo) \in Seq(Call)
    BY <1>1, TailType
  <1>3. Len(cmd.todo) > 1 => Tail(cmd.todo) # <<>>
    BY <1>1, TailType
  <1> DEFINE rest == Tail(cmd.todo)
             st == IF Len(cmd.todo) > 1 THEN cmd.st
                   ELSE IF cmd.st = "failing" THEN "failed" ELSE "completed"
  <1>4. cmd' = [cmd EXCEPT !.todo = rest, !.st = st]
    BY DEF Done, Commands
  <1>5. st \in {"running", "failing", "failed", "completed"}
    BY DEF Busy
  <1>6. st \in {"running", "failing"} => rest # <<>>
    BY <1>3
  <1> HIDE DEF rest, st
  <1>7. cmd' \in Commands /\ cmd'.todo = rest /\ cmd'.st = st
    BY <1>2, <1>4, <1>5 DEF Commands, rest
  <1> QED
    BY <1>6, <1>7 DEF Unfinished, Busy

LEMMA RaisedInv ==
    ASSUME cmd \in Commands, Raised
    PROVE  cmd' \in Commands /\ Unfinished'
  <1>1. <<>> \in Seq(Call)
    OBVIOUS
  <1>2. CASE cmd' = [cmd EXCEPT !.todo = Quiesce, !.st = "failing"]
    BY <1>2, QuiesceType DEF Commands, Unfinished
  <1>3. CASE cmd' = [cmd EXCEPT !.todo = <<>>, !.st = "failed"]
    BY <1>1, <1>3 DEF Commands, Unfinished, Busy
  <1> QED
    BY <1>2, <1>3 DEF Raised

\* No other step than these two moves a command that is under way.
LEMMA CmdNext ==
    ASSUME TypeOK, Unfinished, Next
    PROVE  cmd' \in Commands /\ Unfinished'
  <1>1. cmd \in Commands
    BY DEF TypeOK, Commands, Call
  <1>2. CASE Command
    <2>1. PICK act \in Actions, r \in Releases :
              /\ cmd' = [act |-> act, rel |-> r, todo |-> Calls(act), st |-> "running",
                         n |-> cmd.n + 1]
              /\ cmd.n < MaxCommands
      BY <1>2 DEF Command
    <2>2. Calls(act) \in Seq(Call) /\ Calls(act) # <<>>
      BY CallsType
    <2>3. cmd.n + 1 \in 0 .. MaxCommands
      BY <1>1, <2>1, ReleaseAssumption DEF Commands
    <2> QED
      BY <2>1, <2>2, <2>3 DEF Commands, Unfinished
  <1>3. CASE \/ ValidateTasks \/ StopService \/ AwaitStable \/ AssertDrained \/ RunTask
             \/ AwaitTask \/ StartService \/ AwaitSteady \/ CallFails
    <2>1. Busy /\ (Done \/ Raised)
      BY <1>3 DEF ValidateTasks, StopService, AwaitStable, AssertDrained, RunTask,
                  AwaitTask, StartService, AwaitSteady, CallFails, Pending
    <2> QED
      BY <1>1, <2>1, DoneInv, RaisedInv
  <1>4. CASE ControllerDies
    <2>1. <<>> \in Seq(Call)
      OBVIOUS
    <2> QED
      BY <1>1, <1>4, <2>1 DEF ControllerDies, Commands, Unfinished, Busy
  <1>5. CASE \/ \E s \in Services : ServiceSettles(s) \/ RolledBack(s)
             \/ MigrationRuns \/ MigrationExits \/ VerifierExits
             \/ RestoreRequest \/ BindRestored \/ Reconcile \/ Effect
    <2>1. cmd' = cmd
      BY <1>5 DEF ServiceSettles, RolledBack, MigrationRuns, MigrationExits,
                  VerifierExits, RestoreRequest, BindRestored, Reconcile, Effect,
                  releaseVars
    <2> QED
      BY <1>1, <2>1 DEF Unfinished, Busy
  <1> QED
    BY <1>2, <1>3, <1>4, <1>5 DEF Next

\* A call's argument only matters where it names a service.
LEMMA SvcNext ==
    ASSUME TypeOK, Next
    PROVE  svc' \in [Services -> [want : BOOLEAN, up : BOOLEAN, rel : Releases,
                                  prev : Releases, doc : Stored]]
  <1> DEFINE S == [want : BOOLEAN, up : BOOLEAN, rel : Releases, prev : Releases,
                   doc : Stored]
  <1>1. svc \in [Services -> S] /\ cmd.rel \in Releases
    BY DEF TypeOK
  <1>2. CASE StopService
    <2>1. svc' = [svc EXCEPT ![Arg] = [@ EXCEPT !.want = FALSE]]
      BY <1>2 DEF StopService
    <2> QED
      BY <1>1, <2>1
  <1>3. CASE StartService
    <2>1. svc' = [svc EXCEPT ![Arg] = [@ EXCEPT !.want = TRUE, !.rel = cmd.rel]]
      BY <1>1, <1>3 DEF StartService
    <2> QED
      BY <1>1, <2>1
  <1>4. ASSUME NEW s \in Services, ServiceSettles(s)
        PROVE  svc' \in [Services -> S]
    <2> DEFINE up == svc[s].want
               prev == IF svc[s].want THEN svc[s].rel ELSE svc[s].prev
               doc == IF svc[s].want THEN secret[s] ELSE NoDocument
    <2>1. up \in BOOLEAN /\ prev \in Releases
      BY <1>1
    <2>2. doc \in Stored
      BY ReleaseAssumption DEF TypeOK, BootTypeOK, Stored
    <2>3. svc' = [svc EXCEPT ![s] = [@ EXCEPT !.up = up, !.prev = prev, !.doc = doc]]
      BY <1>1, <1>4 DEF ServiceSettles
    <2> HIDE DEF up, prev, doc
    <2> QED
      BY <1>1, <2>1, <2>2, <2>3
  <1>5. ASSUME NEW s \in Services, RolledBack(s)
        PROVE  svc' \in [Services -> S]
    BY <1>1, <1>5 DEF RolledBack
  <1>6. CASE UNCHANGED svc
    BY <1>1, <1>6
  <1>7. \/ StopService \/ StartService \/ UNCHANGED svc
        \/ \E s \in Services : ServiceSettles(s) \/ RolledBack(s)
    BY DEF Next, Command, ValidateTasks, AwaitStable, AssertDrained, RunTask, AwaitTask,
           AwaitSteady, CallFails, ControllerDies, MigrationRuns, MigrationExits,
           VerifierExits, RestoreRequest, BindRestored, Reconcile, Effect, releaseVars
  <1> QED
    BY <1>2, <1>3, <1>4, <1>5, <1>6, <1>7

LEMMA JobNext ==
    ASSUME TypeOK, Next
    PROVE  job' \in [Utilities -> [st : {"none", "running", "stopping", "stopped"},
                                   exit : {0, 1}]]
  <1>1. job \in [Utilities -> [st : {"none", "running", "stopping", "stopped"},
                               exit : {0, 1}]]
    BY DEF TypeOK
  <1>2. CASE RunTask \/ AwaitTask \/ CallFails
    BY <1>1, <1>2 DEF RunTask, AwaitTask, CallFails, NoTask
  <1>3. CASE MigrationExits \/ VerifierExits
    BY <1>1, <1>3 DEF MigrationExits, VerifierExits, Exits
  <1>4. RunTask \/ AwaitTask \/ CallFails \/ MigrationExits \/ VerifierExits \/ UNCHANGED job
    BY DEF Next, Command, ValidateTasks, StopService, AwaitStable, AssertDrained,
           StartService, AwaitSteady, ControllerDies, ServiceSettles, RolledBack,
           MigrationRuns, RestoreRequest, BindRestored, Reconcile, Effect, releaseVars
  <1> QED
    BY <1>1, <1>2, <1>3, <1>4

LEMMA SafeNext ==
    ASSUME TypeOK, Next
    PROVE  safe' \subseteq ControlHosts /\ restored' \in BOOLEAN
  <1>1. safe \subseteq ControlHosts /\ restored \in BOOLEAN /\ bound \in ControlHosts
    BY DEF TypeOK, BootTypeOK
  <1>2. CASE RestoreRequest \/ Reconcile \/ Effect
    BY <1>1, <1>2 DEF RestoreRequest, Reconcile, Effect, ControlHosts
  <1>3. RestoreRequest \/ Reconcile \/ Effect \/ UNCHANGED <<safe, restored>>
    BY DEF Next, Command, ValidateTasks, StopService, AwaitStable, AssertDrained, RunTask,
           AwaitTask, StartService, AwaitSteady, CallFails, ControllerDies,
           ServiceSettles, RolledBack, MigrationRuns, MigrationExits, VerifierExits,
           BindRestored, releaseVars
  <1> QED
    BY <1>1, <1>2, <1>3

-----------------------------------------------------------------------------
LEMMA InitInv ==
    ASSUME Init
    PROVE  Inv
  <1>1. BootInv /\ BootTypeOK
    BY InitBoot DEF Init, BootInv
  <1>2. PICK r \in Approved :
            /\ svc = [s \in Services |-> [want |-> FALSE, up |-> FALSE, rel |-> r,
                                          prev |-> r, doc |-> NoDocument]]
            /\ cmd = [act |-> "quiesce", rel |-> r, todo |-> <<>>, st |-> "completed",
                      n |-> 0]
    BY DEF Init
  <1>3. r \in Releases /\ NoDocument \in Stored /\ <<>> \in Seq(Call) /\ 0 \in 0 .. MaxCommands
    BY ReleaseAssumption DEF Releases, Stored
  <1>4. cmd \in Commands /\ Unfinished
    BY <1>2, <1>3 DEF Commands, Actions, Unfinished, Busy
  <1>5. svc \in [Services -> [want : BOOLEAN, up : BOOLEAN, rel : Releases,
                              prev : Releases, doc : Stored]]
    BY <1>2, <1>3
  <1>6. /\ job \in [Utilities -> [st : {"none", "running", "stopping", "stopped"},
                                  exit : {0, 1}]]
        /\ safe \subseteq ControlHosts /\ restored \in BOOLEAN
    BY DEF Init, NoTask, ControlHosts
  <1> QED
    BY <1>1, <1>4, <1>5, <1>6 DEF Inv, TypeOK, Commands, Call

LEMMA StepInv ==
    ASSUME Inv, [Next]_vars
    PROVE  Inv'
  <1>1. CASE Next
    <2>1. BootInv' /\ BootTypeOK'
      BY <1>1, BootNext DEF Inv, BootInv
    <2>2. cmd' \in Commands /\ Unfinished'
      BY <1>1, CmdNext DEF Inv
    <2>3. TypeOK'
      BY <1>1, <2>1, <2>2, SvcNext, JobNext, SafeNext DEF Inv, TypeOK, Commands, Call
    <2> QED
      BY <2>1, <2>2, <2>3 DEF Inv
  <1>2. CASE UNCHANGED vars
    <2>1. BootInv'
      BY <1>2, FrameInv DEF Inv, vars
    <2>2. TypeOK' /\ Unfinished'
      BY <1>2, <2>1 DEF Inv, TypeOK, BootInv, Unfinished, Busy, vars, releaseVars
    <2> QED
      BY <2>1, <2>2 DEF Inv
  <1> QED
    BY <1>1, <1>2

\* Release: in every state of every run, the state has its shape, the loops of
\* the migration task (cloud.py:83, cloud.py:146) are within their lists and
\* hold what is stored, and a command that is under way has a call to make.
THEOREM Invariance == Spec => []Inv
  <1> QED
    BY InitInv, StepInv, PTL DEF Spec

\* release.py:40, cloud.py:62: services, one-off tasks, commands, secrets and
\* database roles keep their shapes.
THEOREM TypeCorrect == Spec => []TypeOK
  <1>1. Inv => TypeOK
    BY DEF Inv
  <1> QED
    BY Invariance, <1>1, PTL

\* cloud.py:103: for any list of secrets, however often the migration task is
\* interrupted and run again, the worker's and the receiver's
\* secret never hold different executor tokens.
THEOREM TokensAgree == Spec => []TokensSurvive
  <1>1. Inv => TokensSurvive
    BY DEF Inv, BootInv
  <1> QED
    BY Invariance, <1>1, PTL
=============================================================================
